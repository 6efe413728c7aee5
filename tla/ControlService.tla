--------------------------- MODULE ControlService ---------------------------
(* What the control interface promises the programs that use it, without     *)
(* sockets, pipes, processes or time: a request is refused or carried out,   *)
(* never both and never twice; success is reported only of one that was      *)
(* accepted, and nothing but a crash comes between that and its execution;   *)
(* and the service keeps a promise before it makes another.                  *)
(* DESIGN.md, "Control", as control.c and main.c have it.                    *)
CONSTANTS Clients,
          Commands  \* what the service knows how to do

VARIABLES request,  \* what each client is about
          fate,     \* what has become of its request: it is "new", then "asked", and
                    \* "promised", and "done", "lost" or "refused" in the end
          heard     \* what the client has been told: "nothing", "yes" or "no"

serviceVars == <<request, fate, heard>>

ServiceInit ==
    /\ fate = [c \in Clients |-> "new"]
    /\ heard = [c \in Clients |-> "nothing"]

Becomes(c, next) ==
    /\ fate' = [fate EXCEPT ![c] = next]
    /\ UNCHANGED <<request, heard>>

\* The request reaches the service.
Ask(c) == fate[c] = "new" /\ Becomes(c, "asked")

\* The service may accept c: it knows the request and owes nobody anything.
Acceptable(c) ==
    /\ fate[c] = "asked" /\ request[c] \in Commands
    /\ \A d \in Clients : fate[d] # "promised"

\* The request is accepted, to be carried out next.
Promise(c) == Acceptable(c) /\ Becomes(c, "promised")

Keep(c) == fate[c] = "promised" /\ Becomes(c, "done")

\* The service crashes before it has kept its promise.
Break(c) == fate[c] = "promised" /\ Becomes(c, "lost")

\* The service turns down whom it has not accepted, and all of them when it ends.
Refuse(clients) ==
    /\ \A c \in clients : fate[c] \in {"new", "asked"}
    /\ fate' = [c \in Clients |-> IF c \in clients THEN "refused" ELSE fate[c]]
    /\ UNCHANGED <<request, heard>>

\* The client ends: with success only if its request was accepted, without it
\* whenever it likes, and whatever becomes of its request then.
Hear(c, answer) ==
    /\ heard[c] = "nothing"
    /\ answer = "yes" => fate[c] \in {"promised", "done", "lost"}
    /\ heard' = [heard EXCEPT ![c] = answer]
    /\ UNCHANGED <<request, fate>>

ServiceNext ==
    \/ \E c \in Clients :
           Ask(c) \/ Promise(c) \/ Keep(c) \/ Break(c) \/ Hear(c, "yes") \/ Hear(c, "no")
    \/ \E clients \in SUBSET Clients : Refuse(clients)

ServiceSafety == ServiceInit /\ [][ServiceNext]_serviceVars

\* Promises are kept or broken by a crash; that anybody is accepted is not promised.
ServiceSpec == ServiceSafety /\ \A c \in Clients : WF_serviceVars(Keep(c))

=============================================================================
