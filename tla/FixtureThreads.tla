--------------------------- MODULE FixtureThreads ----------------------------
(***************************************************************************)
(* The threads of the fixture merchant, one per request: what each serves, *)
(* where it is, and what had been answered when its request arrived.       *)
(***************************************************************************)
CONSTANTS
    Threads,    \* requests, each served by a thread of its own
    None

Outcomes == {"ok", "created", "replayed", "conflict", "existing", "converted",
          "not_found", "invalid", "refused"}

ASSUME OutcomesAssumption == None \notin Outcomes

VARIABLES
    pc, req,        \* the thread and the request it serves
    local,          \* what it has read
    resp,           \* what it has answered
    heard           \* history: who had been answered when the request arrived

NoAnswer == [code |-> None, id |-> None]

ThreadsInit ==
    /\ pc = [t \in Threads |-> "idle"] /\ req = [t \in Threads |-> None]
    /\ local = [t \in Threads |-> None] /\ resp = [t \in Threads |-> NoAnswer]
    /\ heard = [t \in Threads |-> {}]

At(t, label) == pc[t] = label
Answered == {t \in Threads : At(t, "done")}

Go(t, label) == pc' = [pc EXCEPT ![t] = label] /\ UNCHANGED <<req, resp, heard>>
Read(t, value) == local' = [local EXCEPT ![t] = value]

Answer(t, code, id) ==
    /\ pc' = [pc EXCEPT ![t] = "done"]
    /\ resp' = [resp EXCEPT ![t] = [code |-> code, id |-> id]]
    /\ UNCHANGED <<req, heard>>

\* A request is read, and its operation begins.
Begin(t, r) ==
    /\ At(t, "idle")
    /\ req' = [req EXCEPT ![t] = r]
    /\ pc' = [pc EXCEPT ![t] = r.op]
    /\ heard' = [heard EXCEPT ![t] = Answered]
    /\ UNCHANGED <<local, resp>>
=============================================================================
