---------------------------- MODULE ContainerService ----------------------------
(***************************************************************************)
(* What the program promises its clients (README.md, "Queueing logic"),    *)
(* without the broker: a client that asks for a job is connected to a      *)
(* place where a container of the job's type runs, or is turned away.      *)
(* Clients of a type are alone in their place, unless the type is shared.  *)
(* DockerService shows that the program implements this.                   *)
(***************************************************************************)

CONSTANTS
    Clients,
    Places,          \* where containers run
    Jobs,            \* what a client may ask for
    WorkerJobs,      \* the jobs that are launched, and never connected to
    Types,           \* the types of containers
    Type,            \* Type[j]: the type job j needs
    SharedTypes,     \* the types whose container any number of clients use at once
    NoJob, NoType, NoPlace

VARIABLES
    client,          \* client[c]: "idle", "waiting", "served" or "gone"
    job,             \* what c asks for
    place,           \* where c is connected to
    image            \* image[p]: the type of the container in place p, or NoType

serviceVars == <<client, job, place, image>>

Init ==
    /\ client = [c \in Clients |-> "idle"]
    /\ job = [c \in Clients |-> NoJob]
    /\ place = [c \in Clients |-> NoPlace]
    /\ image \in [Places -> Types \cup {NoType}]

Users(p) == {c \in Clients : client[c] = "served" /\ place[c] = p}

Ask(c) ==
    /\ client[c] = "idle"
    /\ client' = [client EXCEPT ![c] = "waiting"]
    /\ \E j \in Jobs : job' = [job EXCEPT ![c] = j]
    /\ UNCHANGED <<place, image>>

\* c may use p: a container of its type runs there, or did until a moment ago, and
\* who is there already uses it as a shared one.
MayUse(c, p) ==
    /\ job[c] \notin WorkerJobs
    /\ image[p] \in {Type[job[c]], NoType}
    /\ \A d \in Users(p) : Type[job[d]] = Type[job[c]] /\ Type[job[c]] \in SharedTypes

Grant(c) ==
    /\ client[c] = "waiting"
    /\ \E p \in Places :
        /\ MayUse(c, p)
        /\ place' = [place EXCEPT ![c] = p]
    /\ client' = [client EXCEPT ![c] = "served"]
    /\ UNCHANGED <<job, image>>

TurnAway(c) ==
    /\ client[c] = "waiting"
    /\ client' = [client EXCEPT ![c] = "gone"]
    /\ UNCHANGED <<job, place, image>>

Leave(c) ==
    /\ client[c] = "served"
    /\ client' = [client EXCEPT ![c] = "gone"]
    /\ place' = [place EXCEPT ![c] = NoPlace]
    /\ UNCHANGED <<job, image>>

Return(c) ==
    /\ client[c] = "gone"
    /\ client' = [client EXCEPT ![c] = "idle"]
    /\ job' = [job EXCEPT ![c] = NoJob]
    /\ UNCHANGED <<place, image>>

\* Another container is put in place p, which nobody uses.
Replace(p) ==
    /\ Users(p) = {}
    /\ \E i \in Types : image' = [image EXCEPT ![p] = i]
    /\ UNCHANGED <<client, job, place>>

\* The container in place p ends, whoever uses it.
Vanish(p) ==
    /\ image[p] # NoType
    /\ image' = [image EXCEPT ![p] = NoType]
    /\ UNCHANGED <<client, job, place>>

Next ==
    \/ \E c \in Clients : Ask(c) \/ Grant(c) \/ TurnAway(c) \/ Leave(c) \/ Return(c)
    \/ \E p \in Places : Replace(p) \/ Vanish(p)

\* Nobody waits for ever, and nobody stays for ever.
Answering ==
    \A c \in Clients : WF_serviceVars(Grant(c) \/ TurnAway(c)) /\ WF_serviceVars(Leave(c))

Spec == Init /\ [][Next]_serviceVars /\ Answering

-----------------------------------------------------------------------------
TypeOK ==
    /\ client \in [Clients -> {"idle", "waiting", "served", "gone"}]
    /\ job \in [Clients -> Jobs \cup {NoJob}]
    /\ place \in [Clients -> Places \cup {NoPlace}]
    /\ image \in [Places -> Types \cup {NoType}]
    /\ \A c \in Clients : client[c] \in {"waiting", "served"} => job[c] \in Jobs
    /\ \A c \in Clients : client[c] = "served" => place[c] \in Places

\* What the README promises: two clients are together in a place only as users of
\* one shared type, and the container there, if there still is one, is of their type.
ServedWell ==
    /\ \A p \in Places : \A c, d \in Users(p) :
        c # d => Type[job[c]] = Type[job[d]] /\ Type[job[c]] \in SharedTypes
    /\ \A p \in Places : \A c \in Users(p) :
        job[c] \notin WorkerJobs /\ image[p] \in {Type[job[c]], NoType}
=============================================================================
