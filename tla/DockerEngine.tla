------------------------------ MODULE DockerEngine ------------------------------
(***************************************************************************)
(* How a docker runner obeys one Start: the calls of DockerRunner.start    *)
(* (docker-runner.go) to the docker engine, over the client of docker.go.  *)
(* A runner has a client of its own, and over SSH the client has one       *)
(* connection, whose other end is an ssh process the client starts again   *)
(* when the connection is lost.                                            *)
(*                                                                         *)
(* A call has three steps, between which the connection may be lost: the   *)
(* request is sent, the engine performs it, the runner gets the answer.    *)
(* DockerRunner has all of this as the steps KillOld, Launch, StartFails,  *)
(* Ready and NotReady; this module shows that they are what a start does.  *)
(***************************************************************************)
EXTENDS Naturals, Sequences

CONSTANTS
    Jobs,            \* what a Start may ask for
    WorkerJobs,      \* the jobs whose port is 3
    NoJob,           \* no container
    StopFirst        \* -stop is positive: stop a container before killing it

ASSUME EngineAssumption ==
    NoJob \notin Jobs /\ WorkerJobs \subseteq Jobs /\ StopFirst \in BOOLEAN

VARIABLES
    pc,              \* where the runner is: the engine call it makes, or "read", "wait"
    job,             \* the containerInfo of the Start it obeys
    listed,          \* getContainerID found a container on the port
    call,            \* the call: "none", "sent", or performed with status "ok" or "bad"
    link,            \* the client's connection: "none", "up" or "lost"
    fresh,           \* the connection was made for the call that uses it
    process,         \* the ssh process: "none" yet, "running", or "nil"
    port,            \* the job whose container has the runner's port, or NoJob
    orders,          \* messages from the broker
    reports          \* messages to the broker

client == <<link, fresh, process>>
runnerVars == <<pc, job, listed, call, client, orders, reports>>
vars == <<runnerVars, port>>

Calls == {"list", "stop", "kill", "pull", "create", "start"}

\* The messages of Slots; the runner's address is 1.
Start(j) == [type |-> "Start", job |-> j]
Free == [type |-> "Free", address |-> 1]
Started == [type |-> "Started", address |-> 0]
Failed == [type |-> "Error", address |-> 0]

\* The port may be in use: the program leaves its containers running when it ends.
Init ==
    /\ pc = "boot" /\ job = NoJob /\ listed = FALSE
    /\ call = "none" /\ link = "none" /\ fresh = FALSE /\ process = "none"
    /\ orders = <<>> /\ reports = <<>>
    /\ port \in Jobs \cup {NoJob}

-----------------------------------------------------------------------------
(* The client (docker.go). *)

\* A call that finds no connection makes one.
NeedsLink == pc \in Calls /\ call = "none" /\ link \in {"none", "lost"} /\ ~fresh

\* connect kills the ssh process it has and starts another one.
Dial ==
    /\ NeedsLink /\ process # "nil"
    /\ link' = "up" /\ fresh' = TRUE /\ process' = "running"
    /\ UNCHANGED <<pc, job, listed, call, port, orders, reports>>

\* The runner gives up the start and tells the broker.
Fail ==
    /\ reports' = Append(reports, Failed)
    /\ pc' = "read" /\ call' = "none" /\ fresh' = FALSE

\* ssh cannot be started: the connection has no process at its other end.  The
\* error of connect is dropped, and the call fails on the closed pipes.
DialFails ==
    /\ NeedsLink /\ process # "nil"
    /\ link' = "lost" /\ process' = "nil"
    /\ Fail
    /\ UNCHANGED <<job, listed, port, orders>>

\* The next connect kills the process it does not have, and the program ends.
DialPanics ==
    /\ NeedsLink /\ process = "nil"
    /\ pc' = "crashed"
    /\ UNCHANGED <<job, listed, call, client, port, orders, reports>>

Send ==
    /\ pc \in Calls /\ call = "none" /\ link = "up"
    /\ call' = "sent"
    /\ UNCHANGED <<pc, job, listed, client, port, orders, reports>>

\* The connection ends, at any time.
Lose ==
    /\ link = "up"
    /\ link' = "lost"
    /\ UNCHANGED <<pc, job, listed, call, fresh, process, port, orders, reports>>

\* A call whose connection is lost returns an error.
CallFails ==
    /\ pc \in Calls /\ link = "lost" /\ (fresh \/ call # "none")
    /\ Fail
    /\ UNCHANGED <<job, listed, link, process, port, orders>>

\* A GET that was lost with a connection used before is made again on a new one.
CallRetries ==
    /\ pc = "list" /\ call # "none" /\ link = "lost" /\ ~fresh
    /\ call' = "none"
    /\ UNCHANGED <<pc, job, listed, client, port, orders, reports>>

-----------------------------------------------------------------------------
(* The engine, which may refuse whatever it is asked. *)

Performs(p) == pc = p /\ call = "sent" /\ link = "up"

EngineLists ==
    /\ Performs("list")
    /\ \/ call' = "ok" /\ listed' = (port # NoJob)
       \/ call' = "bad" /\ listed' = FALSE
    /\ UNCHANGED <<pc, job, client, port, orders, reports>>

\* A container that is stopped or killed is gone, with its port (AutoRemove).
EngineStops ==
    /\ Performs("stop") \/ Performs("kill")
    /\ \/ call' = "ok" /\ port' = NoJob
       \/ call' = "bad" /\ UNCHANGED port
    /\ UNCHANGED <<pc, job, listed, client, orders, reports>>

\* Neither changes what runs.
EnginePrepares ==
    /\ Performs("pull") \/ Performs("create")
    /\ call' \in {"ok", "bad"}
    /\ UNCHANGED <<pc, job, listed, client, port, orders, reports>>

\* Only one container can have the port.
EngineStarts ==
    /\ Performs("start")
    /\ \/ port = NoJob /\ call' = "ok" /\ port' = job
       \/ call' = "bad" /\ UNCHANGED port
    /\ UNCHANGED <<pc, job, listed, client, orders, reports>>

\* A container exits by itself, and is removed.
ContainerExits ==
    /\ port # NoJob
    /\ port' = NoJob
    /\ UNCHANGED runnerVars

-----------------------------------------------------------------------------
(* The runner (docker-runner.go). *)

Register ==
    /\ pc = "boot"
    /\ reports' = Append(reports, Free)
    /\ pc' = "read"
    /\ UNCHANGED <<job, listed, call, client, port, orders>>

ReadStart ==
    /\ pc = "read" /\ orders # <<>>
    /\ job' = Head(orders).job
    /\ orders' = Tail(orders)
    /\ pc' = "list" /\ call' = "none" /\ listed' = FALSE
    /\ UNCHANGED <<client, port, reports>>

\* The call p has been answered with the given status, and is over.
Answered(p, status) ==
    /\ pc = p /\ call = status /\ link = "up"
    /\ UNCHANGED <<job, listed, port, process, orders>>

Proceed(p) == pc' = p /\ call' = "none" /\ fresh' = FALSE /\ UNCHANGED <<reports, link>>

GivesUp == Fail /\ UNCHANGED link

\* A list that is a JSON error is taken for one without a container on the port.
ListAnswered ==
    \/ Answered("list", "ok")
       /\ Proceed(IF ~listed THEN "pull" ELSE IF StopFirst THEN "stop" ELSE "kill")
    \/ Answered("list", "bad") /\ (Proceed("pull") \/ GivesUp)

\* Statuses 204, 304 and 404: the container does not run any more.  Another
\* answer is closed after the kill only, but it is logged first, which reads its
\* JSON to the end and leaves the connection, the only one there may be, to the kill.
StopAnswered ==
    \/ Answered("stop", "ok") /\ Proceed("pull")
    \/ Answered("stop", "bad") /\ Proceed("kill")

\* Nobody looks at the status of the kill, nor at that of the pull.
KillAnswered == \E status \in {"ok", "bad"} : Answered("kill", status) /\ Proceed("pull")

PullAnswered == \E status \in {"ok", "bad"} : Answered("pull", status) /\ Proceed("create")

\* A refused create returns without closing the response, which has been logged too.
CreateAnswered ==
    \/ Answered("create", "ok") /\ Proceed("start")
    \/ Answered("create", "bad") /\ GivesUp

\* Mutant: nobody looks at the status of the start either.
StartAnsweredAny == \E status \in {"ok", "bad"} : Answered("start", status) /\ Proceed("wait")

\* Mutant: the error is reported, and the runner waits for the container all the same.
StartAnsweredGoesOn ==
    \/ Answered("start", "ok") /\ Proceed("wait")
    \/ /\ Answered("start", "bad")
       /\ pc' = "wait" /\ call' = "none" /\ fresh' = FALSE /\ reports' = Append(reports, Failed) /\ UNCHANGED link

StartAnswered ==
    \/ Answered("start", "ok") /\ Proceed("wait")
    \/ Answered("start", "bad") /\ GivesUp

\* waitForConnection: whatever has the port accepts a connection.
Ready ==
    /\ pc = "wait" /\ port # NoJob /\ job \notin WorkerJobs
    /\ reports' = Append(reports, Started)
    /\ pc' = "read"
    /\ UNCHANGED <<job, listed, call, client, port, orders>>

\* Mutant: the deadline of the wait passes unnoticed.
NotReadyWorker ==
    /\ pc = "wait" /\ job \in WorkerJobs
    /\ Fail
    /\ UNCHANGED <<job, listed, link, process, port, orders>>

NotReady ==
    /\ pc = "wait"
    /\ Fail
    /\ UNCHANGED <<job, listed, link, process, port, orders>>

-----------------------------------------------------------------------------
(* The surroundings. *)

\* The broker orders a start when the outcome of the last one has been read
\* (DockerSpaces!StartDiscipline).
BrokerOrders ==
    /\ pc = "read" /\ orders = <<>> /\ reports = <<>>
    /\ \E j \in Jobs : orders' = <<Start(j)>>
    /\ UNCHANGED <<pc, job, listed, call, client, port, reports>>

BrokerReads ==
    /\ reports # <<>>
    /\ reports' = Tail(reports)
    /\ UNCHANGED <<pc, job, listed, call, client, port, orders>>

\* The program ends, at any point, and is started again.  The engine and its
\* containers do not end with it.
Restart ==
    /\ pc # "boot"
    /\ pc' = "boot" /\ job' = NoJob /\ listed' = FALSE
    /\ call' = "none" /\ link' = "none" /\ fresh' = FALSE /\ process' = "none"
    /\ orders' = <<>> /\ reports' = <<>>
    /\ UNCHANGED port

Client == Dial \/ DialFails \/ DialPanics \/ Send \/ CallFails \/ CallRetries

Engine == EngineLists \/ EngineStops \/ EnginePrepares \/ EngineStarts

Runner ==
    \/ Register \/ ReadStart
    \/ ListAnswered \/ StopAnswered \/ KillAnswered
    \/ PullAnswered \/ CreateAnswered \/ StartAnswered
    \/ Ready \/ NotReady

Next ==
    \/ Client \/ Engine \/ Runner
    \/ Lose \/ ContainerExits
    \/ BrokerOrders \/ BrokerReads \/ Restart

Spec == Init /\ [][Next]_vars

\* The engine answers every call, or the connection is lost.  http.Client has no
\* time limit: this is an assumption on the docker host.
FairSpec == Spec /\ WF_vars(Client) /\ WF_vars(Engine) /\ WF_vars(Runner)

-----------------------------------------------------------------------------
\* Every variable has its type, and a message is read before the next one is sent.
TypeOK ==
    /\ pc \in Calls \cup {"boot", "read", "wait", "crashed"}
    /\ job \in Jobs \cup {NoJob} /\ port \in Jobs \cup {NoJob}
    /\ pc \in Calls \cup {"wait"} => job \in Jobs
    /\ listed \in BOOLEAN
    /\ call \in {"none", "sent", "ok", "bad"}
    /\ link \in {"none", "up", "lost"}
    /\ fresh \in BOOLEAN /\ process \in {"none", "running", "nil"}
    /\ orders \in Seq([type : {"Start"}, job : Jobs])
    /\ reports \in Seq({Free, Started, Failed})
    /\ Len(orders) <= 1 /\ Len(reports) <= 1

\* What the runner reports as started is the container it was told to start,
\* never one that was on the port before: although the statuses of the list, the
\* kill and the pull are not looked at, and the wait only tries the port.
ReportsItsOwn ==
    [][Ready => port = job]_vars

\* The broker's view of the runner.  A start is at "kill" as long as another
\* container has the port, at "launch" when the port is free, and at "wait" from
\* the moment the engine has started the container.
RunnerAt ==
    IF pc = "start" /\ call = "ok" THEN "wait"
    ELSE IF pc \notin Calls THEN pc
    ELSE IF pc = "list" \/ port # NoJob THEN "kill" ELSE "launch"

Model == INSTANCE DockerRunner WITH
    NumSources <- 1, NumTargets <- 1, SlotTypes <- Jobs, TypeOf <- [j \in Jobs |-> j],
    YTypes <- {}, NoType <- NoJob, SlotBuffer <- 3, Env <- {"StartErrors", "Leftovers"},
    freeSourceSlots <- <<>>, srcIn <- <<>>, srcOut <- <<>>,
    tgtIn <- <<reports>>, tgtOut <- <<orders>>,
    runnerJob <- <<job>>, container <- <<port>>,
    runner <- <<RunnerAt>>

\* Each step of a start, its failures included, is one of DockerRunner or changes
\* nothing the rest of the program can see; the other steps are the broker's, a
\* restart, and the one that ends the program.
StartsAsModelled ==
    /\ Model!RunnerInit
    /\ [][\/ Model!RunnerStep(1) \/ Model!Exit(1)
          \/ BrokerOrders \/ BrokerReads \/ Restart \/ DialPanics
         ]_<<Model!runnerVars, orders, reports>>

\* A start ends, with one of its two outcomes, unless the program ends before, as
\* long as every call is answered or its connection lost (docker.go:471).
StartEnds == pc = "list" ~> pc \in {"boot", "read", "crashed"}

\* "connect/reconnect if connection is lost" (docker.go:440): a connection that is
\* lost, or could not be made, never is the end of the program.
Reconnects == pc # "crashed"
=============================================================================
