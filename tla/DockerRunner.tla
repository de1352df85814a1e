----------------------------- MODULE DockerRunner -----------------------------
(***************************************************************************)
(* DockerRunner.Run (docker-runner.go): one goroutine per target slot that *)
(* owns one port of the docker host.  It obeys the broker's Start          *)
(* messages: it kills the container on its port, launches the new one and  *)
(* waits until it accepts connections.                                     *)
(***************************************************************************)
EXTENDS Slots

VARIABLES
    runner,          \* runner[t]: where the runner of target t is
    runnerJob,       \* the containerInfo of the Start message it obeys
    container        \* the job whose container listens on its port, or NoJob

runnerVars == <<runner, runnerJob, container>>

RunnerStates == {"boot", "read", "kill", "launch", "wait"}

\* The program leaves its containers running when it ends: with "Leftovers" the
\* ports may be in use when it starts.
RunnerInit ==
    /\ runner = [t \in Targets |-> "boot"]
    /\ runnerJob = [t \in Targets |-> NoJob]
    /\ container \in [Targets -> IF "Leftovers" \in Env THEN Jobs \cup {NoJob} ELSE {NoJob}]

\* The runner tells the broker something and goes back to its loop.
Tell(t, report) ==
    /\ HasRoom(tgtIn[t], SlotBuffer)
    /\ tgtIn' = [tgtIn EXCEPT ![t] = Append(@, report)]
    /\ runner' = [runner EXCEPT ![t] = "read"]

RunnerOnly == UNCHANGED <<freeSourceSlots, srcIn, srcOut>>

\* The runner's first act is to give the broker its address.
Register(t) ==
    /\ runner[t] = "boot"
    /\ Tell(t, Free(t))
    /\ UNCHANGED <<runnerJob, container, tgtOut>> /\ RunnerOnly

ReadStart(t) ==
    /\ runner[t] = "read" /\ tgtOut[t] # <<>>
    /\ runnerJob' = [runnerJob EXCEPT ![t] = Head(tgtOut[t]).job]
    /\ tgtOut' = [tgtOut EXCEPT ![t] = Tail(@)]
    /\ runner' = [runner EXCEPT ![t] = "kill"]
    /\ UNCHANGED <<container, tgtIn>> /\ RunnerOnly

\* The container on this port, if there is one, is stopped or killed.
KillOld(t) ==
    /\ runner[t] = "kill"
    /\ container' = [container EXCEPT ![t] = NoJob]
    /\ runner' = [runner EXCEPT ![t] = "launch"]
    /\ UNCHANGED <<runnerJob, tgtIn, tgtOut>> /\ RunnerOnly

\* The image is pulled, the container created and started.
Launch(t) ==
    /\ runner[t] = "launch"
    /\ container' = [container EXCEPT ![t] = runnerJob[t]]
    /\ runner' = [runner EXCEPT ![t] = "wait"]
    /\ UNCHANGED <<runnerJob, tgtIn, tgtOut>> /\ RunnerOnly

\* start() returns an error: the engine did not answer, or it answered that the
\* image, the container or its port is not available.  The status of the kill
\* request is not looked at: when the old container survives it, the new one
\* cannot have the port, and the state is that of a kill that failed.
StartFails(t) ==
    /\ "StartErrors" \in Env
    /\ runner[t] \in {"kill", "launch"}
    /\ Tell(t, Failed)
    /\ UNCHANGED <<runnerJob, container, tgtOut>> /\ RunnerOnly

\* waitForConnection: the container accepted a connection.  A worker does not
\* listen on the port it was asked for.
Ready(t) ==
    /\ runner[t] = "wait" /\ container[t] # NoJob /\ runnerJob[t] \notin WorkerJobs
    /\ Tell(t, Started)
    /\ UNCHANGED <<runnerJob, container, tgtOut>> /\ RunnerOnly

\* waitForConnection gives up at its deadline; the container is left running.
NotReady(t) ==
    /\ runner[t] = "wait"
    /\ "StartErrors" \in Env \/ runnerJob[t] \in WorkerJobs
    /\ Tell(t, Failed)
    /\ UNCHANGED <<runnerJob, container, tgtOut>> /\ RunnerOnly

\* A container may exit by itself at any time; the engine removes it, and no
\* part of the program takes notice.
Exit(t) ==
    /\ "StartErrors" \in Env
    /\ container[t] # NoJob
    /\ container' = [container EXCEPT ![t] = NoJob]
    /\ UNCHANGED <<runner, runnerJob, channels>>

RunnerStep(t) ==
    \/ Register(t) \/ ReadStart(t)
    \/ KillOld(t) \/ Launch(t) \/ StartFails(t)
    \/ Ready(t) \/ NotReady(t)

RunnerTypeOK ==
    /\ runner \in [Targets -> RunnerStates]
    /\ runnerJob \in [Targets -> Jobs \cup {NoJob}]
    /\ container \in [Targets -> Jobs \cup {NoJob}]
    /\ \A t \in Targets : runner[t] \in {"kill", "launch", "wait"} => runnerJob[t] \in Jobs
=============================================================================
