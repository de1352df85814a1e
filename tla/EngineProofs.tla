----------------------------- MODULE EngineProofs -----------------------------
(***************************************************************************)
(* A docker runner's start, for every set of jobs: DockerEngine is type    *)
(* correct, and what is reported is what was ordered.                      *)
(***************************************************************************)
EXTENDS DockerEngine, TLAPS

\* A runner that obeys a start has nothing else to read, and nothing to report yet.
QuietWhileBusy ==
    /\ pc \notin {"read", "crashed"} => reports = <<>>
    /\ pc # "read" => orders = <<>>
    /\ orders # <<>> => reports = <<>>

\* The start leaves the port to the container it started, or free if that is over.
OwnContainer == pc = "wait" \/ (pc = "start" /\ call = "ok") => port \in {job, NoJob}

Inv == TypeOK /\ QuietWhileBusy /\ OwnContainer

\* A channel with at most one message.
LEMMA OneMessage ==
  ASSUME NEW M, NEW m \in M
  PROVE  <<m>> \in Seq(M) /\ Len(<<m>>) = 1 /\ Append(<<>>, m) = <<m>>
BY SMT

\* An empty channel has room.
LEMMA NoMessage == \A M : <<>> \in Seq(M) /\ Len(<<>>) <= 1
BY SMT

\* Reading a channel with one message in it empties it.
LEMMA LastMessage ==
  ASSUME NEW M, NEW s \in Seq(M), s # <<>>, Len(s) <= 1
  PROVE  Head(s) \in M /\ Tail(s) = <<>>
BY SMT

\* The invariant holds when the program starts.
LEMMA InitInv == Init => Inv
<1>1. Init => TypeOK
    <2> SUFFICES ASSUME Init PROVE TypeOK
        OBVIOUS
    <2>1. /\ orders \in Seq([type : {"Start"}, job : Jobs]) /\ Len(orders) <= 1
          /\ reports \in Seq({Free, Started, Failed}) /\ Len(reports) <= 1
        BY NoMessage, Zenon DEF Init
    <2> QED BY <2>1 DEF Init, TypeOK, Calls
<1>2. Init => QuietWhileBusy /\ OwnContainer
    BY DEF Init, QuietWhileBusy, OwnContainer
<1> QED
    BY <1>1, <1>2 DEF Inv

\* The messages are those of the channels' types.
LEMMA MessageFacts ==
    /\ \A j \in Jobs : Start(j) \in [type : {"Start"}, job : Jobs]
    /\ \A m \in [type : {"Start"}, job : Jobs] : m.job \in Jobs
BY DEF Start

\* A call that fails, whatever it leaves of the connection, keeps the invariant.
LEMMA FailKeeps ==
  ASSUME Inv, Fail, UNCHANGED <<job, listed, port, orders>>, pc \in Calls \cup {"wait"},
         link' \in {"none", "up", "lost"}, process' \in {"none", "running", "nil"}
  PROVE  Inv'
<1>1. reports = <<>> /\ orders = <<>> /\ reports' = <<Failed>>
    BY OneMessage DEF Inv, QuietWhileBusy, Fail, Calls
<1>2. reports' \in Seq({Free, Started, Failed}) /\ Len(reports') <= 1
    BY <1>1, OneMessage
<1>3. TypeOK'
    BY <1>1, <1>2 DEF Inv, TypeOK, Fail, Calls
<1>4. QuietWhileBusy' /\ OwnContainer'
    BY <1>1 DEF QuietWhileBusy, OwnContainer, Fail
<1> QED
    BY <1>3, <1>4 DEF Inv

\* So does going on with the next call; the wait comes after a start that succeeded.
LEMMA ProceedKeeps ==
  ASSUME Inv, NEW p \in Calls \cup {"wait"}, Proceed(p), UNCHANGED <<job, listed, port, process, orders>>,
         pc \in Calls, link' \in {"none", "up", "lost"},
         p = "wait" => pc = "start" /\ call = "ok"
  PROVE  Inv'
<1>1. TypeOK'
    BY DEF Inv, TypeOK, Proceed, Calls
<1>2. QuietWhileBusy' /\ OwnContainer'
    BY DEF Inv, QuietWhileBusy, OwnContainer, Proceed, Calls
<1> QED
    BY <1>1, <1>2 DEF Inv

\* The HTTP client: connecting, sending, reading the answer.
LEMMA ClientStep == Inv /\ Client => Inv'
<1> SUFFICES ASSUME Inv, Client PROVE Inv'
    OBVIOUS
<1>1. CASE Dial
    BY <1>1 DEF Inv, TypeOK, QuietWhileBusy, OwnContainer, Dial
<1>2. CASE DialFails
    <2>1. pc \in Calls /\ link' = "lost" /\ process' = "nil" /\ Fail /\ UNCHANGED <<job, listed, port, orders>>
        BY <1>2 DEF DialFails, NeedsLink
    <2> QED BY <2>1, FailKeeps
<1>3. CASE DialPanics
    BY <1>3 DEF Inv, TypeOK, QuietWhileBusy, OwnContainer, DialPanics, NeedsLink, Calls, client
<1>4. CASE Send
    BY <1>4 DEF Inv, TypeOK, QuietWhileBusy, OwnContainer, Send, client
<1>5. CASE CallFails
    <2>1. /\ pc \in Calls /\ link' = link /\ process' = process
          /\ Fail /\ UNCHANGED <<job, listed, port, orders>>
        BY <1>5 DEF CallFails
    <2> QED BY <2>1, FailKeeps DEF Inv, TypeOK
<1>6. CASE CallRetries
    BY <1>6 DEF Inv, TypeOK, QuietWhileBusy, OwnContainer, CallRetries, client
<1> QED
    BY <1>1, <1>2, <1>3, <1>4, <1>5, <1>6 DEF Client

\* The engine performs a call, or refuses it.
LEMMA EngineStep == Inv /\ Engine => Inv'
<1> SUFFICES ASSUME Inv, Engine PROVE Inv'
    OBVIOUS
<1>1. CASE EngineLists
    BY <1>1 DEF Inv, TypeOK, QuietWhileBusy, OwnContainer, EngineLists, Performs, client
<1>2. CASE EngineStops
    BY <1>2 DEF Inv, TypeOK, QuietWhileBusy, OwnContainer, EngineStops, Performs, client
<1>3. CASE EnginePrepares
    BY <1>3 DEF Inv, TypeOK, QuietWhileBusy, OwnContainer, EnginePrepares, Performs, client
<1>4. CASE EngineStarts
    BY <1>4 DEF Inv, TypeOK, QuietWhileBusy, OwnContainer, EngineStarts, Performs, client, Calls
<1> QED
    BY <1>1, <1>2, <1>3, <1>4 DEF Engine

\* The runner obeys an order, goes through its calls and reports.
LEMMA RunnerStep == Inv /\ Runner => Inv'
<1> SUFFICES ASSUME Inv, Runner PROVE Inv'
    OBVIOUS
<1>1. CASE Register
    <2>1. reports = <<>> /\ orders = <<>>
        BY <1>1 DEF Inv, QuietWhileBusy, Register
    <2>2. reports' = <<Free>> /\ reports' \in Seq({Free, Started, Failed}) /\ Len(reports') <= 1
        BY <1>1, <2>1, OneMessage DEF Register
    <2> QED BY <1>1, <2>1, <2>2 DEF Inv, TypeOK, QuietWhileBusy, OwnContainer, Register, client, Calls
<1>2. CASE ReadStart
    <2>1. Head(orders) \in [type : {"Start"}, job : Jobs] /\ Tail(orders) = <<>>
        BY <1>2, LastMessage DEF Inv, TypeOK, ReadStart
    <2>2. orders' = <<>> /\ job' \in Jobs /\ reports = <<>>
        BY <1>2, <2>1, MessageFacts DEF Inv, QuietWhileBusy, ReadStart
    <2>3. orders' \in Seq([type : {"Start"}, job : Jobs]) /\ Len(orders') <= 1
        BY <2>2, NoMessage
    <2> QED BY <1>2, <2>2, <2>3 DEF Inv, TypeOK, QuietWhileBusy, OwnContainer, ReadStart, client, Calls
<1>3. CASE ListAnswered
    <2>1. /\ pc \in Calls /\ link' = link /\ link = "up" /\ process' = process
          /\ UNCHANGED <<job, listed, port, process, orders>>
          /\ Fail \/ \E p \in {"stop", "kill", "pull"} : Proceed(p)
        BY <1>3 DEF ListAnswered, Answered, Proceed, GivesUp, Calls
    <2> QED BY <2>1, ProceedKeeps, FailKeeps DEF Calls, Inv, TypeOK
<1>4. CASE StopAnswered
    BY <1>4, ProceedKeeps DEF StopAnswered, Answered, Proceed, Calls
<1>5. CASE KillAnswered
    BY <1>5, ProceedKeeps DEF KillAnswered, Answered, Proceed, Calls
<1>6. CASE PullAnswered
    BY <1>6, ProceedKeeps DEF PullAnswered, Answered, Proceed, Calls
<1>7. CASE CreateAnswered
    BY <1>7, ProceedKeeps, FailKeeps DEF CreateAnswered, Answered, Proceed, GivesUp, Calls, Inv, TypeOK
<1>8. CASE StartAnswered
    BY <1>8, ProceedKeeps, FailKeeps
       DEF StartAnswered, Answered, Proceed, GivesUp, Calls, Inv, TypeOK
<1>9. CASE Ready
    <2>1. reports = <<>> /\ orders = <<>>
        BY <1>9 DEF Inv, QuietWhileBusy, Ready
    <2>2. reports' = <<Started>> /\ reports' \in Seq({Free, Started, Failed}) /\ Len(reports') <= 1
        BY <1>9, <2>1, OneMessage DEF Ready
    <2> QED BY <1>9, <2>1, <2>2 DEF Inv, TypeOK, QuietWhileBusy, OwnContainer, Ready, client, Calls
<1>10. CASE NotReady
    <2>1. /\ pc = "wait" /\ link' = link /\ process' = process
          /\ Fail /\ UNCHANGED <<job, listed, port, orders>>
        BY <1>10 DEF NotReady
    <2> QED BY <2>1, FailKeeps DEF Inv, TypeOK
<1> QED
    BY <1>1, <1>2, <1>3, <1>4, <1>5, <1>6, <1>7, <1>8, <1>9, <1>10 DEF Runner

\* A connection lost, a container that exits, the broker, a restart of the program.
LEMMA SurroundingsStep ==
    Inv /\ (Lose \/ ContainerExits \/ BrokerOrders \/ BrokerReads \/ Restart) => Inv'
<1> SUFFICES ASSUME Inv, Lose \/ ContainerExits \/ BrokerOrders \/ BrokerReads \/ Restart PROVE Inv'
    OBVIOUS
<1>1. CASE Lose
    BY <1>1 DEF Inv, TypeOK, QuietWhileBusy, OwnContainer, Lose
<1>2. CASE ContainerExits
    BY <1>2 DEF Inv, TypeOK, QuietWhileBusy, OwnContainer, ContainerExits, runnerVars, client
<1>3. CASE BrokerOrders
    <2>1. orders' \in Seq([type : {"Start"}, job : Jobs]) /\ Len(orders') <= 1
        BY <1>3, OneMessage, MessageFacts DEF BrokerOrders
    <2> QED BY <1>3, <2>1 DEF Inv, TypeOK, QuietWhileBusy, OwnContainer, BrokerOrders, client
<1>4. CASE BrokerReads
    <2>1. reports' = <<>> /\ reports' \in Seq({Free, Started, Failed}) /\ Len(reports') <= 1
        BY <1>4, LastMessage, NoMessage DEF Inv, TypeOK, BrokerReads
    <2> QED BY <1>4, <2>1 DEF Inv, TypeOK, QuietWhileBusy, OwnContainer, BrokerReads, client
<1>5. CASE Restart
    <2>1. /\ <<>> \in Seq([type : {"Start"}, job : Jobs])
          /\ <<>> \in Seq({Free, Started, Failed}) /\ Len(<<>>) = 0
        OBVIOUS
    <2> QED BY <1>5, <2>1, EngineAssumption DEF Inv, TypeOK, QuietWhileBusy, OwnContainer, Restart, Calls
<1> QED
    BY <1>1, <1>2, <1>3, <1>4, <1>5

\* Every step keeps the invariant.
LEMMA Inductive == Inv /\ [Next]_vars => Inv'
<1> SUFFICES ASSUME Inv, [Next]_vars PROVE Inv'
    OBVIOUS
<1>1. CASE Next
    BY <1>1, ClientStep, EngineStep, RunnerStep, SurroundingsStep DEF Next
<1>2. CASE UNCHANGED vars
    BY <1>2 DEF vars, runnerVars, client, Inv, TypeOK, QuietWhileBusy, OwnContainer
<1> QED
    BY <1>1, <1>2

\* Every variable keeps its type, and no message is sent before the last one was
\* read, whatever the engine answers and whenever the connection is lost.
THEOREM EngineTypeCorrect == Spec => []TypeOK
<1>1. Inv => TypeOK
    BY DEF Inv
<1> QED
    BY InitInv, Inductive, <1>1, PTL DEF Spec

\* The runner reports no container but the one it was told to start, although it does
\* not look at how the list, the kill and the pull ended.
THEOREM OwnReported == Spec => ReportsItsOwn
<1>1. Inv /\ [Next]_vars => [Ready => port = job]_vars
    BY DEF Inv, OwnContainer, Ready
<1> QED
    BY InitInv, Inductive, <1>1, PTL DEF Spec, ReportsItsOwn

-----------------------------------------------------------------------------
(***************************************************************************)
(* The engine's calls are DockerRunner's steps.  First, how each step of   *)
(* DockerRunner looks from here: one runner, whose label is RunnerAt.      *)
(***************************************************************************)

\* A family of one, as a function of the only index.
LEMMA OnlyOne ==
  ASSUME NEW a, NEW b
  PROVE  <<a>>[1] = a /\ [<<a>> EXCEPT ![1] = b] = <<b>>
BY SMT

\* A step that empties the port before the launch is KillOld of DockerRunner.
LEMMA IsKillOld ==
  ASSUME RunnerAt = "kill", RunnerAt' = "launch", port' = NoJob, UNCHANGED <<job, orders, reports>>
  PROVE  Model!RunnerStep(1)
BY OnlyOne DEF Model!RunnerStep, Model!KillOld, Model!RunnerOnly

\* A step that puts the job's container on the port is Launch.
LEMMA IsLaunch ==
  ASSUME RunnerAt = "launch", RunnerAt' = "wait", port' = job, UNCHANGED <<job, orders, reports>>
  PROVE  Model!RunnerStep(1)
BY OnlyOne DEF Model!RunnerStep, Model!Launch, Model!RunnerOnly

\* A step that takes an order is ReadStart.
LEMMA IsReadStart ==
  ASSUME RunnerAt = "read", RunnerAt' = "kill", orders # <<>>, job' = Head(orders).job,
         orders' = Tail(orders), UNCHANGED <<port, reports>>
  PROVE  Model!RunnerStep(1)
BY OnlyOne DEF Model!RunnerStep, Model!ReadStart, Model!RunnerOnly

\* What a runner does at the end of a start, or at its own beginning.
LEMMA IsTell ==
  ASSUME RunnerAt' = "read", UNCHANGED <<job, port, orders>>, reports = <<>>,
         \/ RunnerAt = "boot" /\ reports' = Append(reports, Free)
         \/ RunnerAt \in {"kill", "launch", "wait"} /\ reports' = Append(reports, Failed)
         \/ RunnerAt = "wait" /\ port # NoJob /\ job \notin WorkerJobs /\ reports' = Append(reports, Started)
  PROVE  Model!RunnerStep(1)
<1>1. Model!HasRoom(<<reports>>[1], 3)
    BY OnlyOne, NoMessage DEF Model!HasRoom
<1> QED
    BY <1>1, OnlyOne
       DEF Model!RunnerStep, Model!Register, Model!StartFails, Model!Ready, Model!NotReady,
           Model!Tell, Model!RunnerOnly, Model!Free, Model!Failed, Model!Started, Model!Nil,
           Free, Failed, Started

\* A step that empties the port at any other time is a container's exit.
LEMMA IsExit ==
  ASSUME port # NoJob, port' = NoJob, RunnerAt' = RunnerAt, UNCHANGED <<job, orders, reports>>
  PROVE  Model!Exit(1)
BY OnlyOne DEF Model!Exit, Model!channels

\* A step the rest of the program does not see.
Hidden == UNCHANGED <<Model!runnerVars, orders, reports>>

\* A step that leaves port, job and channels alone is none of DockerRunner.
LEMMA IsHidden ==
  ASSUME RunnerAt' = RunnerAt, UNCHANGED <<job, port, orders, reports>>
  PROVE  Hidden
BY DEF Hidden, Model!runnerVars

Modelled == Model!RunnerStep(1) \/ Model!Exit(1) \/ Hidden

\* A call that fails is StartFails, or is not seen.
LEMMA FailIsModelled ==
  ASSUME Inv, Fail, UNCHANGED <<job, port, orders>>, pc \in Calls \cup {"wait"}
  PROVE  Modelled
<1>1. reports = <<>> /\ RunnerAt \in {"kill", "launch", "wait"}
    BY DEF Inv, QuietWhileBusy, RunnerAt, Calls
<1>2. RunnerAt' = "read"
    BY DEF Fail, RunnerAt, Calls
<1> QED
    BY <1>1, <1>2, IsTell DEF Fail, Modelled

\* What the client does is modelled, but for the call that ends the program.
LEMMA ClientIsModelled == Inv /\ Client => Modelled \/ DialPanics
<1> SUFFICES ASSUME Inv, Client PROVE Modelled \/ DialPanics
    OBVIOUS
<1>1. CASE Dial
    BY <1>1, IsHidden DEF Dial, RunnerAt, Modelled
<1>2. CASE DialFails
    BY <1>2, FailIsModelled DEF DialFails, NeedsLink
<1>3. CASE Send
    BY <1>3, IsHidden DEF Send, RunnerAt, Modelled
<1>4. CASE CallFails
    BY <1>4, FailIsModelled DEF CallFails
<1>5. CASE CallRetries
    BY <1>5, IsHidden DEF CallRetries, RunnerAt, Modelled
<1> QED
    BY <1>1, <1>2, <1>3, <1>4, <1>5 DEF Client

\* What the engine does is KillOld, Launch, or not seen.
LEMMA EngineIsModelled == Inv /\ Engine => Modelled
<1> SUFFICES ASSUME Inv, Engine PROVE Modelled
    OBVIOUS
<1>1. CASE EngineLists
    BY <1>1, IsHidden DEF EngineLists, Performs, RunnerAt, Modelled
<1>2. CASE EngineStops
    <2>1. CASE port = port'
        BY <1>2, <2>1, IsHidden DEF EngineStops, Performs, RunnerAt, Modelled
    <2>2. CASE port # port'
        BY <1>2, <2>2, IsKillOld DEF EngineStops, Performs, RunnerAt, Modelled, Calls
    <2> QED BY <2>1, <2>2
<1>3. CASE EnginePrepares
    BY <1>3, IsHidden DEF EnginePrepares, Performs, RunnerAt, Modelled
<1>4. CASE EngineStarts
    <2>1. CASE call' = "bad"
        BY <1>4, <2>1, IsHidden DEF EngineStarts, Performs, RunnerAt, Modelled
    <2>2. CASE call' = "ok"
        BY <1>4, <2>2, IsLaunch DEF EngineStarts, Performs, RunnerAt, Modelled, Calls
    <2> QED BY <1>4, <2>1, <2>2 DEF EngineStarts
<1> QED
    BY <1>1, <1>2, <1>3, <1>4 DEF Engine

\* From one call to the next nothing is seen, but that the port turned out to be free.
LEMMA ProceedIsModelled ==
  ASSUME Inv, NEW p \in Calls, Proceed(p), UNCHANGED <<job, port, orders>>, pc \in Calls,
         p # "list", pc = "start" => call # "ok"
  PROVE  Modelled
<1>1. call' # "ok" /\ pc' = p /\ reports' = reports
    BY DEF Proceed
<1>2. CASE pc = "list" /\ port = NoJob
    BY <1>1, <1>2, IsKillOld DEF RunnerAt, Modelled, Calls
<1>3. CASE ~(pc = "list" /\ port = NoJob)
    BY <1>1, <1>3, IsHidden DEF RunnerAt, Modelled
<1> QED
    BY <1>2, <1>3

\* What the runner does is ReadStart, a report, a port found free, or not seen.
LEMMA RunnerIsModelled == Inv /\ Runner => Modelled
<1> SUFFICES ASSUME Inv, Runner PROVE Modelled
    OBVIOUS
<1>1. CASE Register
    BY <1>1, IsTell DEF Register, Inv, QuietWhileBusy, RunnerAt, Calls, Modelled
<1>2. CASE ReadStart
    BY <1>2, IsReadStart DEF ReadStart, RunnerAt, Calls, Modelled
<1>3. CASE ListAnswered
    <2>1. /\ pc = "list" /\ UNCHANGED <<job, port, orders>>
          /\ Fail \/ \E p \in {"stop", "kill", "pull"} : Proceed(p)
        BY <1>3 DEF ListAnswered, Answered, Proceed, GivesUp
    <2> QED BY <2>1, ProceedIsModelled, FailIsModelled DEF Calls
<1>4. CASE StopAnswered
    BY <1>4, ProceedIsModelled DEF StopAnswered, Answered, Proceed, Calls
<1>5. CASE KillAnswered
    BY <1>5, ProceedIsModelled DEF KillAnswered, Answered, Proceed, Calls
<1>6. CASE PullAnswered
    BY <1>6, ProceedIsModelled DEF PullAnswered, Answered, Proceed, Calls
<1>7. CASE CreateAnswered
    BY <1>7, ProceedIsModelled, FailIsModelled DEF CreateAnswered, Answered, Proceed, GivesUp, Calls
<1>8. CASE StartAnswered
    <2>1. CASE call = "ok"
        BY <1>8, <2>1, IsHidden DEF StartAnswered, Answered, Proceed, RunnerAt, Calls, Modelled
    <2>2. CASE call # "ok"
        BY <1>8, <2>2, FailIsModelled DEF StartAnswered, Answered, GivesUp, Calls
    <2> QED BY <2>1, <2>2
<1>9. CASE Ready
    BY <1>9, IsTell DEF Ready, Inv, QuietWhileBusy, RunnerAt, Calls, Modelled
<1>10. CASE NotReady
    BY <1>10, FailIsModelled DEF NotReady
<1> QED
    BY <1>1, <1>2, <1>3, <1>4, <1>5, <1>6, <1>7, <1>8, <1>9, <1>10 DEF Runner

\* A container that exits before it has been killed spares the runner the kill.
LEMMA OthersAreModelled == Inv /\ (Lose \/ ContainerExits) => Modelled
<1> SUFFICES ASSUME Inv, Lose \/ ContainerExits PROVE Modelled
    OBVIOUS
<1>1. CASE Lose
    BY <1>1, IsHidden DEF Lose, RunnerAt, Modelled
<1>2. CASE ContainerExits /\ RunnerAt' = RunnerAt
    BY <1>2, IsExit DEF ContainerExits, runnerVars, Modelled
<1>3. CASE ContainerExits /\ RunnerAt' # RunnerAt
    <2>1. RunnerAt = "kill" /\ RunnerAt' = "launch"
        BY <1>3 DEF ContainerExits, runnerVars, RunnerAt
    <2> QED BY <1>3, <2>1, IsKillOld DEF ContainerExits, runnerVars, Modelled
<1> QED
    BY <1>1, <1>2, <1>3

\* A start, with every failure it may meet, does to the rest of the program what the
\* five steps of DockerRunner do: what is checked and proved with those holds with
\* the calls of the engine in their place.
THEOREM StartModelled == Spec => StartsAsModelled
<1>1. Init => Model!RunnerInit
    <2> SUFFICES ASSUME Init PROVE Model!RunnerInit
        OBVIOUS
    <2>1. RunnerAt = "boot" /\ job = NoJob /\ port \in Jobs \cup {NoJob}
        BY DEF Init, RunnerAt, Calls
    <2> QED BY <2>1 DEF Model!RunnerInit, Model!Targets
<1>2. Inv /\ [Next]_vars
        => [\/ Model!RunnerStep(1) \/ Model!Exit(1)
            \/ BrokerOrders \/ BrokerReads \/ Restart \/ DialPanics
           ]_<<Model!runnerVars, orders, reports>>
    <2>1. CASE UNCHANGED vars
        <3>1. vars' = vars => Hidden
            BY IsHidden DEF vars, runnerVars, client, RunnerAt
        <3> QED BY <2>1, <3>1 DEF Hidden
    <2>2. CASE Next
        BY <2>2, ClientIsModelled, EngineIsModelled, RunnerIsModelled, OthersAreModelled
           DEF Next, Modelled, Hidden
    <2> QED BY <2>1, <2>2
<1> QED
    BY InitInv, Inductive, <1>1, <1>2, PTL DEF Spec, StartsAsModelled
=============================================================================
