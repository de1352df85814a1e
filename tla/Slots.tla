-------------------------------- MODULE Slots --------------------------------
(***************************************************************************)
(* What the broker, its clients and the docker runners share: the slots,   *)
(* the messages, and the Go channels the messages travel through           *)
(* (broker.go).  A channel is a sequence: a send is an Append guarded by   *)
(* the channel's capacity, a receive takes the head.                       *)
(***************************************************************************)
EXTENDS Integers, Sequences, FiniteSets

CONSTANTS
    NumSources,      \* -source: how many requests the broker tracks at once
    NumTargets,      \* -target: how many containers can run at once
    Jobs,            \* what a request may ask for: image, port and environment
    SlotTypes,       \* the slot types, "x:" or "y:" followed by an image
    TypeOf,          \* the slot type of each job
    YTypes,          \* the slot types that start with "y:"
    WorkerJobs,      \* the jobs whose port is 3
    NoType,          \* the empty slot type
    NoJob,           \* no runInfo yet, or no container
    SlotBuffer,      \* the capacity of a slot's two channels
    Env              \* what the environment may do, a subset of EnvChoices

\* What a run may assume the surroundings of the broker never do.  Each module
\* says where a choice bites:
\*   "LongJobs"     a job may outlast ReleaseTimeout              (Broker)
\*   "EarlyClients" clients connect before the runners registered (BrokerResolver)
\*   "Reconnect"    a client connects again when it is done       (BrokerResolver)
\*   "LateRead"     a client is preempted before it reads         (BrokerResolver)
\*   "StartErrors"  the engine fails, a container never answers   (DockerRunner)
\*   "Leftovers"    containers of an earlier run of the program   (DockerRunner)
EnvChoices == {"LongJobs", "EarlyClients", "Reconnect", "LateRead", "StartErrors", "Leftovers"}

ASSUME SlotsAssumption ==
    /\ NumSources \in Nat \ {0}
    /\ NumTargets \in Nat \ {0}
    /\ TypeOf \in [Jobs -> SlotTypes]
    /\ YTypes \subseteq SlotTypes
    /\ WorkerJobs \subseteq Jobs
    /\ NoType \notin SlotTypes
    /\ NoJob \notin Jobs
    /\ SlotBuffer \in Nat \ {0}
    /\ Env \subseteq EnvChoices

VARIABLES
    freeSourceSlots, \* the queue GetSourceSlot takes a slot from
    srcIn,           \* srcIn[s]: from the client to the broker
    srcOut,          \* srcOut[s]: from the broker to the client
    tgtIn,           \* tgtIn[t]: from the docker runner to the broker
    tgtOut           \* tgtOut[t]: from the broker to the docker runner

channels == <<freeSourceSlots, srcIn, srcOut, tgtIn, tgtOut>>

\* Slots are named by their index: the broker's loops visit them in that order.
Sources == 1..NumSources
Targets == 1..NumTargets

\* No slot, no address.  Target t's address (its host and port) is written t.
Nil == 0

-----------------------------------------------------------------------------
Acquire(j) == [type |-> "Acquire", job |-> j]
Release(kill) == [type |-> "Release", kill |-> kill]
Acquired(a) == [type |-> "Acquired", address |-> a]
Refused == [type |-> "Error", address |-> Nil]
Free(a) == [type |-> "Free", address |-> a]
Started == [type |-> "Started", address |-> Nil]
Failed == [type |-> "Error", address |-> Nil]
Start(j) == [type |-> "Start", job |-> j]

Request == [type : {"Acquire"}, job : Jobs] \cup [type : {"Release"}, kill : BOOLEAN]
Reply == [type : {"Acquired", "Error"}, address : Targets \cup {Nil}]
Report == [type : {"Free"}, address : Targets] \cup [type : {"Started", "Error"}, address : {Nil}]
Command == [type : {"Start"}, job : Jobs]

\* The slot type a client puts in its request, with none for a slot never used.
SlotTypeOf(j) == IF j = NoJob THEN NoType ELSE TypeOf[j]

YType(type) == type \in YTypes

-----------------------------------------------------------------------------
\* A send to a channel of capacity n blocks while the channel is full.
HasRoom(q, n) == Len(q) < n

ChannelsInit ==
    /\ freeSourceSlots = [i \in Sources |-> i]
    /\ srcIn = [s \in Sources |-> <<>>]
    /\ srcOut = [s \in Sources |-> <<>>]
    /\ tgtIn = [t \in Targets |-> <<>>]
    /\ tgtOut = [t \in Targets |-> <<>>]

ChannelsTypeOK ==
    /\ freeSourceSlots \in Seq(Sources) /\ Len(freeSourceSlots) <= NumSources
    /\ srcIn \in [Sources -> Seq(Request)]
    /\ srcOut \in [Sources -> Seq(Reply)]
    /\ tgtIn \in [Targets -> Seq(Report)]
    /\ tgtOut \in [Targets -> Seq(Command)]
    /\ \A s \in Sources : Len(srcIn[s]) <= SlotBuffer /\ Len(srcOut[s]) <= SlotBuffer
    /\ \A t \in Targets : Len(tgtIn[t]) <= SlotBuffer /\ Len(tgtOut[t]) <= SlotBuffer
=============================================================================
