----------------------------- MODULE DockerSpaces -----------------------------
(***************************************************************************)
(* The program: connections that ask for containers, the broker, and one   *)
(* docker runner per target slot, running concurrently and exchanging      *)
(* messages over the channels of Slots.                                    *)
(***************************************************************************)
EXTENDS Broker, BrokerResolver, DockerRunner

vars == <<channels, brokerVars, connVars, runnerVars>>

Init == ChannelsInit /\ BrokerInit /\ ResolverInit /\ RunnerInit

\* Every runner's first message has been read by the broker.
Registered == \A t \in Targets : tgtRef[t] # Nil

BrokerStep == Run /\ UNCHANGED <<connVars, runnerVars>>

\* main starts the runners and the broker before it accepts connections; that
\* they are done before the first request is served is likely, not certain.
Ask(c) == ("EarlyClients" \in Env \/ Registered) /\ RequestSlot(c)

ConnStep(c) ==
    /\ Ask(c) \/ CallRead(c) \/ ReadReply(c) \/ Close(c)
    /\ UNCHANGED <<brokerVars, runnerVars>>

Reaccept(c) == Accept(c) /\ UNCHANGED <<brokerVars, runnerVars>>

Runner(t) == RunnerStep(t) /\ UNCHANGED <<brokerVars, connVars>>

ContainerExit(t) == Exit(t) /\ UNCHANGED <<brokerVars, connVars>>

Next ==
    \/ BrokerStep
    \/ \E c \in Conns : ConnStep(c) \/ Reaccept(c)
    \/ \E t \in Targets : Runner(t) \/ ContainerExit(t)

Spec == Init /\ [][Next]_vars

\* The Go scheduler runs every goroutine that can run, the docker engine
\* answers or fails, and a client that is served is done at some point.
Fairness ==
    /\ WF_vars(BrokerStep)
    /\ \A c \in Conns : WF_vars(ConnStep(c))
    /\ \A t \in Targets : WF_vars(Runner(t))

FairSpec == Spec /\ Fairness

-----------------------------------------------------------------------------
\* Every variable has its type, no channel holds more than its capacity, and an
\* operation the broker or a client has begun names a real slot.
TypeOK == ChannelsTypeOK /\ BrokerTypeOK /\ ResolverTypeOK /\ RunnerTypeOK

KnownReply == {m \in Reply : m.type = "Acquired" => m.address # Nil}

\* The broker never follows a nil oppositeSlot when a source lets go of its
\* target (broker.go:291), and never tells a client an address it does not know
\* (broker.go:415, 436), even when clients come before the runners: a runner
\* registers before it obeys its first Start, and its messages stay in order.
AddressKnown ==
    /\ \A s \in Sources : srcState[s] = "Run" =>
            srcOpposite[s] # Nil /\ tgtRef[srcOpposite[s]] # Nil
    /\ srcOut \in [Sources -> Seq(KnownReply)]

\* At most one target slot is labelled with a y type: all its clients are sent
\* to one container, whatever is starting, failing or timing out meanwhile.
OneSharedTarget ==
    \A t, u \in Targets : YType(tgtType[t]) /\ tgtType[t] = tgtType[u] => t = u

-----------------------------------------------------------------------------
\* How many elements of the sequence q are in M.
Occurrences(q, M) == Cardinality({i \in 1..Len(q) : q[i] \in M})

One(b) == IF b THEN 1 ELSE 0

Acquires(s) == Occurrences(srcIn[s], {m \in Request : m.type = "Acquire"})

\* Each source slot is in one place only: once in the queue of free slots (or
\* about to be put there), or with a request the broker has yet to read, or
\* waiting or running.  No slot is lost, none is given to two connections.
SlotAccounted ==
    \A s \in Sources :
        Occurrences(freeSourceSlots, {s})
          + One(refusal = <<"queue", s>>)
          + Acquires(s)
          + One(srcState[s] # "Free") = 1

\* The connections that wait for an answer on slot s are as many as the answers
\* that are there or that the broker owes: every request is answered once.
OneReplyPerRequest ==
    \A s \in Sources :
        Cardinality({c \in Conns : connSlot[c] = s /\ conn[c] \in {"sent", "reading"}})
          = Len(srcOut[s]) + Acquires(s) + One(srcState[s] = "Wait")
              + One(refusal[1] # "none" /\ refusal[2] = s)

\* Whatever the broker is about to send has room in its channel: three messages
\* are enough for a slot, and the broker, which everybody depends on, never waits.
NeverBlocks ==
    /\ refusal[1] = "queue" => HasRoom(freeSourceSlots, NumSources)
    /\ refusal[1] = "reply" => HasRoom(srcOut[refusal[2]], SlotBuffer)
    /\ In("sources") /\ srcIn[at] # <<>> /\ Head(srcIn[at]).type = "Release" =>
            HasRoom(freeSourceSlots, NumSources)
    /\ In("link") /\ ToLink # {} => HasRoom(srcOut[at], SlotBuffer)
    /\ phase \in {"start", "copy"} => \A t \in FreeTargets : HasRoom(tgtOut[t], SlotBuffer)

\* What runs in the source slots agrees with what runs in the target slots: a
\* running source is linked to a running target of its type, and two sources
\* that run an x-type job are linked to different targets.
LinkSound ==
    /\ \A s \in Sources : srcState[s] = "Run" =>
            /\ tgtState[srcOpposite[s]] = "Run"
            /\ tgtType[srcOpposite[s]] = SrcType(s)
    /\ \A r, s \in Sources :
            /\ srcState[r] = "Run" /\ srcState[s] = "Run" /\ ~YType(SrcType(s))
            /\ srcOpposite[r] = srcOpposite[s]
            => r = s

\* A target is Starting exactly while one Start it was sent is being obeyed or
\* its outcome is on the way: the broker never orders a second start meanwhile,
\* and never takes the outcome of one start for that of another.
StartDiscipline ==
    \A t \in Targets :
        Len(tgtOut[t]) + One(runner[t] \in {"kill", "launch", "wait"})
          + Occurrences(tgtIn[t], {m \in Report : m.type # "Free"}) + One(phase = "refuse" /\ at = t)
            = One(tgtState[t] = "Starting")

-----------------------------------------------------------------------------
Open(c) == conn[c] = "open"

\* Two connections are never on the same container at once, unless both asked
\* for a y type: x-type jobs are executed one at a time on the container.
ExclusiveContainer ==
    \A b, c \in Conns :
        /\ Open(b) /\ Open(c) /\ connAddress[b] = connAddress[c]
        /\ ~ (YType(TypeOf[connJob[b]]) /\ YType(TypeOf[connJob[c]]))
        => b = c

\* A client is never connected to a container of another image than its own.
RightImage ==
    \A c \in Conns : Open(c) /\ container[connAddress[c]] # NoJob =>
        TypeOf[container[connAddress[c]]] = TypeOf[connJob[c]]

\* A call for a worker (port 3) never becomes a connection to a container: it
\* ends with an error, so that the caller's connection is closed (broker.go:517).
WorkerNeverConnected == \A c \in Conns : Open(c) => connJob[c] \notin WorkerJobs

\* A runner never begins to replace a container while a client is on it.
NoKillInUse ==
    [][\A t \in Targets : runner[t] = "read" /\ runner'[t] = "kill" =>
            \A c \in Conns : ~ (Open(c) /\ connAddress[c] = t)]_vars

\* A target is not free while a client of its container is still there: "Free -
\* worker (if any) associated with the target slot is not processing any data".
FreeMeansIdle ==
    \A t \in Targets : tgtState[t] = "Free" =>
        \A c \in Conns : ~ (Open(c) /\ connAddress[c] = t)
=============================================================================
