----------------------------- MODULE ClientProofs -----------------------------
(***************************************************************************)
(* What the program promises its clients, for any number of slots,         *)
(* connections and jobs.  That a client is on the target its source slot   *)
(* is linked to follows from the books of SlotProofs; that the job the     *)
(* broker knows is the one the client asked for, from the order in which   *)
(* the clients of a slot read their answers.  The last theorems are that   *)
(* every step of the program is a step of ContainerService, and that what  *)
(* this service promises holds of the program, where its findings do not   *)
(* apply: with one container, or with shared types only.                   *)
(***************************************************************************)
EXTENDS SlotProofs, DockerService

\* Runner t's address is t.
OwnAddress ==
    \A t \in Targets :
        /\ tgtRef[t] \in {Nil, t}
        /\ \A i \in 1..Len(tgtIn[t]) : tgtIn[t][i].type = "Free" => tgtIn[t][i].address = t

\* Elements of a sequence, before and after one joins at the end or the first leaves.
LEMMA AllOfAppend ==
    ASSUME NEW S, NEW q \in Seq(S), NEW e \in S, NEW i \in 1..Len(Append(q, e))
    PROVE  \/ i \in 1..Len(q) /\ Append(q, e)[i] = q[i]
           \/ i = Len(q) + 1 /\ Append(q, e)[i] = e
BY SMT

\* The elements of a sequence without its first.
LEMMA AllOfTail ==
    ASSUME NEW S, NEW q \in Seq(S), q # <<>>, NEW i \in 1..Len(Tail(q))
    PROVE  i + 1 \in 1..Len(q) /\ Tail(q)[i] = q[i + 1] /\ Len(Tail(q)) = Len(q) - 1
BY SMT

\* A runner registers its own address, and the broker keeps it.
LEMMA OwnAddressStep ==
    ASSUME TypeOK, OwnAddress, [Next]_vars
    PROVE  OwnAddress'
<1> USE DEF OwnAddress
<1>1. /\ ChannelsTypeOK /\ BrokerTypeOK /\ tgtRef \in [Targets -> Targets \cup {Nil}]
      /\ tgtIn \in [Targets -> Seq(Report)]
    BY DEF TypeOK, BrokerTypeOK, TgtTypeOK, ChannelsTypeOK
<1>2. CASE UNCHANGED <<tgtRef, tgtIn>>
    BY <1>2
<1>3. CASE HandleStarted \/ HandleFree \/ HandleError
  <2>1. at \in Targets /\ tgtIn[at] # <<>> /\ tgtIn' = [tgtIn EXCEPT ![at] = Tail(@)]
    BY <1>1, <1>3, AtFacts DEF HandleStarted, HandleFree, HandleError, BrokerTypeOK
  <2>2. 1 \in 1..Len(tgtIn[at]) /\ Head(tgtIn[at]) = tgtIn[at][1]
    BY <1>1, <2>1
  <2>3. \A t \in Targets : tgtRef'[t] \in {Nil, t}
    BY <1>1, <1>3, <2>1, <2>2 DEF HandleStarted, HandleFree, HandleError, tgtVars
  <2>4. ASSUME NEW i \in 1..Len(Tail(tgtIn[at]))
        PROVE  Tail(tgtIn[at])[i].type = "Free" => Tail(tgtIn[at])[i].address = at
    BY <1>1, <2>1, AllOfTail
  <2>5. ASSUME NEW t \in Targets, NEW i \in 1..Len(tgtIn'[t])
        PROVE  tgtIn'[t][i].type = "Free" => tgtIn'[t][i].address = t
    BY <1>1, <2>1, <2>4
  <2> QED
    BY <2>3, <2>5
<1>4. ASSUME NEW t \in Targets, Runner(t) PROVE OwnAddress'
  <2>1. tgtRef' = tgtRef
    BY <1>4 DEF Runner, brokerVars, tgtVars
  <2>2. CASE Register(t) \/ StartFails(t) \/ Ready(t) \/ NotReady(t)
    <3>1. PICK report \in {Free(t), Started, Failed} : Tell(t, report)
      BY <2>2 DEF Register, StartFails, Ready, NotReady
    <3>2. report \in Report /\ (report.type = "Free" => report.address = t)
      BY <3>1, MessageFacts DEF Free, Started, Failed
    <3>3. tgtIn' = [tgtIn EXCEPT ![t] = Append(@, report)]
      BY <3>1 DEF Tell
    <3>4. ASSUME NEW i \in 1..Len(Append(tgtIn[t], report))
          PROVE  Append(tgtIn[t], report)[i].type = "Free" => Append(tgtIn[t], report)[i].address = t
      BY <1>1, <3>2, AllOfAppend
    <3>5. ASSUME NEW u \in Targets, NEW i \in 1..Len(tgtIn'[u])
          PROVE  tgtIn'[u][i].type = "Free" => tgtIn'[u][i].address = u
      BY <1>1, <3>3, <3>4
    <3> QED
      BY <2>1, <3>5
  <2> QED
    BY <1>2, <1>4, <2>1, <2>2 DEF Runner, RunnerStep, ReadStart, KillOld, Launch
<1>5. ASSUME Run PROVE OwnAddress'
    BY <1>2, <1>3, <1>5 DEF Run, QueueRefused, SendRefusal, SkipSource, HandleRelease,
        HandleAcquire, SkipTarget, RefuseWaiting, ClearFailed, Link, LinkNext, StartContainer,
        StartNone, StartCopy, StartFor, CopyNone, Sweep, Sleep, tgtVars, channels
<1>6. ASSUME NEW c \in Conns, ConnStep(c) \/ Reaccept(c) PROVE OwnAddress'
    BY <1>2, <1>6 DEF ConnStep, Reaccept, Ask, RequestSlot, CallRead, ReadReply, Close, Accept,
        brokerVars, tgtVars, channels
<1>7. ASSUME NEW t \in Targets, ContainerExit(t) PROVE OwnAddress'
    BY <1>2, <1>7 DEF ContainerExit, Exit, brokerVars, tgtVars, channels
<1>8. CASE UNCHANGED vars
    BY <1>2, <1>8 DEF vars, channels, brokerVars, tgtVars
<1> QED
    BY <1>4, <1>5, <1>6, <1>7, <1>8 DEF Next, BrokerStep

\* So target t has address t, once it has one.
LEMMA OwnAddressInvariant == Spec => []OwnAddress
<1>1. Init => OwnAddress
    BY DEF Init, BrokerInit, ChannelsInit, OwnAddress
<1> QED
    BY <1>1, OwnAddressStep, TypeCorrect, PTL DEF Spec

-----------------------------------------------------------------------------
(* Clients are on the target their source slot is linked to. *)

\* A slot that does not run has granted nothing and nobody uses it.
LEMMA NotRunning ==
    ASSUME TypeOK, SlotInv, NEW s \in Sources, srcState[s] # "Run"
    PROVE  /\ \A i \in 1..Len(srcOut[s]) : srcOut[s][i].type # "Acquired"
           /\ \A c \in Conns : ~(Open(c) /\ connSlot[c] = s)
<1>1. srcOut[s] \in Seq(Reply) /\ Books(s)
    BY DEF TypeOK, ChannelsTypeOK, SlotInv
<1>2. Grants(s) = 0 /\ Cardinality(OpenOn(s)) = 0 /\ IsFiniteSet(OpenOn(s))
    BY <1>1 DEF Books, Served, Users, FewOn
<1>3. OpenOn(s) = {}
    BY <1>2, FS_EmptySet
<1>4. \A i \in 1..Len(srcOut[s]) : srcOut[s][i] \notin GrantKind
    BY <1>1, <1>2, CountZero DEF Grants
<1>5. \A i \in 1..Len(srcOut[s]) : srcOut[s][i] \in Reply
    BY <1>1
<1> QED
    BY <1>3, <1>4, <1>5, RequestKinds DEF OpenOn, Open

\* A slot is used by one connection, from the grant on.
LEMMA OneUser ==
    ASSUME TypeOK, SlotInv, NEW c \in Conns, Open(c)
    PROVE  /\ connSlot[c] \in Sources /\ srcState[connSlot[c]] = "Run"
           /\ \A i \in 1..Len(srcOut[connSlot[c]]) : srcOut[connSlot[c]][i].type # "Acquired"
           /\ \A d \in Conns : Open(d) /\ connSlot[d] = connSlot[c] => d = c
<1> DEFINE s == connSlot[c]
<1>1. s \in Sources /\ c \in OpenOn(s)
    BY DEF TypeOK, ResolverTypeOK, Open, OpenOn
<1> HIDE DEF s
<1>2. srcOut[s] \in Seq(Reply) /\ Books(s)
    BY <1>1 DEF TypeOK, ChannelsTypeOK, SlotInv
<1>3. IsFiniteSet(OpenOn(s)) /\ Cardinality(OpenOn(s)) # 0
    BY <1>1, <1>2, FS_EmptySet DEF Books, FewOn
<1>4. srcState[s] = "Run" /\ Grants(s) = 0 /\ Cardinality(OpenOn(s)) = 1
    BY <1>2, <1>3 DEF Books, Served, Users
<1>5. PICK x : OpenOn(s) = {x}
    BY <1>3, <1>4, FS_Singleton
<1>6. \A i \in 1..Len(srcOut[s]) : srcOut[s][i] \notin GrantKind
    BY <1>2, <1>4, CountZero DEF Grants
<1>7. \A i \in 1..Len(srcOut[s]) : srcOut[s][i] \in Reply
    BY <1>2
<1>8. \A d \in Conns : Open(d) /\ connSlot[d] = s => d = c
    BY <1>1, <1>5 DEF OpenOn, Open
<1> QED
    BY <1>1, <1>4, <1>6, <1>7, <1>8, RequestKinds DEF s

\* What slot s grants, and who uses it, is the target it is linked to.
Placement(s) ==
    /\ \A i \in 1..Len(srcOut[s]) :
            srcOut[s][i].type = "Acquired" => srcOut[s][i].address = srcOpposite[s]
    /\ \A c \in Conns : Open(c) /\ connSlot[c] = s => connAddress[c] = srcOpposite[s]

\* Every step keeps a slot's clients, and grants, on the target it is linked to.
LEMMA PlacementStep ==
    ASSUME TypeOK, AddressInv, SlotInv, OwnAddress, NEW s \in Sources, Placement(s), [Next]_vars
    PROVE  Placement(s)'
<1>1. /\ ChannelsTypeOK /\ BrokerTypeOK /\ LoopTypeOK /\ SrcTypeOK /\ ResolverTypeOK
      /\ srcOut \in [Sources -> Seq(Reply)] /\ conn \in [Conns -> ConnStates]
      /\ srcOpposite \in [Sources -> Targets \cup {Nil}]
      /\ connAddress \in [Conns -> Targets \cup {Nil}] /\ connSlot \in [Conns -> Sources \cup {Nil}]
    BY DEF TypeOK, ChannelsTypeOK, BrokerTypeOK, SrcTypeOK, ResolverTypeOK
<1> DEFINE Grantless == \A i \in 1..Len(srcOut[s]) : srcOut[s][i].type # "Acquired"
           Userless == \A c \in Conns : ~(Open(c) /\ connSlot[c] = s)
           SameConns == UNCHANGED <<conn, connSlot, connAddress>>
           Goal == Placement(s)'
<1>2. srcState[s] # "Run" => Grantless /\ Userless
    BY NotRunning
<1> USE DEF Placement, Open
<1>3. CASE srcOut'[s] = srcOut[s] /\ srcOpposite'[s] = srcOpposite[s] /\ SameConns
    BY <1>3
<1>4. CASE srcState[s] # "Run" /\ srcOut'[s] = srcOut[s] /\ SameConns
    BY <1>2, <1>4
<1>5. ASSUME Run, SameConns PROVE Goal
  <2>1. CASE HandleAcquire
    <3>1. at \in Sources /\ srcOut' = srcOut /\ srcOpposite' = [srcOpposite EXCEPT ![at] = Nil]
      BY <1>1, <2>1, AtFacts DEF HandleAcquire
    <3>2. srcState[at] # "Run"
      <4>1. Head(srcIn[at]) \in Request /\ srcIn[at] \in Seq(Request) /\ srcIn[at] # <<>>
        BY <1>1, <2>1, <3>1 DEF HandleAcquire, ChannelsTypeOK
      <4>2. Occurrences(srcIn[at], AcquireKind) \in Nat \ {0}
        BY <2>1, <4>1, RequestKinds, CountHead DEF HandleAcquire
      <4>3. Acquires(at) # 0
        BY <1>1, <3>1, <4>2, CountsAre
      <4> QED
        BY <3>1, <4>3 DEF SlotInv, Books, Placed
    <3> QED
      BY <1>1, <1>3, <1>4, <1>5, <3>1, <3>2
  <2>2. CASE StartContainer \/ StartCopy
    <3>1. PICK t \in Targets, r \in Sources : StartFor(t, r) /\ srcState[r] = "Wait"
      BY <1>1, <2>2, StartSteps
    <3>2. srcOut' = srcOut /\ srcOpposite' = [srcOpposite EXCEPT ![r] = t]
      BY <3>1 DEF StartFor
    <3> QED
      BY <1>1, <1>3, <1>4, <1>5, <3>1, <3>2
  <2>3. CASE SendRefusal
    <3>1. /\ refusal[2] \in Sources /\ srcOut' = [srcOut EXCEPT ![refusal[2]] = Append(@, Refused)]
          /\ srcOpposite' = srcOpposite
      BY <1>1, <2>3 DEF SendRefusal, LoopTypeOK, srcVars
    <3>2. Refused \in Reply /\ Refused.type # "Acquired"
      BY MessageFacts DEF Refused
    <3>3. CASE s = refusal[2]
      <4>1. srcOut'[s] = Append(srcOut[s], Refused)
        BY <1>1, <3>1, <3>3
      <4>2. ASSUME NEW i \in 1..Len(srcOut'[s]), srcOut'[s][i].type = "Acquired"
            PROVE  i \in 1..Len(srcOut[s]) /\ srcOut'[s][i] = srcOut[s][i]
        BY <1>1, <3>2, <4>1, <4>2, AllOfAppend
      <4> QED
        BY <1>5, <3>1, <4>2
    <3> QED
      BY <1>1, <1>3, <1>5, <3>1, <3>3
  <2>4. CASE Link
    <3>1. PICK t \in First(ToLink) :
            /\ srcOpposite' = [srcOpposite EXCEPT ![at] = t]
            /\ srcOut' = [srcOut EXCEPT ![at] = Append(@, Acquired(tgtRef[t]))]
      BY <2>4 DEF Link
    <3>2. at \in Sources /\ srcState[at] = "Wait"
      BY <2>4, LinksWaiting DEF SlotInv
    <3>3. t \in Targets /\ tgtRef[t] = t
      <4>1. t \in Targets /\ tgtRef[t] \in Targets
        BY <2>4, LinkedTargetKnown DEF Link, First
      <4> QED
        BY <4>1 DEF OwnAddress, Targets, Nil
    <3>4. Acquired(t) \in Reply /\ Acquired(t).address = t
      BY <3>3, MessageFacts DEF Acquired
    <3>5. CASE s = at
      <4>1. srcOut'[s] = Append(srcOut[s], Acquired(t)) /\ srcOpposite'[s] = t
        BY <1>1, <3>1, <3>2, <3>3, <3>5
      <4>2. \A i \in 1..Len(srcOut[s]) : srcOut[s][i].type # "Acquired"
        BY <3>2, <3>5, <1>2
      <4>3. ASSUME NEW i \in 1..Len(srcOut'[s]), srcOut'[s][i].type = "Acquired"
            PROVE  srcOut'[s][i] = Acquired(t)
        BY <1>1, <3>4, <4>1, <4>2, <4>3, AllOfAppend
      <4>4. Userless
        BY <1>2, <3>2, <3>5
      <4> QED
        BY <1>5, <3>4, <4>1, <4>3, <4>4
    <3> QED
      BY <1>1, <1>3, <1>5, <3>1, <3>5
  <2>5. UNCHANGED <<srcOut, srcOpposite>> \/ HandleAcquire \/ StartContainer \/ StartCopy
        \/ SendRefusal \/ Link
    BY <1>5 DEF Run, QueueRefused, SkipSource, HandleRelease, SkipTarget, HandleStarted,
        HandleFree, HandleError, RefuseWaiting, ClearFailed, LinkNext, StartNone, CopyNone, Sweep,
        Sleep, srcVars, channels
  <2> QED
    BY <1>3, <1>5, <2>1, <2>2, <2>3, <2>4, <2>5
<1>6. ASSUME NEW c \in Conns, ConnStep(c) \/ Reaccept(c) PROVE Goal
  <2>1. srcOpposite' = srcOpposite
    BY <1>6 DEF ConnStep, Reaccept, brokerVars, srcVars
  <2>2. CASE RequestSlot(c) \/ CallRead(c) \/ Accept(c)
    <3>1. /\ srcOut' = srcOut /\ connAddress' = connAddress
          /\ conn'[c] # "open"
          /\ \A d \in Conns \ {c} : conn'[d] = conn[d] /\ connSlot'[d] = connSlot[d]
      <4>1. CASE RequestSlot(c)
        <5>1. /\ srcOut' = srcOut /\ connAddress' = connAddress
              /\ connSlot' = [connSlot EXCEPT ![c] = Head(freeSourceSlots)]
              /\ conn' = [conn EXCEPT ![c] = "sent"] \/ conn' = [conn EXCEPT ![c] = "reading"]
          BY <4>1 DEF RequestSlot
        <5> QED
          BY <1>1, <5>1
      <4>2. CASE CallRead(c) \/ Accept(c)
        BY <1>1, <4>2 DEF CallRead, Accept, channels
      <4> QED
        BY <2>2, <4>1, <4>2
    <3> QED
      BY <2>1, <3>1
  <2>3. CASE ReadReply(c)
    <3> DEFINE r == connSlot[c]
    <3>1. /\ r \in Sources /\ srcOut[r] # <<>>
          /\ srcOut' = [srcOut EXCEPT ![r] = Tail(@)]
          /\ conn' = [conn EXCEPT ![c] = IF Head(srcOut[r]).type = "Acquired" THEN "open" ELSE "closed"]
          /\ connAddress' = [connAddress EXCEPT ![c] = Head(srcOut[r]).address]
          /\ connSlot' = connSlot
      BY <1>1, <2>3 DEF ReadReply, ResolverTypeOK
    <3>2. CASE r = s
      <4>1. srcOut'[s] = Tail(srcOut[s]) /\ srcOut[s] # <<>> /\ srcOut[s] \in Seq(Reply)
        BY <1>1, <3>1, <3>2
      <4>2. ASSUME NEW i \in 1..Len(Tail(srcOut[s]))
            PROVE  i + 1 \in 1..Len(srcOut[s]) /\ Tail(srcOut[s])[i] = srcOut[s][i + 1]
        BY <4>1, AllOfTail
      <4>3. ASSUME NEW i \in 1..Len(srcOut'[s]), srcOut'[s][i].type = "Acquired"
            PROVE  srcOut'[s][i].address = srcOpposite'[s]
        BY <2>1, <4>1, <4>2, <4>3
      <4>4. 1 \in 1..Len(srcOut[s]) /\ Head(srcOut[s]) = srcOut[s][1]
        BY <4>1
      <4>5. conn'[c] = "open" => connAddress'[c] = srcOpposite'[s]
        BY <1>1, <2>1, <3>1, <3>2, <4>4
      <4>6. \A d \in Conns \ {c} : conn'[d] = conn[d] /\ connAddress'[d] = connAddress[d]
        BY <1>1, <3>1
      <4> QED
        BY <2>1, <3>1, <4>3, <4>5, <4>6
    <3>3. CASE r # s
      <4>1. srcOut'[s] = srcOut[s]
        BY <1>1, <3>1, <3>3
      <4>2. \A d \in Conns \ {c} : conn'[d] = conn[d] /\ connAddress'[d] = connAddress[d]
        BY <1>1, <3>1
      <4> QED
        BY <2>1, <3>1, <3>3, <4>1, <4>2
    <3> QED
      BY <3>2, <3>3
  <2>4. CASE Close(c)
    <3>1. /\ srcOut' = srcOut /\ connSlot' = connSlot /\ conn'[c] = "closed"
          /\ \A d \in Conns \ {c} : conn'[d] = conn[d] /\ connAddress'[d] = connAddress[d]
      BY <1>1, <2>4 DEF Close
    <3> QED
      BY <2>1, <3>1
  <2> QED
    BY <1>6, <2>2, <2>3, <2>4 DEF ConnStep, Reaccept, Ask
<1>7. ASSUME NEW t \in Targets, Runner(t) \/ ContainerExit(t) PROVE Goal
  <2>1. UNCHANGED <<srcOut, srcOpposite, conn, connSlot, connAddress>>
    BY <1>7 DEF Runner, RunnerStep, Register, ReadStart, KillOld, Launch, StartFails, Ready,
        NotReady, ContainerExit, Exit, RunnerOnly, brokerVars, srcVars, connVars, channels
  <2> QED
    BY <1>3, <2>1
<1>8. CASE UNCHANGED vars
    BY <1>3, <1>8 DEF vars, channels, brokerVars, srcVars, connVars
<1> QED
    BY <1>5, <1>6, <1>7, <1>8 DEF Next, BrokerStep, connVars

ClientsPlaced == \A s \in Sources : Placement(s)

\* So it always is, as long as there are no twins.
LEMMA PlacementInvariant == Spec /\ []NoTwins => []ClientsPlaced
<1>1. Init => ClientsPlaced
    BY DEF Init, ChannelsInit, ResolverInit, ClientsPlaced, Placement, Open
<1>2. TypeOK /\ AddressInv /\ SlotInv /\ OwnAddress /\ ClientsPlaced /\ [Next]_vars => ClientsPlaced'
    BY PlacementStep DEF ClientsPlaced
<1> QED
    BY <1>1, <1>2, TypeCorrect, AddressInvariant, SlotInvariant, OwnAddressInvariant, PTL DEF Spec

\* So a client that is served is on a target that runs its slot's type.
LEMMA ClientThere ==
    ASSUME TypeOK, AddressInv, SlotInv, LinkSound, ClientsPlaced, NEW c \in Conns, Open(c)
    PROVE  /\ connSlot[c] \in Sources /\ srcState[connSlot[c]] = "Run"
           /\ connAddress[c] = srcOpposite[connSlot[c]]
           /\ connAddress[c] \in Targets
           /\ tgtState[connAddress[c]] = "Run"
           /\ tgtType[connAddress[c]] = SrcType(connSlot[c])
<1>1. connSlot[c] \in Sources /\ srcState[connSlot[c]] = "Run"
    BY OneUser
<1>2. connAddress[c] = srcOpposite[connSlot[c]]
    BY <1>1 DEF ClientsPlaced, Placement
<1>3. RunsThere(connSlot[c])
    BY <1>1, LinkSoundIs DEF AddressInv
<1> QED
    BY <1>1, <1>2, <1>3 DEF RunsThere

\* As long as there are no twins, a target is not free while a client of its container
\* is still there.
THEOREM FreeTargetsIdle == Prompt => (Spec /\ []NoTwins => []FreeMeansIdle)
<1> SUFFICES ASSUME Prompt PROVE Spec /\ []NoTwins => []FreeMeansIdle
    OBVIOUS
<1>1. TypeOK /\ AddressInv /\ SlotInv /\ LinkSound /\ ClientsPlaced => FreeMeansIdle
    BY ClientThere DEF FreeMeansIdle
<1> QED
    BY <1>1, TypeCorrect, AddressInvariant, SlotInvariant, LinksSound, PlacementInvariant, PTL

\* As long as there are no twins, a runner never begins to replace a container while a
\* client is on it.
THEOREM ContainersInUseStay == Prompt => (Spec /\ []NoTwins => NoKillInUse)
<1> SUFFICES ASSUME Prompt PROVE Spec /\ []NoTwins => NoKillInUse
    OBVIOUS
<1> DEFINE Kill == \A t \in Targets : runner[t] = "read" /\ runner'[t] = "kill" =>
                        \A c \in Conns : ~ (Open(c) /\ connAddress[c] = t)
<1>1. TypeOK /\ AddressInv /\ SlotInv /\ LinkSound /\ StartDiscipline /\ ClientsPlaced /\ [Next]_vars
        => [Kill]_vars
  <2> SUFFICES ASSUME TypeOK, AddressInv, SlotInv, LinkSound, StartDiscipline, ClientsPlaced,
                      [Next]_vars, NEW t \in Targets, runner[t] = "read", runner'[t] = "kill",
                      NEW c \in Conns, Open(c), connAddress[c] = t
               PROVE  FALSE
    OBVIOUS
  <2>1. tgtState[t] = "Run"
    BY ClientThere
  <2>2. ReadStart(t)
    <3>1. runner \in [Targets -> RunnerStates]
      BY DEF TypeOK, RunnerTypeOK
    <3>2. PICK u \in Targets : RunnerStep(u)
      BY <3>1 DEF Next, vars, BrokerStep, ConnStep, Reaccept, Runner, ContainerExit, Exit, runnerVars
    <3>3. u = t /\ runner' # [runner EXCEPT ![u] = "read"]
      BY <3>1, <3>2 DEF RunnerStep, Register, ReadStart, KillOld, Launch, StartFails, Ready,
          NotReady, Tell
    <3> QED
      BY <3>1, <3>2, <3>3 DEF RunnerStep, Register, KillOld, Launch, StartFails, Ready, NotReady, Tell
  <2>3. Len(tgtOut[t]) # 0
    BY <2>2 DEF ReadStart, TypeOK, ChannelsTypeOK
  <2>4. Balanced
    BY DisciplineIs DEF TypeOK
  <2> QED
    BY <2>1, <2>3, <2>4 DEF Balanced, NothingOnTheWay
<1> QED
    BY <1>1, TypeCorrect, AddressInvariant, SlotInvariant, LinksSound, StartsDisciplined,
       PlacementInvariant, PTL DEF NoKillInUse, Spec

-----------------------------------------------------------------------------
(* The container on a labelled target is one of its label. *)

\* The broker takes the container of target t for ready, or has yet to read that it is.
ReadyTold(t) == \E i \in 1..Len(tgtIn[t]) : tgtIn[t][i].type = "Started"
ReadyHere(t) == ReadyTold(t) \/ (tgtState[t] # "Starting" /\ tgtType[t] # NoType)

\* What is ordered, started and running on target t is of the type it is labelled with.
Imaged(t) ==
    /\ \A i \in 1..Len(tgtOut[t]) : TypeOf[tgtOut[t][i].job] = tgtType[t]
    /\ Busy(t) \/ ReadyHere(t) => runnerJob[t] \in Jobs /\ TypeOf[runnerJob[t]] = tgtType[t]
    /\ runner[t] = "wait" \/ ReadyHere(t) => container[t] \in {runnerJob[t], NoJob}
    /\ ReadyHere(t) => runnerJob[t] \notin WorkerJobs

\* A target with no outcome on the way has no Started on the way.
LEMMA NothingTold ==
    ASSUME TypeOK, NEW t \in Targets, Occurrences(tgtIn[t], Outcome) = 0
    PROVE  ~ReadyTold(t)
<1>1. tgtIn[t] \in Seq(Report)
    BY DEF TypeOK, ChannelsTypeOK
<1>2. \A i \in 1..Len(tgtIn[t]) : tgtIn[t][i] \notin Outcome /\ tgtIn[t][i] \in Report
    BY <1>1, CountZero
<1> QED
    BY <1>2, KindFacts DEF ReadyTold

\* Every step keeps a target's orders, runner and container of the target's type.
LEMMA ImagedStep ==
    ASSUME TypeOK, AddressInv, LinkInv, NEW t \in Targets, Imaged(t), [Next]_vars
    PROVE  Imaged(t)'
<1>1. /\ ChannelsTypeOK /\ BrokerTypeOK /\ LoopTypeOK /\ SrcTypeOK /\ TgtTypeOK
      /\ tgtIn \in [Targets -> Seq(Report)] /\ tgtOut \in [Targets -> Seq(Command)]
      /\ runner \in [Targets -> RunnerStates] /\ runnerJob \in [Targets -> Jobs \cup {NoJob}]
      /\ container \in [Targets -> Jobs \cup {NoJob}]
    BY DEF TypeOK, ChannelsTypeOK, BrokerTypeOK, RunnerTypeOK
<1>2. Balanced
    BY <1>1, DisciplineIs DEF LinkInv
<1> DEFINE Idle == tgtOut[t] = <<>> /\ ~Busy(t) /\ ~ReadyTold(t)
           SameChannels == tgtIn'[t] = tgtIn[t] /\ tgtOut'[t] = tgtOut[t]
           SameRunner == UNCHANGED <<runner, runnerJob, container>>
           SameLabel == /\ tgtType'[t] = tgtType[t]
                        /\ tgtState'[t] = "Starting" <=> tgtState[t] = "Starting"
           Goal == Imaged(t)'
<1>3. NothingOnTheWay(t) => Idle
    BY <1>1, NothingTold DEF NothingOnTheWay
<1>4. tgtState[t] # "Starting" => Idle
    BY <1>2, <1>3 DEF Balanced
<1> USE DEF Imaged, ReadyHere
<1>5. CASE SameChannels /\ SameRunner /\ SameLabel
    BY <1>5 DEF Busy, ReadyTold
\* The label is taken off a target that nothing is on the way to or from.
<1>6. CASE Idle' /\ (tgtType'[t] = NoType \/ tgtState'[t] = "Starting")
  <2>1. runner'[t] # "wait" /\ ~Busy(t)' /\ ~ReadyHere(t)' /\ Len(tgtOut'[t]) = 0
    BY <1>6 DEF Busy
  <2> QED
    BY <2>1
<1>7. CASE Idle /\ SameChannels /\ SameRunner /\ (tgtType'[t] = NoType \/ tgtState'[t] = "Starting")
    BY <1>6, <1>7 DEF Busy, ReadyTold
<1>8. ASSUME Run, SameRunner PROVE Goal
  <2>1. CASE HandleRelease
    <3>1. at \in Sources /\ SameChannels
      BY <1>1, <2>1, AtFacts DEF HandleRelease
    <3>2. CASE FreesTarget /\ t = srcOpposite[at]
      <4>1. tgtState[t] = "Run"
        BY <1>1, <3>1, <3>2, LinkSoundIs DEF LinkInv, AddressInv, FreesTarget, RunsThere
      <4>2. tgtState'[t] = "Free" /\ tgtType'[t] \in {tgtType[t], NoType}
        BY <1>1, <2>1, <3>2 DEF HandleRelease, TgtTypeOK
      <4> QED
        BY <1>4, <1>5, <1>7, <1>8, <3>1, <4>1, <4>2
    <3>3. CASE ~(FreesTarget /\ t = srcOpposite[at])
      <4>1. tgtState'[t] = tgtState[t] /\ tgtType'[t] = tgtType[t]
        BY <1>1, <2>1, <3>3 DEF HandleRelease, TgtTypeOK, tgtVars
      <4> QED
        BY <1>5, <1>8, <3>1, <4>1
    <3> QED
      BY <3>2, <3>3
  <2>2. CASE HandleStarted \/ HandleError \/ HandleFree
    <3>1. at \in Targets /\ tgtIn[at] # <<>> /\ tgtIn' = [tgtIn EXCEPT ![at] = Tail(@)] /\ tgtOut' = tgtOut
      BY <1>1, <2>2, AtFacts DEF HandleStarted, HandleError, HandleFree
    <3>2. CASE at # t
      <4>1. tgtState'[t] = tgtState[t] /\ tgtType'[t] = tgtType[t] /\ SameChannels
        BY <1>1, <2>2, <3>1, <3>2 DEF HandleStarted, HandleError, HandleFree, TgtTypeOK, tgtVars
      <4> QED
        BY <1>5, <1>8, <4>1
    <3>3. CASE at = t
      <4>1. tgtIn'[t] = Tail(tgtIn[t]) /\ tgtIn[t] # <<>> /\ tgtOut'[t] = tgtOut[t]
        BY <1>1, <3>1, <3>3
      <4>2. ASSUME NEW i \in 1..Len(Tail(tgtIn[t]))
            PROVE  i + 1 \in 1..Len(tgtIn[t]) /\ Tail(tgtIn[t])[i] = tgtIn[t][i + 1]
        BY <1>1, <4>1, AllOfTail
      <4>3. (ReadyTold(t)' => ReadyTold(t)) /\ (Busy(t)' <=> Busy(t))
        BY <1>8, <4>1, <4>2 DEF ReadyTold, Busy
      <4>4. 1 \in 1..Len(tgtIn[t]) /\ Head(tgtIn[t]) = tgtIn[t][1]
        BY <1>1, <4>1
      <4>5. CASE HandleStarted
        <5>1. ReadyTold(t)
          BY <3>3, <4>4, <4>5 DEF HandleStarted, ReadyTold
        <5>2. tgtType'[t] = tgtType[t]
          BY <4>5 DEF HandleStarted
        <5> QED
          BY <1>8, <4>1, <4>3, <5>1, <5>2
      <4>6. CASE HandleError
        <5>1. tgtType'[t] = tgtType[t] /\ tgtState'[t] = tgtState[t]
          BY <4>6 DEF HandleError, tgtVars
        <5> QED
          BY <1>8, <4>1, <4>3, <5>1
      <4>7. CASE HandleFree
        <5>1. tgtState[t] # "Starting"
          BY <3>3, <4>7, FirstFree DEF LinkInv
        <5>2. tgtType'[t] = NoType
          BY <1>1, <3>3, <4>7 DEF HandleFree, TgtTypeOK
        <5> QED
          BY <1>4, <1>6, <1>8, <4>1, <4>3, <5>1, <5>2
      <4> QED
        BY <2>2, <4>5, <4>6, <4>7
    <3> QED
      BY <3>2, <3>3
  <2>3. CASE ClearFailed
    <3>1. at \in Targets /\ Refusing(at) /\ SameChannels
      BY <1>1, <2>3, AtFacts DEF ClearFailed, Refusing, In, channels
    <3>2. CASE at = t
      <4>1. Idle
        <5>1. Len(tgtOut[t]) = 0 /\ ~Busy(t) /\ Occurrences(tgtIn[t], Outcome) = 0
          BY <1>2, <3>1, <3>2 DEF Balanced, OneOnTheWay, NothingOnTheWay
        <5> QED
          BY <1>1, <5>1, NothingTold
      <4>2. tgtType'[t] = NoType
        BY <1>1, <2>3, <3>2 DEF ClearFailed, TgtTypeOK
      <4> QED
        BY <1>7, <1>8, <3>1, <4>1, <4>2
    <3>3. CASE at # t
      <4>1. tgtState'[t] = tgtState[t] /\ tgtType'[t] = tgtType[t]
        BY <1>1, <2>3, <3>3 DEF ClearFailed, TgtTypeOK
      <4> QED
        BY <1>5, <1>8, <3>1, <4>1
    <3> QED
      BY <3>2, <3>3
  <2>4. CASE StartContainer \/ StartCopy
    <3>1. PICK u \in Targets, s \in Sources :
              StartFor(u, s) /\ tgtState[u] = "Free" /\ srcJob[s] \in Jobs
      BY <1>1, <2>4, StartSteps
    <3>2. /\ tgtState' = [tgtState EXCEPT ![u] = "Starting"]
          /\ tgtType' = [tgtType EXCEPT ![u] = SrcType(s)]
          /\ tgtOut' = [tgtOut EXCEPT ![u] = Append(@, Start(srcJob[s]))]
          /\ tgtIn' = tgtIn
      BY <3>1 DEF StartFor
    <3>3. CASE u = t
      <4>1. Idle
        BY <1>4, <3>1, <3>3
      <4>2. tgtOut'[t] = <<Start(srcJob[s])>>
        BY <1>1, <3>2, <3>3, <4>1
      <4>3. tgtState'[t] = "Starting" /\ tgtType'[t] = TypeOf[srcJob[s]]
        BY <1>1, <3>1, <3>2, <3>3, SlotsAssumption DEF TgtTypeOK, SrcType, SlotTypeOf
      <4>4. ~Busy(t)' /\ ~ReadyHere(t)' /\ runner'[t] # "wait"
        BY <1>8, <3>2, <4>1, <4>3 DEF Busy, ReadyTold
      <4>5. \A i \in 1..Len(tgtOut'[t]) : TypeOf[tgtOut'[t][i].job] = tgtType'[t]
        BY <4>2, <4>3 DEF Start
      <4> QED
        BY <4>4, <4>5
    <3>4. CASE u # t
      <4>1. tgtState'[t] = tgtState[t] /\ tgtType'[t] = tgtType[t] /\ SameChannels
        BY <1>1, <3>2, <3>4 DEF TgtTypeOK
      <4> QED
        BY <1>5, <1>8, <4>1
    <3> QED
      BY <3>3, <3>4
  <2>5. CASE Link
    <3>1. PICK u \in First(ToLink) : tgtState' = [tgtState EXCEPT ![u] = "Run"]
      BY <2>5 DEF Link
    <3>2. u \in Targets /\ tgtState[u] # "Starting"
      BY DEF First, ToLink, Matches
    <3>3. SameLabel /\ SameChannels
      BY <1>1, <2>5, <3>1, <3>2 DEF Link, TgtTypeOK
    <3> QED
      BY <1>5, <1>8, <3>3
  <2>6. CASE Sweep
    <3>1. /\ tgtState'[t] = (IF Unused(t) \/ Overdue(t) THEN "Free" ELSE tgtState[t])
          /\ tgtType'[t] = (IF Overdue(t) THEN NoType ELSE tgtType[t])
          /\ SameChannels
      BY <2>6 DEF Sweep, channels
    <3>2. Unused(t) \/ Overdue(t) => tgtState[t] = "Run"
      BY DEF Unused, Overdue
    <3> QED
      BY <1>4, <1>5, <1>7, <1>8, <3>1, <3>2
  <2>7. CASE UNCHANGED <<tgtIn, tgtOut, tgtState, tgtType>>
    BY <1>5, <1>8, <2>7
  <2> QED
    BY <1>8, <2>1, <2>2, <2>3, <2>4, <2>5, <2>6, <2>7 DEF Run, QueueRefused, SendRefusal,
        SkipSource, HandleAcquire, SkipTarget, RefuseWaiting, LinkNext, StartNone, CopyNone,
        Sleep, tgtVars, channels
<1>9. ASSUME NEW u \in Targets, Runner(u) \/ ContainerExit(u) PROVE Goal
  <2>1. tgtState' = tgtState /\ tgtType' = tgtType
    BY <1>9 DEF Runner, ContainerExit, brokerVars, tgtVars
  <2>2. CASE u # t
    <3>1. /\ SameChannels /\ runner'[t] = runner[t] /\ runnerJob'[t] = runnerJob[t]
          /\ container'[t] = container[t]
      BY <1>1, <1>9, <2>2 DEF Runner, RunnerStep, Register, ReadStart, KillOld, Launch,
          StartFails, Ready, NotReady, Tell, ContainerExit, Exit, channels
    <3> QED
      BY <2>1, <3>1 DEF Busy, ReadyTold
  <2>3. CASE u = t /\ ReadStart(t)
    <3>1. /\ tgtOut[t] # <<>> /\ tgtOut'[t] = Tail(tgtOut[t]) /\ tgtIn' = tgtIn
          /\ runner'[t] = "kill" /\ runnerJob'[t] = Head(tgtOut[t]).job
      BY <1>1, <2>3 DEF ReadStart
    <3>2. tgtState[t] = "Starting" /\ Occurrences(tgtIn[t], Outcome) = 0
      BY <1>1, <1>2, <3>1 DEF Balanced, OneOnTheWay, NothingOnTheWay
    <3>3. ~ReadyHere(t)'
      BY <2>1, <3>1, <3>2, NothingTold DEF ReadyTold
    <3>4. /\ 1 \in 1..Len(tgtOut[t]) /\ Head(tgtOut[t]) = tgtOut[t][1] /\ Head(tgtOut[t]) \in Command
          /\ tgtOut[t] \in Seq(Command)
      BY <1>1, <3>1
    <3>5. runnerJob'[t] \in Jobs /\ TypeOf[runnerJob'[t]] = tgtType'[t]
      BY <2>1, <3>1, <3>4, MessageFacts
    <3>6. ASSUME NEW i \in 1..Len(Tail(tgtOut[t]))
          PROVE  i + 1 \in 1..Len(tgtOut[t]) /\ Tail(tgtOut[t])[i] = tgtOut[t][i + 1]
      BY <3>1, <3>4, AllOfTail
    <3> QED
      BY <2>1, <3>1, <3>3, <3>5, <3>6
  <2>4. CASE u = t /\ (KillOld(t) \/ Launch(t))
    <3>1. /\ SameChannels /\ runnerJob' = runnerJob /\ Busy(t)
          /\ container'[t] \in {runnerJob[t], NoJob}
      BY <1>1, <2>4 DEF KillOld, Launch, Busy
    <3>2. ReadyHere(t)' <=> ReadyHere(t)
      BY <2>1, <3>1 DEF ReadyTold
    <3> QED
      BY <2>1, <3>1, <3>2
  <2>5. CASE u = t /\ (Register(t) \/ StartFails(t) \/ NotReady(t) \/ Ready(t))
    <3>1. PICK report \in {Free(t), Failed, Started} :
            Tell(t, report) /\ (report = Started => Ready(t))
      BY <2>5 DEF Register, StartFails, Ready, NotReady, Free, Failed, Started
    <3>2. /\ tgtIn'[t] = Append(tgtIn[t], report) /\ tgtOut'[t] = tgtOut[t]
          /\ runner'[t] = "read" /\ UNCHANGED <<runnerJob, container>>
      BY <1>1, <2>5, <3>1 DEF Register, StartFails, Ready, NotReady, Tell
    <3>3. report \in Report /\ (report.type = "Started" => report = Started)
      BY <3>1, MessageFacts DEF Free, Failed, Started
    <3>4. ReadyTold(t)' => ReadyTold(t) \/ Ready(t)
      BY <1>1, <3>1, <3>2, <3>3, AllOfAppend DEF ReadyTold
    <3>5. Ready(t) => runner[t] = "wait" /\ Busy(t) /\ runnerJob[t] \notin WorkerJobs
      BY DEF Ready, Busy
    <3>6. ~Busy(t)'
      BY <3>2 DEF Busy
    <3> QED
      BY <2>1, <3>2, <3>4, <3>5, <3>6
  <2>6. CASE u = t /\ ContainerExit(t)
    <3>1. SameChannels /\ UNCHANGED <<runner, runnerJob>> /\ container'[t] = NoJob
      BY <1>1, <2>6 DEF ContainerExit, Exit, channels
    <3> QED
      BY <2>1, <3>1 DEF Busy, ReadyTold
  <2> QED
    BY <1>9, <2>2, <2>3, <2>4, <2>5, <2>6 DEF Runner, RunnerStep
<1>10. ASSUME NEW c \in Conns, ConnStep(c) \/ Reaccept(c) PROVE Goal
  <2>1. UNCHANGED <<tgtIn, tgtOut, tgtState, tgtType, runner, runnerJob, container>>
    BY <1>10 DEF ConnStep, Reaccept, Ask, RequestSlot, CallRead, ReadReply, Close, Accept,
        brokerVars, tgtVars, runnerVars, channels
  <2> QED
    BY <1>5, <2>1
<1>11. CASE UNCHANGED vars
    BY <1>5, <1>11 DEF vars, channels, brokerVars, tgtVars, runnerVars
<1> QED
    BY <1>8, <1>9, <1>10, <1>11 DEF Next, BrokerStep, runnerVars

ImagesTrue == \A t \in Targets : Imaged(t)

\* So they always are, with jobs within -release and clients after the runners.
LEMMA ImagesInvariant == Prompt => (Spec => []ImagesTrue)
<1> SUFFICES ASSUME Prompt PROVE Spec => []ImagesTrue
    OBVIOUS
<1>1. Init => ImagesTrue
    BY DEF Init, ChannelsInit, BrokerInit, RunnerInit, ImagesTrue, Imaged, ReadyHere, ReadyTold, Busy
<1>2. TypeOK /\ AddressInv /\ LinkInv /\ ImagesTrue /\ [Next]_vars => ImagesTrue'
    BY ImagedStep DEF ImagesTrue
<1> QED
    BY <1>1, <1>2, TypeCorrect, AddressInvariant, LinkInvariant, PTL DEF Spec

-----------------------------------------------------------------------------
(* Unless a client may be preempted before it reads, the clients of a slot *)
(* read its answers in the order in which they asked.                      *)

\* The readers of slot s are the clients that wait for an answer, each once.
ReadersWait(s) ==
    /\ Len(readers[s]) = Waiters(s)
    /\ \A i \in 1..Len(readers[s]) : conn[readers[s][i]] = "reading" /\ connSlot[readers[s][i]] = s
    /\ \A i, k \in 1..Len(readers[s]) : readers[s][i] = readers[s][k] => i = k

NobodySent == \A c \in Conns : conn[c] # "sent"

\* Every step keeps those who wait on a slot in Read, without late readers.
LEMMA ReadersWaitStep ==
    ASSUME "LateRead" \notin Env, TypeOK, NobodySent, NEW s \in Sources, Books(s),
           ReadersWait(s), [Next]_vars
    PROVE  ReadersWait(s)'
<1>1. /\ readers \in [Sources -> Seq(Conns)] /\ conn \in [Conns -> ConnStates]
      /\ connSlot \in [Conns -> Sources \cup {Nil}] /\ ResolverTypeOK
      /\ Len(readers[s]) \in Nat
    BY DEF TypeOK, ResolverTypeOK
<1>2. FewOn(s)
    BY DEF Books
<1> DEFINE Goal == ReadersWait(s)'
<1> USE DEF ReadersWait
<1>3. CASE UNCHANGED <<readers, conn, connSlot>>
    BY <1>3 DEF Waiters, WaitingOn
<1>4. ASSUME NEW c \in Conns, conn[c] # "reading", readers'[s] = readers[s], Waiters(s)' = Waiters(s),
             \A d \in Conns \ {c} : conn'[d] = conn[d] /\ connSlot'[d] = connSlot[d]
      PROVE  Goal
  <2>1. \A i \in 1..Len(readers[s]) : readers[s][i] \in Conns \ {c}
    BY <1>1, <1>4
  <2> QED
    BY <1>4, <2>1
<1>5. ASSUME NEW c \in Conns, RequestSlot(c) PROVE Goal
  <2> DEFINE r == Head(freeSourceSlots)
  <2>1. /\ conn[c] = "idle" /\ r \in Sources
        /\ connSlot' = [connSlot EXCEPT ![c] = r] /\ conn' = [conn EXCEPT ![c] = "reading"]
        /\ readers' = [readers EXCEPT ![r] = Append(@, c)]
    BY <1>5, SlotTaken DEF RequestSlot
  <2>2. Waiters(s)' = Waiters(s) + (IF s = r THEN 1 ELSE 0) /\ Waiters(s) \in Nat
    BY <1>2, <1>5, AskSets
  <2> HIDE DEF r
  <2>3. CASE s = r
    <3>1. readers'[s] = Append(readers[s], c) /\ readers[s] \in Seq(Conns)
      BY <1>1, <2>1, <2>3
    <3>2. Len(readers'[s]) = Waiters(s)'
      BY <1>1, <2>2, <2>3, <3>1
    <3>3. ASSUME NEW i \in 1..Len(Append(readers[s], c))
          PROVE  \/ i \in 1..Len(readers[s]) /\ Append(readers[s], c)[i] = readers[s][i]
                 \/ i = Len(readers[s]) + 1 /\ Append(readers[s], c)[i] = c
      BY <3>1, AllOfAppend
    <3>4. \A i \in 1..Len(readers[s]) : readers[s][i] \in Conns \ {c}
      BY <1>1, <2>1
    <3>5. \A i \in 1..Len(readers'[s]) : conn'[readers'[s][i]] = "reading" /\ connSlot'[readers'[s][i]] = s
      BY <1>1, <2>1, <2>3, <3>1, <3>3, <3>4
    <3>6. ASSUME NEW i \in 1..Len(Append(readers[s], c)), NEW k \in 1..Len(Append(readers[s], c)),
                 Append(readers[s], c)[i] = Append(readers[s], c)[k]
          PROVE  i = k
      <4>1. \/ i \in 1..Len(readers[s]) /\ Append(readers[s], c)[i] = readers[s][i]
            \/ i = Len(readers[s]) + 1 /\ Append(readers[s], c)[i] = c
        BY <3>3
      <4>2. \/ k \in 1..Len(readers[s]) /\ Append(readers[s], c)[k] = readers[s][k]
            \/ k = Len(readers[s]) + 1 /\ Append(readers[s], c)[k] = c
        BY <3>3
      <4> QED
        BY <3>4, <3>6, <4>1, <4>2
    <3> QED
      BY <3>1, <3>2, <3>5, <3>6
  <2>4. CASE s # r
    <3>1. readers'[s] = readers[s] /\ Waiters(s)' = Waiters(s)
      BY <1>1, <2>1, <2>2, <2>4
    <3> QED
      BY <1>1, <1>4, <2>1, <3>1
  <2> QED
    BY <2>3, <2>4
<1>6. ASSUME NEW c \in Conns, ReadReply(c) PROVE Goal
  <2> DEFINE r == connSlot[c]
  <2>1. /\ r \in Sources /\ readers[r] # <<>> /\ Head(readers[r]) = c
        /\ connSlot' = connSlot /\ conn'[c] # "reading"
        /\ \A d \in Conns \ {c} : conn'[d] = conn[d]
        /\ readers' = [readers EXCEPT ![r] = Tail(@)]
    BY <1>1, <1>6 DEF ReadReply, ResolverTypeOK
  <2>2. Waiters(s)' = Waiters(s) - (IF s = r THEN 1 ELSE 0) /\ Waiters(s) \in Nat
    BY <1>2, <1>6, ReplySets
  <2> HIDE DEF r
  <2>3. CASE s = r
    <3>1. readers'[s] = Tail(readers[s]) /\ readers[s] \in Seq(Conns) /\ readers[s] # <<>>
      BY <1>1, <2>1, <2>3
    <3>2. Len(Tail(readers[s])) = Len(readers[s]) - 1
      BY <3>1
    <3>3. Len(readers'[s]) = Waiters(s)'
      BY <2>2, <2>3, <3>1, <3>2
    <3>4. ASSUME NEW i \in 1..Len(Tail(readers[s]))
          PROVE  i + 1 \in 1..Len(readers[s]) /\ Tail(readers[s])[i] = readers[s][i + 1] /\ i + 1 # 1
      BY <3>1, AllOfTail
    <3>5. 1 \in 1..Len(readers[s]) /\ readers[s][1] = c
      BY <2>1, <2>3, <3>1
    <3>6. ASSUME NEW i \in 1..Len(Tail(readers[s])) PROVE Tail(readers[s])[i] \in Conns \ {c}
      BY <1>1, <3>4, <3>5
    <3>7. ASSUME NEW i \in 1..Len(Tail(readers[s]))
          PROVE  conn'[Tail(readers[s])[i]] = "reading" /\ connSlot'[Tail(readers[s])[i]] = s
      <4> DEFINE d == Tail(readers[s])[i]
      <4>1. d \in Conns \ {c} /\ conn[d] = "reading" /\ connSlot[d] = s
        BY <3>4, <3>6
      <4> HIDE DEF d
      <4>2. conn'[d] = "reading" /\ connSlot'[d] = s
        BY <2>1, <4>1
      <4> QED
        BY <4>2 DEF d
    <3>8. ASSUME NEW i \in 1..Len(Tail(readers[s])), NEW k \in 1..Len(Tail(readers[s])),
                 Tail(readers[s])[i] = Tail(readers[s])[k]
          PROVE  i = k
      <4>1. i + 1 = k + 1
        BY <3>4, <3>8
      <4> QED
        BY <4>1
    <3> QED
      BY <3>1, <3>3, <3>7, <3>8
  <2>4. CASE s # r
    <3>1. readers'[s] = readers[s] /\ Waiters(s)' = Waiters(s)
      BY <1>1, <2>1, <2>2, <2>4
    <3>2. \A i \in 1..Len(readers[s]) : readers[s][i] \in Conns \ {c}
      <4>1. connSlot[c] # s
        BY <2>4 DEF r
      <4> QED
        BY <1>1, <4>1
    <3> QED
      BY <2>1, <3>1, <3>2
  <2> QED
    BY <2>3, <2>4
<1>7. ASSUME NEW c \in Conns, Accept(c) \/ Close(c) PROVE Goal
  <2>1. Waiters(s)' = Waiters(s)
    BY <1>2, <1>7, CallSets, CloseSets DEF Waiters
  <2>2. /\ conn[c] # "reading" /\ readers' = readers
        /\ \A d \in Conns \ {c} : conn'[d] = conn[d] /\ connSlot'[d] = connSlot[d]
    BY <1>1, <1>7 DEF Accept, Close
  <2> QED
    BY <1>4, <2>1, <2>2
<1>8. ASSUME NEW c \in Conns, ConnStep(c) \/ Reaccept(c) PROVE Goal
    BY <1>5, <1>6, <1>7, <1>8 DEF ConnStep, Reaccept, Ask, CallRead, NobodySent
<1>9. UNCHANGED <<readers, conn, connSlot>> \/ \E c \in Conns : ConnStep(c) \/ Reaccept(c)
    BY DEF Next, vars, BrokerStep, Runner, ContainerExit, Exit, connVars
<1> QED
    BY <1>3, <1>8, <1>9

\* Without late readers nobody has asked and is not in Read.
LEMMA NobodySentStep ==
    ASSUME "LateRead" \notin Env, TypeOK, NobodySent, [Next]_vars
    PROVE  NobodySent'
<1>1. conn \in [Conns -> ConnStates]
    BY DEF TypeOK, ResolverTypeOK
<1>2. ASSUME NEW c \in Conns, ConnStep(c) \/ Reaccept(c) PROVE NobodySent'
    BY <1>1, <1>2 DEF ConnStep, Reaccept, Ask, RequestSlot, CallRead, ReadReply, Close, Accept,
        NobodySent
<1>3. UNCHANGED conn \/ \E c \in Conns : ConnStep(c) \/ Reaccept(c)
    BY DEF Next, vars, BrokerStep, Runner, ContainerExit, Exit, connVars
<1> QED
    BY <1>2, <1>3 DEF NobodySent

\* Who asked last on slot s asked for the job the broker knows, or is about to read;
\* a grant is the last answer there is; and who uses the slot asked for its job.
Agreed(s) ==
    /\ \A i \in 1..Len(readers[s]) : i = Len(readers[s]) =>
        /\ \A k \in 1..Len(srcIn[s]) :
              srcIn[s][k].type = "Acquire" => srcIn[s][k].job = connJob[readers[s][i]]
        /\ srcState[s] = "Wait" \/ (\E k \in 1..Len(srcOut[s]) : srcOut[s][k].type = "Acquired")
              => srcJob[s] = connJob[readers[s][i]]
    /\ \A k \in 1..Len(srcOut[s]) : srcOut[s][k].type = "Acquired" => k = Len(srcOut[s])
    /\ \A c \in Conns : Open(c) /\ connSlot[c] = s => connJob[c] = srcJob[s]

AllReadersWait == \A s \in Sources : ReadersWait(s)
AllAgreed == \A s \in Sources : Agreed(s)

\* The reader of a grant is the only reader of its slot.
LEMMA GrantRuns ==
    ASSUME TypeOK, SlotInv, AllReadersWait, AllAgreed, NEW s \in Sources, srcOut[s] # <<>>,
           Head(srcOut[s]).type = "Acquired"
    PROVE  srcState[s] = "Run" /\ Len(srcOut[s]) = 1 /\ Len(readers[s]) = 1
<1>1. srcOut[s] \in Seq(Reply) /\ 1 \in 1..Len(srcOut[s]) /\ Head(srcOut[s]) = srcOut[s][1]
    BY DEF TypeOK, ChannelsTypeOK
<1>2. srcState[s] = "Run"
    BY <1>1, NotRunning
<1>3. Len(srcOut[s]) = 1
    BY <1>1 DEF AllAgreed, Agreed
<1>4. Books(s) /\ RefusedFree /\ ReadersWait(s)
    BY DEF SlotInv, AllReadersWait
<1>5. Acquires(s) = 0 /\ ~Owed(s)
    BY <1>2, <1>4 DEF Books, Placed, RefusedFree, Owed
<1>6. Waiters(s) = 1
    BY <1>2, <1>3, <1>4, <1>5 DEF Books, Answered, Replies
<1> QED
    BY <1>2, <1>3, <1>4, <1>6 DEF ReadersWait

\* Every step keeps the broker's job for a slot that of the client who waits on it.
LEMMA AgreedStep ==
    ASSUME "LateRead" \notin Env, TypeOK, SlotInv, NobodySent, AllReadersWait, AllAgreed,
           NEW s \in Sources, [Next]_vars
    PROVE  Agreed(s)'
<1>1. /\ ChannelsTypeOK /\ BrokerTypeOK /\ LoopTypeOK /\ SrcTypeOK /\ ResolverTypeOK
      /\ srcOut \in [Sources -> Seq(Reply)] /\ srcIn \in [Sources -> Seq(Request)]
      /\ readers \in [Sources -> Seq(Conns)] /\ conn \in [Conns -> ConnStates]
      /\ connJob \in [Conns -> Jobs \cup {NoJob}] /\ connSlot \in [Conns -> Sources \cup {Nil}]
      /\ srcJob \in [Sources -> Jobs \cup {NoJob}]
      /\ srcState \in [Sources -> {"Free", "Wait", "Run"}]
    BY DEF TypeOK, ChannelsTypeOK, BrokerTypeOK, SrcTypeOK, ResolverTypeOK
<1>2. /\ Agreed(s) /\ Books(s) /\ ReadersWait(s)
    BY DEF AllAgreed, SlotInv, AllReadersWait
<1> DEFINE Grantless == \A k \in 1..Len(srcOut[s]) : srcOut[s][k].type # "Acquired"
           Userless == \A c \in Conns : ~(Open(c) /\ connSlot[c] = s)
           SameConns == UNCHANGED <<conn, connSlot, connJob, readers>>
           Goal == Agreed(s)'
<1>3. srcState[s] # "Run" => Grantless /\ Userless
    BY NotRunning
<1>9. \A i \in 1..Len(readers[s]) : readers[s][i] \in Conns /\ conn[readers[s][i]] = "reading"
    BY <1>1, <1>2 DEF ReadersWait
<1> USE DEF Agreed, Open
<1>4. CASE /\ SameConns /\ srcJob'[s] = srcJob[s]
           /\ srcState'[s] = "Wait" => srcState[s] = "Wait"
           /\ srcIn'[s] = srcIn[s] /\ srcOut'[s] = srcOut[s]
    BY <1>2, <1>4
<1>5. ASSUME Run, SameConns PROVE Goal
  <2>1. CASE HandleRelease \/ HandleAcquire
    <3>1. /\ at \in Sources /\ srcIn[at] # <<>> /\ srcIn' = [srcIn EXCEPT ![at] = Tail(@)]
          /\ srcOut' = srcOut
      BY <1>1, <2>1, AtFacts DEF HandleRelease, HandleAcquire
    <3>2. CASE at # s
      BY <1>1, <1>4, <1>5, <2>1, <3>1, <3>2 DEF HandleRelease, HandleAcquire
    <3>3. CASE at = s
      <4>1. srcIn[s] # <<>> /\ srcIn'[s] = Tail(srcIn[s]) /\ srcIn[s] \in Seq(Request)
        BY <1>1, <3>1, <3>3
      <4>2. ASSUME NEW k \in 1..Len(Tail(srcIn[s]))
            PROVE  k + 1 \in 1..Len(srcIn[s]) /\ Tail(srcIn[s])[k] = srcIn[s][k + 1]
        BY <4>1, AllOfTail
      <4>3. 1 \in 1..Len(srcIn[s]) /\ Head(srcIn[s]) = srcIn[s][1]
        BY <4>1
      <4>4. CASE HandleRelease
        <5>1. srcJob' = srcJob /\ srcState'[s] = "Free"
          BY <1>1, <3>3, <4>4 DEF HandleRelease
        <5> QED
          BY <1>2, <1>5, <3>1, <4>1, <4>2, <5>1
      <4>5. CASE HandleAcquire
        <5>1. /\ srcJob'[s] = Head(srcIn[s]).job /\ srcIn[s][1].type = "Acquire"
              /\ srcState'[s] = "Wait"
          BY <1>1, <3>3, <4>3, <4>5 DEF HandleAcquire
        <5>2. srcState[s] # "Run"
          <6>1. srcIn[s][1] \in AcquireKind
            BY <4>1, <4>3, <5>1, RequestKinds
          <6>2. Occurrences(srcIn[s], AcquireKind) # 0
            BY <4>1, <4>3, <6>1, CountHead
          <6>3. Acquires(s) # 0
            BY <1>1, <6>2, CountsAre
          <6> QED
            BY <1>2, <6>3 DEF Books, Placed
        <5>3. Grantless /\ Userless
          BY <1>3, <5>2
        <5>4. \A i \in 1..Len(readers[s]) : i = Len(readers[s]) => srcJob'[s] = connJob[readers[s][i]]
          BY <1>2, <4>3, <5>1
        <5> QED
          BY <1>2, <1>5, <3>1, <4>1, <4>2, <5>3, <5>4
      <4> QED
        BY <2>1, <4>4, <4>5
    <3> QED
      BY <3>2, <3>3
  <2>2. CASE SendRefusal
    <3>1. /\ refusal[2] \in Sources /\ srcOut' = [srcOut EXCEPT ![refusal[2]] = Append(@, Refused)]
          /\ refusal[1] # "none" /\ srcState' = srcState /\ srcJob' = srcJob /\ srcIn' = srcIn
      BY <1>1, <2>2 DEF SendRefusal, LoopTypeOK, srcVars
    <3>2. CASE refusal[2] = s
      <4>1. Grantless /\ Userless
        BY <1>3, <3>1, <3>2 DEF SlotInv, RefusedFree
      <4>2. srcOut'[s] = Append(srcOut[s], Refused) /\ srcOut[s] \in Seq(Reply)
        BY <1>1, <3>1, <3>2
      <4>3. Refused \in Reply /\ Refused.type # "Acquired"
        BY MessageFacts DEF Refused
      <4>4. \A k \in 1..Len(srcOut'[s]) : srcOut'[s][k].type # "Acquired"
        BY <4>1, <4>2, <4>3, AllOfAppend
      <4> QED
        BY <1>2, <1>5, <3>1, <4>1, <4>4
    <3>3. CASE refusal[2] # s
      BY <1>1, <1>4, <1>5, <3>1, <3>3
    <3> QED
      BY <3>2, <3>3
  <2>3. CASE Link
    <3>1. PICK t \in First(ToLink) :
            /\ srcState' = [srcState EXCEPT ![at] = "Run"]
            /\ srcOut' = [srcOut EXCEPT ![at] = Append(@, Acquired(tgtRef[t]))]
      BY <2>3 DEF Link
    <3>2. /\ at \in Sources /\ srcState[at] = "Wait" /\ srcJob' = srcJob /\ srcIn' = srcIn
      BY <2>3, LinksWaiting DEF SlotInv, Link
    <3>3. CASE at = s
      <4>1. Grantless /\ Userless
        BY <1>3, <3>2, <3>3
      <4>2. tgtRef[t] \in Targets \cup {Nil}
        BY <1>1 DEF First, ToLink, Matches, BrokerTypeOK, TgtTypeOK
      <4> DEFINE m == Acquired(tgtRef[t])
      <4>3. m \in Reply /\ srcOut'[s] = Append(srcOut[s], m) /\ srcOut[s] \in Seq(Reply)
        BY <1>1, <3>1, <3>2, <3>3, <4>2, MessageFacts
      <4> HIDE DEF m
      <4>4. \A k \in 1..Len(srcOut'[s]) : srcOut'[s][k].type = "Acquired" => k = Len(srcOut'[s])
        <5>1. Len(Append(srcOut[s], m)) = Len(srcOut[s]) + 1
          BY <4>3
        <5>2. ASSUME NEW k \in 1..Len(Append(srcOut[s], m))
              PROVE  \/ k \in 1..Len(srcOut[s]) /\ Append(srcOut[s], m)[k] = srcOut[s][k]
                     \/ k = Len(srcOut[s]) + 1
          BY <4>3, AllOfAppend
        <5> QED
          BY <4>1, <4>3, <5>1, <5>2
      <4>5. srcState'[s] # "Wait"
        BY <1>1, <3>1, <3>3
      <4> QED
        BY <1>2, <1>5, <3>2, <3>3, <4>1, <4>4, <4>5
    <3>4. CASE at # s
      BY <1>1, <1>4, <1>5, <3>1, <3>2, <3>4
    <3> QED
      BY <3>3, <3>4
  <2>4. CASE StartContainer \/ StartCopy
    <3>1. PICK t \in Targets, r \in Sources : StartFor(t, r) /\ srcState[r] = "Wait"
      BY <1>1, <2>4, StartSteps
    <3> QED
      BY <1>1, <1>4, <1>5, <3>1 DEF StartFor
  <2>5. CASE RefuseWaiting
    BY <1>1, <1>4, <1>5, <2>5 DEF RefuseWaiting, channels
  <2>6. CASE UNCHANGED <<srcIn, srcOut, srcState, srcJob>>
    BY <1>4, <1>5, <2>6
  <2> QED
    BY <1>5, <2>1, <2>2, <2>3, <2>4, <2>5, <2>6 DEF Run, QueueRefused, SkipSource, SkipTarget,
        HandleStarted, HandleFree, HandleError, ClearFailed, LinkNext, StartNone, CopyNone, Sweep,
        Sleep, srcVars, channels
<1>6. ASSUME NEW c \in Conns, ConnStep(c) \/ Reaccept(c) PROVE Goal
  <2>1. srcState' = srcState /\ srcJob' = srcJob
    BY <1>6 DEF ConnStep, Reaccept, brokerVars, srcVars
  <2>2. ASSUME \A d \in Conns \ {c} : conn'[d] = conn[d] /\ connSlot'[d] = connSlot[d] /\ connJob'[d] = connJob[d],
               conn[c] # "reading", conn'[c] # "open", readers'[s] = readers[s], srcIn'[s] = srcIn[s],
               srcOut'[s] = srcOut[s]
        PROVE  Goal
    <3>1. \A i \in 1..Len(readers[s]) : readers[s][i] \in Conns \ {c}
      BY <1>9, <2>2
    <3>2. \A i \in 1..Len(readers[s]) : connJob'[readers[s][i]] = connJob[readers[s][i]]
      BY <2>2, <3>1
    <3>3. \A d \in Conns : conn'[d] = "open" =>
              conn[d] = "open" /\ connSlot'[d] = connSlot[d] /\ connJob'[d] = connJob[d]
      BY <2>2
    <3> QED
      BY <1>2, <2>1, <2>2, <3>2, <3>3
  <2>3. CASE RequestSlot(c)
    <3> DEFINE r == Head(freeSourceSlots)
    <3>1. PICK j \in Jobs :
            /\ srcIn' = [srcIn EXCEPT ![r] = Append(@, Acquire(j))]
            /\ connJob' = [connJob EXCEPT ![c] = j]
            /\ connSlot' = [connSlot EXCEPT ![c] = r] /\ conn' = [conn EXCEPT ![c] = "reading"]
            /\ readers' = [readers EXCEPT ![r] = Append(@, c)]
      BY <2>3 DEF RequestSlot
    <3>2. r \in Sources /\ conn[c] = "idle" /\ srcOut' = srcOut
      BY <2>3, SlotTaken DEF RequestSlot
    <3>3. r = s => Queued(s) = 1
      BY <1>2, <2>3, SlotTaken DEF Books, Placed
    <3> HIDE DEF r
    <3>4. CASE r = s
      <4>1. srcState[s] = "Free" /\ Acquires(s) = 0
        BY <1>2, <3>3, <3>4 DEF Books, Placed
      <4>2. Grantless /\ Userless
        BY <1>3, <4>1
      <4>3. readers'[s] = Append(readers[s], c) /\ readers[s] \in Seq(Conns)
        BY <1>1, <3>1, <3>4
      <4>4. Len(Append(readers[s], c)) = Len(readers[s]) + 1 /\ Append(readers[s], c)[Len(readers[s]) + 1] = c
        BY <4>3
      <4>5. \A i \in 1..Len(readers'[s]) : i = Len(readers'[s]) => connJob'[readers'[s][i]] = j
        BY <1>1, <3>1, <4>3, <4>4
      <4>6. \A k \in 1..Len(srcIn[s]) : srcIn[s][k].type # "Acquire"
        <5>1. Occurrences(srcIn[s], AcquireKind) = 0 /\ srcIn[s] \in Seq(Request)
          BY <1>1, <4>1, CountsAre
        <5>2. \A k \in 1..Len(srcIn[s]) : srcIn[s][k] \notin AcquireKind /\ srcIn[s][k] \in Request
          BY <5>1, CountZero
        <5> QED
          BY <5>2, RequestKinds
      <4>7. \A k \in 1..Len(srcIn'[s]) : srcIn'[s][k].type = "Acquire" => srcIn'[s][k].job = j
        <5>1. Acquire(j) \in Request /\ Acquire(j).job = j
          BY MessageFacts DEF Acquire
        <5>2. srcIn'[s] = Append(srcIn[s], Acquire(j)) /\ srcIn[s] \in Seq(Request)
          BY <1>1, <3>1, <3>4
        <5> QED
          BY <4>6, <5>1, <5>2, AllOfAppend
      <4>8. \A d \in Conns : conn'[d] = "open" => conn[d] = "open" /\ connSlot'[d] = connSlot[d]
        BY <1>1, <3>1
      <4> QED
        BY <2>1, <3>2, <4>1, <4>2, <4>5, <4>7, <4>8
    <3>5. CASE r # s
      BY <1>1, <2>2, <3>1, <3>2, <3>5
    <3> QED
      BY <3>4, <3>5
  <2>4. CASE ReadReply(c)
    <3> DEFINE r == connSlot[c]
    <3>1. /\ r \in Sources /\ srcOut[r] # <<>> /\ srcOut' = [srcOut EXCEPT ![r] = Tail(@)]
          /\ conn' = [conn EXCEPT ![c] = IF Head(srcOut[r]).type = "Acquired" THEN "open" ELSE "closed"]
          /\ readers[r] # <<>> /\ Head(readers[r]) = c
          /\ readers' = [readers EXCEPT ![r] = Tail(@)]
          /\ UNCHANGED <<connSlot, connJob, srcIn>>
      BY <1>1, <2>4 DEF ReadReply, ResolverTypeOK
    <3>2. \A d \in Conns \ {c} : conn'[d] = conn[d]
      BY <1>1, <3>1
    <3>3. CASE r # s
      <4>1. readers'[s] = readers[s] /\ srcOut'[s] = srcOut[s] /\ connSlot[c] # s
        BY <1>1, <3>1, <3>3
      <4> QED
        BY <1>2, <2>1, <3>1, <3>2, <4>1
    <3>4. CASE r = s
      <4>1. /\ srcOut'[s] = Tail(srcOut[s]) /\ srcOut[s] # <<>> /\ srcOut[s] \in Seq(Reply)
            /\ readers'[s] = Tail(readers[s]) /\ readers[s] # <<>> /\ readers[s] \in Seq(Conns)
            /\ Head(readers[s]) = c
        BY <1>1, <3>1, <3>4
      <4>2. Len(Tail(srcOut[s])) = Len(srcOut[s]) - 1 /\ Len(Tail(readers[s])) = Len(readers[s]) - 1
        BY <4>1
      <4>3. ASSUME NEW k \in 1..Len(Tail(srcOut[s]))
            PROVE  k + 1 \in 1..Len(srcOut[s]) /\ Tail(srcOut[s])[k] = srcOut[s][k + 1]
        BY <4>1, AllOfTail
      <4>4. ASSUME NEW i \in 1..Len(Tail(readers[s]))
            PROVE  i + 1 \in 1..Len(readers[s]) /\ Tail(readers[s])[i] = readers[s][i + 1]
        BY <4>1, AllOfTail
      <4>5. \A k \in 1..Len(srcOut'[s]) : srcOut'[s][k].type = "Acquired" => k = Len(srcOut'[s])
        BY <1>2, <4>1, <4>2, <4>3
      <4>6. \A i \in 1..Len(readers'[s]) : i = Len(readers'[s]) =>
              /\ \A k \in 1..Len(srcIn[s]) :
                    srcIn[s][k].type = "Acquire" => srcIn[s][k].job = connJob[readers'[s][i]]
              /\ srcState[s] = "Wait" \/ (\E k \in 1..Len(srcOut'[s]) : srcOut'[s][k].type = "Acquired")
                    => srcJob[s] = connJob[readers'[s][i]]
        BY <1>2, <4>1, <4>2, <4>3, <4>4
      <4>7. conn'[c] = "open" => connJob[c] = srcJob[s]
        <5> SUFFICES ASSUME conn'[c] = "open" PROVE connJob[c] = srcJob[s]
          OBVIOUS
        <5>1. Head(srcOut[s]).type = "Acquired"
          BY <1>1, <3>1, <3>4
        <5>2. Len(readers[s]) = 1
          BY <4>1, <5>1, GrantRuns
        <5>3. 1 \in 1..Len(readers[s]) /\ readers[s][1] = c
          BY <4>1, <5>2
        <5>4. 1 \in 1..Len(srcOut[s]) /\ srcOut[s][1].type = "Acquired"
          BY <4>1, <5>1
        <5> QED
          BY <1>2, <5>2, <5>3, <5>4
      <4> QED
        BY <1>2, <2>1, <3>1, <3>2, <4>5, <4>6, <4>7
    <3> QED
      BY <3>3, <3>4
  <2>5. CASE Close(c)
    <3>1. /\ connSlot[c] \in Sources /\ srcOut' = srcOut /\ readers' = readers /\ connJob' = connJob
          /\ connSlot' = connSlot /\ conn' = [conn EXCEPT ![c] = "closed"] /\ conn[c] = "open"
          /\ srcIn' = [srcIn EXCEPT ![connSlot[c]] = Append(@, Release(FALSE))]
      BY <1>1, <2>5 DEF Close, ResolverTypeOK
    <3>2. \A d \in Conns : conn'[d] = "open" => conn[d] = "open"
      BY <1>1, <3>1
    <3>3. ASSUME NEW k \in 1..Len(srcIn'[s]), srcIn'[s][k].type = "Acquire"
          PROVE  k \in 1..Len(srcIn[s]) /\ srcIn'[s][k] = srcIn[s][k]
      <4>1. Release(FALSE) \in Request /\ Release(FALSE).type # "Acquire"
        BY MessageFacts DEF Release
      <4>2. CASE connSlot[c] = s
        <5> DEFINE m == Release(FALSE)
        <5>1. /\ srcIn'[s] = Append(srcIn[s], m) /\ srcIn[s] \in Seq(Request)
              /\ m \in Request /\ m.type # "Acquire"
          BY <1>1, <3>1, <4>1, <4>2
        <5> HIDE DEF m
        <5>2. \/ k \in 1..Len(srcIn[s]) /\ Append(srcIn[s], m)[k] = srcIn[s][k]
              \/ k = Len(srcIn[s]) + 1 /\ Append(srcIn[s], m)[k] = m
          BY <5>1, AllOfAppend
        <5> QED
          BY <3>3, <5>1, <5>2
      <4>3. CASE connSlot[c] # s
        <5>1. srcIn'[s] = srcIn[s]
          BY <1>1, <3>1, <4>3
        <5> QED
          BY <3>3, <5>1
      <4> QED
        BY <4>2, <4>3
    <3>4. ASSUME NEW i \in 1..Len(readers[s]), i = Len(readers[s]),
                 NEW k \in 1..Len(srcIn'[s]), srcIn'[s][k].type = "Acquire"
          PROVE  srcIn'[s][k].job = connJob[readers[s][i]]
      BY <1>2, <3>3, <3>4
    <3>5. \A i \in 1..Len(readers'[s]) : i = Len(readers'[s]) =>
            /\ \A k \in 1..Len(srcIn'[s]) :
                  srcIn'[s][k].type = "Acquire" => srcIn'[s][k].job = connJob'[readers'[s][i]]
            /\ srcState'[s] = "Wait" \/ (\E k \in 1..Len(srcOut'[s]) : srcOut'[s][k].type = "Acquired")
                  => srcJob'[s] = connJob'[readers'[s][i]]
      <4>1. \A i \in 1..Len(readers[s]) : i = Len(readers[s]) =>
              (srcState[s] = "Wait" \/ (\E k \in 1..Len(srcOut[s]) : srcOut[s][k].type = "Acquired")
                  => srcJob[s] = connJob[readers[s][i]])
        BY <1>2
      <4> QED
        BY <2>1, <3>1, <3>4, <4>1
    <3>6. \A k \in 1..Len(srcOut'[s]) : srcOut'[s][k].type = "Acquired" => k = Len(srcOut'[s])
      BY <1>2, <3>1
    <3>7. \A d \in Conns : conn'[d] = "open" /\ connSlot'[d] = s => connJob'[d] = srcJob'[s]
      BY <1>2, <2>1, <3>1, <3>2
    <3> QED
      BY <3>5, <3>6, <3>7
  <2>6. CASE Accept(c)
    BY <1>1, <2>2, <2>6 DEF Accept, channels
  <2> QED
    BY <1>6, <2>3, <2>4, <2>5, <2>6 DEF ConnStep, Reaccept, Ask, CallRead, NobodySent
<1>7. ASSUME NEW t \in Targets, Runner(t) \/ ContainerExit(t) PROVE Goal
  <2>1. UNCHANGED <<srcIn, srcOut, srcState, srcJob, conn, connSlot, connJob, readers>>
    BY <1>7 DEF Runner, RunnerStep, Register, ReadStart, KillOld, Launch, StartFails, Ready,
        NotReady, ContainerExit, Exit, RunnerOnly, brokerVars, srcVars, connVars, channels
  <2> QED
    BY <1>4, <2>1
<1>8. CASE UNCHANGED vars
    BY <1>4, <1>8 DEF vars, channels, brokerVars, srcVars, connVars
<1> QED
    BY <1>5, <1>6, <1>7, <1>8 DEF Next, BrokerStep, connVars

AskInv == NobodySent /\ AllReadersWait /\ AllAgreed

\* So it always is, without late readers and twins.
LEMMA AskInvariant == "LateRead" \notin Env => (Spec /\ []NoTwins => []AskInv)
<1> SUFFICES ASSUME "LateRead" \notin Env PROVE Spec /\ []NoTwins => []AskInv
    OBVIOUS
<1>1. SlotInv /\ Init => AskInv
  <2> SUFFICES ASSUME SlotInv, Init PROVE AskInv
    OBVIOUS
  <2>1. /\ \A c \in Conns : conn[c] = "idle"
        /\ \A s \in Sources : readers[s] = <<>> /\ srcOut[s] = <<>>
    BY DEF Init, ChannelsInit, ResolverInit
  <2>2. NobodySent /\ AllAgreed
    BY <2>1 DEF NobodySent, AllAgreed, Agreed, Open
  <2>3. ASSUME NEW s \in Sources PROVE ReadersWait(s)
    <3>1. WaitingOn(s) = {}
      BY <2>1 DEF WaitingOn
    <3>2. Waiters(s) = 0
      BY <3>1, FS_EmptySet DEF Waiters
    <3> QED
      BY <2>1, <3>2 DEF ReadersWait
  <2> QED
    BY <2>2, <2>3 DEF AskInv, AllReadersWait
<1>2. TypeOK /\ SlotInv /\ AskInv /\ [Next]_vars => AskInv'
  <2> SUFFICES ASSUME TypeOK, SlotInv, AskInv, [Next]_vars PROVE AskInv'
    OBVIOUS
  <2>1. NobodySent'
    BY NobodySentStep DEF AskInv
  <2>2. AllReadersWait'
    BY ReadersWaitStep DEF AskInv, AllReadersWait, SlotInv
  <2>3. AllAgreed'
    BY AgreedStep DEF AskInv, AllAgreed
  <2> QED
    BY <2>1, <2>2, <2>3 DEF AskInv
<1> QED
    BY <1>1, <1>2, TypeCorrect, SlotInvariant, PTL DEF Spec

-----------------------------------------------------------------------------
(***************************************************************************)
(* What a client that is served can rely on, when no client comes too      *)
(* early, stays too long or is slow to read: the traces of exclusive_pool, *)
(* reply_stolen and worker_connected show that each hypothesis is needed.  *)
(***************************************************************************)
Orderly == Prompt /\ "LateRead" \notin Env

\* No worker job is of the type of a job that is none.
WorkersApart == \A j \in Jobs \ WorkerJobs, w \in WorkerJobs : TypeOf[j] # TypeOf[w]

ClientInv == AddressInv /\ LinkInv /\ SlotInv /\ ClientsPlaced /\ ImagesTrue /\ AskInv

\* The parts of ClientInv, together.
LEMMA ClientInvariant == Orderly => (Spec /\ []NoTwins => []ClientInv)
<1> SUFFICES ASSUME Prompt, "LateRead" \notin Env PROVE Spec /\ []NoTwins => []ClientInv
    BY DEF Orderly
<1> QED
    BY AddressInvariant, LinkInvariant, SlotInvariant, PlacementInvariant, ImagesInvariant,
       AskInvariant, PTL DEF ClientInv

\* A client that is served is on a target labelled with the type it asked for.
LEMMA ServedOwnType ==
    ASSUME TypeOK, ClientInv, NEW c \in Conns, Open(c)
    PROVE  /\ connJob[c] \in Jobs /\ connAddress[c] \in Targets
           /\ tgtState[connAddress[c]] = "Run"
           /\ tgtType[connAddress[c]] = TypeOf[connJob[c]]
           /\ tgtType[connAddress[c]] = SrcType(connSlot[c])
<1>1. /\ connSlot[c] \in Sources /\ srcState[connSlot[c]] = "Run" /\ connAddress[c] \in Targets
      /\ tgtState[connAddress[c]] = "Run" /\ tgtType[connAddress[c]] = SrcType(connSlot[c])
    BY ClientThere DEF ClientInv, LinkInv
<1>2. srcJob[connSlot[c]] \in Jobs
    BY <1>1 DEF ClientInv, AddressInv, JobKnown
<1>3. connJob[c] = srcJob[connSlot[c]]
    BY <1>1 DEF ClientInv, AskInv, AllAgreed, Agreed
<1>4. SrcType(connSlot[c]) = TypeOf[connJob[c]]
    BY <1>2, <1>3, SlotsAssumption DEF SrcType, SlotTypeOf
<1> QED
    BY <1>1, <1>2, <1>3, <1>4

\* The container there is one of that type, and no worker.
LEMMA ServedOwnImage ==
    ASSUME TypeOK, ClientInv, NEW c \in Conns, Open(c)
    PROVE  /\ container[connAddress[c]] # NoJob =>
                /\ container[connAddress[c]] \in Jobs
                /\ TypeOf[container[connAddress[c]]] = TypeOf[connJob[c]]
           /\ WorkersApart => connJob[c] \notin WorkerJobs
<1> DEFINE t == connAddress[c]
<1>1. /\ t \in Targets /\ connJob[c] \in Jobs /\ tgtType[t] = TypeOf[connJob[c]]
      /\ tgtState[t] = "Run"
    BY ServedOwnType
<1> HIDE DEF t
<1>2. ReadyHere(t) /\ Imaged(t)
    BY <1>1, SlotsAssumption DEF ClientInv, ImagesTrue, ReadyHere
<1>3. /\ container[t] \in {runnerJob[t], NoJob} /\ runnerJob[t] \in Jobs \ WorkerJobs
      /\ TypeOf[runnerJob[t]] = TypeOf[connJob[c]]
    BY <1>1, <1>2 DEF Imaged
<1> QED
    BY <1>1, <1>3 DEF t, WorkersApart

\* Two clients on one target are both there for its y type.
LEMMA ServedTogether ==
    ASSUME TypeOK, ClientInv, NEW b \in Conns, NEW c \in Conns, Open(b), Open(c),
           connAddress[b] = connAddress[c], b # c
    PROVE  TypeOf[connJob[b]] = TypeOf[connJob[c]] /\ YType(TypeOf[connJob[c]])
<1>1. /\ TypeOf[connJob[b]] = TypeOf[connJob[c]] /\ TypeOf[connJob[c]] = SrcType(connSlot[c])
    BY ServedOwnType
<1>2. /\ connSlot[b] \in Sources /\ srcState[connSlot[b]] = "Run"
      /\ connSlot[c] \in Sources /\ srcState[connSlot[c]] = "Run"
      /\ connSlot[b] # connSlot[c]
    BY OneUser DEF ClientInv
<1>3. srcOpposite[connSlot[b]] = srcOpposite[connSlot[c]]
    BY <1>2 DEF ClientInv, ClientsPlaced, Placement
<1>4. Apart(connSlot[b], connSlot[c])
    BY <1>2, LinkSoundIs DEF ClientInv, AddressInv, LinkInv
<1> QED
    BY <1>1, <1>2, <1>3, <1>4 DEF Apart

\* Two connections are never on the same container at once, unless both asked for
\* a y type, as long as the linking loop finds no second target for a source.
LEMMA ApartUnlessTwins == Orderly => (Spec /\ []NoTwins => []ExclusiveContainer)
<1> SUFFICES ASSUME Orderly PROVE Spec /\ []NoTwins => []ExclusiveContainer
    OBVIOUS
<1>1. TypeOK /\ ClientInv => ExclusiveContainer
    BY ServedTogether DEF ExclusiveContainer
<1> QED
    BY <1>1, TypeCorrect, ClientInvariant, PTL

\* With one container, x-type jobs are executed one at a time on it, however many jobs
\* of however many images, shared ones and workers included, are queued for it
\* (README.md:46).  With two, exclusive_pool shows that they are not.
THEOREM OneJobAtATime == Orderly /\ NumTargets = 1 => (Spec => []ExclusiveContainer)
<1> SUFFICES ASSUME Orderly, NumTargets = 1 PROVE Spec => []ExclusiveContainer
    OBVIOUS
<1> QED
    BY ApartUnlessTwins, NoTwinsFor, PTL

\* As long as there are no twins, a client is never connected to a container of another
\* image than its own.
THEOREM OwnImageOnly == Orderly => (Spec /\ []NoTwins => []RightImage)
<1> SUFFICES ASSUME Orderly PROVE Spec /\ []NoTwins => []RightImage
    OBVIOUS
<1>1. TypeOK /\ ClientInv => RightImage
    BY ServedOwnImage DEF RightImage
<1> QED
    BY <1>1, TypeCorrect, ClientInvariant, PTL

\* As long as there are no twins, and no other job has a worker's image, a call for a
\* worker never becomes a connection to a container.
THEOREM WorkersNotConnected ==
    Orderly /\ WorkersApart => (Spec /\ []NoTwins => []WorkerNeverConnected)
<1> SUFFICES ASSUME Orderly, WorkersApart PROVE Spec /\ []NoTwins => []WorkerNeverConnected
    OBVIOUS
<1>1. TypeOK /\ ClientInv => WorkerNeverConnected
    BY ServedOwnImage DEF WorkerNeverConnected
<1> QED
    BY <1>1, TypeCorrect, ClientInvariant, PTL

-----------------------------------------------------------------------------
(***************************************************************************)
(* The program implements ContainerService, but for its fairness: a client *)
(* that takes a slot asks, one that reads a reply is granted a place or    *)
(* turned away, and the runners change what runs in the places nobody      *)
(* uses.  Every other step changes nothing a client sees.                  *)
(***************************************************************************)
Look(state) ==
    IF state \in {"sent", "reading"} THEN "waiting"
    ELSE IF state = "open" THEN "served" ELSE IF state = "closed" THEN "gone" ELSE "idle"

Place == [c \in Conns |-> IF conn[c] = "open" THEN connAddress[c] ELSE Nil]
Image == [t \in Targets |-> SlotTypeOf(container[t])]

\* What a client sees, by Look.
LEMMA SeenIs ==
    conn \in [Conns -> ConnStates] => Seen = [c \in Conns |-> Look(conn[c])]
BY DEF Seen, Look, ConnStates

\* The same after a step.
LEMMA SeenNext ==
    conn' \in [Conns -> ConnStates] => Seen' = [c \in Conns |-> Look(conn'[c])]
<1>1. (conn \in [Conns -> ConnStates] => Seen = [c \in Conns |-> Look(conn[c])])'
    BY SeenIs, PTL
<1> QED
    BY <1>1 DEF Look

\* What a client sees when connection c goes on.
LEMMA SeenStep ==
    ASSUME conn \in [Conns -> ConnStates], NEW c \in Conns, NEW state \in ConnStates,
           conn' = [conn EXCEPT ![c] = state]
    PROVE  Seen' = [Seen EXCEPT ![c] = Look(state)] /\ Seen[c] = Look(conn[c])
<1>1. conn' \in [Conns -> ConnStates]
    OBVIOUS
<1> QED
    BY <1>1, SeenIs, SeenNext

\* What ServedOwnType, ServedOwnImage and ServedTogether say, of all who are served.
ServedRight ==
    \A c \in Conns : Open(c) =>
        /\ connJob[c] \in Jobs \ WorkerJobs /\ connAddress[c] \in Targets
        /\ tgtState[connAddress[c]] = "Run"
        /\ SlotTypeOf(container[connAddress[c]]) \in {TypeOf[connJob[c]], NoType}
        /\ \A b \in Conns \ {c} : Open(b) /\ connAddress[b] = connAddress[c] =>
              TypeOf[connJob[b]] = TypeOf[connJob[c]] /\ YType(TypeOf[connJob[c]])

\* ClientInv says so.
LEMMA ServedRightIs == WorkersApart => (TypeOK /\ ClientInv => ServedRight)
<1> SUFFICES ASSUME WorkersApart, TypeOK, ClientInv, NEW c \in Conns, Open(c)
             PROVE  /\ connJob[c] \in Jobs \ WorkerJobs /\ connAddress[c] \in Targets
                    /\ tgtState[connAddress[c]] = "Run"
                    /\ SlotTypeOf(container[connAddress[c]]) \in {TypeOf[connJob[c]], NoType}
                    /\ \A b \in Conns \ {c} : Open(b) /\ connAddress[b] = connAddress[c] =>
                          TypeOf[connJob[b]] = TypeOf[connJob[c]] /\ YType(TypeOf[connJob[c]])
    BY DEF ServedRight
<1>1. SlotTypeOf(container[connAddress[c]]) \in {TypeOf[connJob[c]], NoType}
    BY ServedOwnImage DEF SlotTypeOf
<1>2. connJob[c] \in Jobs \ WorkerJobs /\ connAddress[c] \in Targets /\ tgtState[connAddress[c]] = "Run"
    BY ServedOwnType, ServedOwnImage
<1>3. \A b \in Conns \ {c} : Open(b) /\ connAddress[b] = connAddress[c] =>
          TypeOf[connJob[b]] = TypeOf[connJob[c]] /\ YType(TypeOf[connJob[c]])
    BY ServedTogether
<1> QED
    BY <1>1, <1>2, <1>3

\* Every step is one of the service, or is not seen.
LEMMA ServiceStep ==
    ASSUME TypeOK, TypeOK', LinkInv, ServedRight, ServedRight', [Next]_vars
    PROVE  [Service!Next]_(Service!serviceVars)
<1>1. /\ conn \in [Conns -> ConnStates] /\ connJob \in [Conns -> Jobs \cup {NoJob}]
      /\ connSlot \in [Conns -> Sources \cup {Nil}]
      /\ connAddress \in [Conns -> Targets \cup {Nil}]
      /\ container \in [Targets -> Jobs \cup {NoJob}]
      /\ runnerJob \in [Targets -> Jobs \cup {NoJob}]
      /\ srcOut \in [Sources -> Seq(Reply)]
    BY DEF TypeOK, ResolverTypeOK, RunnerTypeOK, ChannelsTypeOK
<1> DEFINE Goal == [Service!Next]_(Service!serviceVars)
<1>2. CASE UNCHANGED <<conn, connJob, connAddress, container>>
  <2>1. UNCHANGED <<Seen, connJob, Place, Image>>
    BY <1>2 DEF Seen, Place, Image
  <2> QED
    BY <2>1 DEF Service!serviceVars, Place, Image
<1>3. ASSUME NEW c \in Conns, ConnStep(c) \/ Reaccept(c) PROVE Goal
  <2>1. container' = container /\ Image' = Image
    BY <1>3 DEF ConnStep, Reaccept, runnerVars, Image
  <2>2. CASE RequestSlot(c)
    <3>1. PICK j \in Jobs, state \in {"sent", "reading"} :
            /\ connJob' = [connJob EXCEPT ![c] = j] /\ conn' = [conn EXCEPT ![c] = state]
      BY <2>2 DEF RequestSlot
    <3>2. conn[c] = "idle" /\ connAddress' = connAddress
      BY <2>2 DEF RequestSlot
    <3>3. Seen' = [Seen EXCEPT ![c] = "waiting"] /\ Seen[c] = "idle"
      BY <1>1, <3>1, <3>2, SeenStep DEF Look, ConnStates
    <3>4. Place' = Place
      BY <1>1, <3>1, <3>2 DEF Place
    <3>5. Service!Ask(c)
      BY <2>1, <3>1, <3>3, <3>4 DEF Service!Ask, Place, Image
    <3> QED
      BY <3>5 DEF Service!Next
  <2>3. CASE CallRead(c)
    <3>1. conn' = [conn EXCEPT ![c] = "reading"] /\ conn[c] = "sent"
          /\ UNCHANGED <<connJob, connAddress>>
      BY <2>3 DEF CallRead
    <3>2. Seen' = [Seen EXCEPT ![c] = "waiting"] /\ Seen[c] = "waiting"
      BY <1>1, <3>1, SeenStep DEF Look, ConnStates
    <3>3. Seen' = Seen
      BY <3>2 DEF Seen
    <3>4. Place' = Place
      BY <1>1, <3>1 DEF Place
    <3> QED
      BY <2>1, <3>1, <3>3, <3>4 DEF Service!serviceVars, Place, Image
  <2>4. CASE ReadReply(c)
    <3> DEFINE reply == Head(srcOut[connSlot[c]])
               granted == reply.type = "Acquired"
    <3>1. /\ conn[c] = "reading" /\ connJob' = connJob
          /\ conn' = [conn EXCEPT ![c] = IF granted THEN "open" ELSE "closed"]
          /\ connAddress' = [connAddress EXCEPT ![c] = reply.address]
      BY <2>4 DEF ReadReply
    <3> HIDE DEF reply, granted
    <3>2. CASE granted
      <4>1. conn' = [conn EXCEPT ![c] = "open"]
        BY <3>1, <3>2
      <4>2. Seen' = [Seen EXCEPT ![c] = "served"] /\ Seen[c] = "waiting"
        BY <1>1, <3>1, <4>1, SeenStep DEF Look, ConnStates
      <4> DEFINE p == reply.address
      <4>3. connAddress'[c] = p /\ conn'[c] = "open"
        BY <1>1, <3>1, <4>1
      <4>4. Place' = [Place EXCEPT ![c] = p]
        BY <1>1, <3>1, <4>1 DEF Place
      <4>5. /\ connJob[c] \notin WorkerJobs /\ p \in Targets
            /\ SlotTypeOf(container[p]) \in {TypeOf[connJob[c]], NoType}
            /\ \A b \in Conns \ {c} : conn'[b] = "open" /\ connAddress'[b] = p =>
                  TypeOf[connJob[b]] = TypeOf[connJob[c]] /\ YType(TypeOf[connJob[c]])
        BY <2>1, <3>1, <4>3 DEF ServedRight, Open, SlotTypeOf, YType
      <4>6. ASSUME NEW d \in Conns, Seen[d] = "served", Place[d] = p
            PROVE  TypeOf[connJob[d]] = TypeOf[connJob[c]] /\ TypeOf[connJob[c]] \in YTypes
        <5>1. d # c /\ conn[d] = "open" /\ connAddress[d] = p
          BY <1>1, <3>1, <4>6, SeenIs DEF Look, Place
        <5>2. conn'[d] = "open" /\ connAddress'[d] = p
          BY <1>1, <3>1, <4>1, <5>1
        <5> QED
          BY <4>5, <5>1, <5>2 DEF YType
      <4>7. Image[p] \in {TypeOf[connJob[c]], NoType}
        BY <4>5 DEF Image
      <4>8. Service!MayUse(c, p)
        BY <4>5, <4>6, <4>7 DEF Service!MayUse, Service!Users, Place, Image
      <4>9. Service!Grant(c)
        BY <2>1, <3>1, <4>2, <4>4, <4>5, <4>8 DEF Service!Grant, Place, Image
      <4> QED
        BY <4>9 DEF Service!Next
    <3>3. CASE ~granted
      <4>1. conn' = [conn EXCEPT ![c] = "closed"]
        BY <3>1, <3>3
      <4>2. Seen' = [Seen EXCEPT ![c] = "gone"] /\ Seen[c] = "waiting"
        BY <1>1, <3>1, <4>1, SeenStep DEF Look, ConnStates
      <4>3. Place' = Place
        BY <1>1, <3>1, <4>1 DEF Place
      <4>4. Service!TurnAway(c)
        BY <2>1, <3>1, <4>2, <4>3 DEF Service!TurnAway, Place, Image
      <4> QED
        BY <4>4 DEF Service!Next
    <3> QED
      BY <3>2, <3>3
  <2>5. CASE Close(c)
    <3>1. /\ conn[c] = "open" /\ conn' = [conn EXCEPT ![c] = "closed"] /\ connJob' = connJob
          /\ connAddress' = [connAddress EXCEPT ![c] = Nil]
      BY <2>5 DEF Close
    <3>2. Seen' = [Seen EXCEPT ![c] = "gone"] /\ Seen[c] = "served"
      BY <1>1, <3>1, SeenStep DEF Look, ConnStates
    <3>3. Place' = [Place EXCEPT ![c] = Nil]
      BY <1>1, <3>1 DEF Place
    <3>4. Service!Leave(c)
      BY <2>1, <3>1, <3>2, <3>3 DEF Service!Leave, Place, Image
    <3> QED
      BY <3>4 DEF Service!Next
  <2>6. CASE Accept(c)
    <3>1. /\ conn[c] = "closed" /\ conn' = [conn EXCEPT ![c] = "idle"]
          /\ connJob' = [connJob EXCEPT ![c] = NoJob] /\ connAddress' = connAddress
      BY <2>6 DEF Accept
    <3>2. Seen' = [Seen EXCEPT ![c] = "idle"] /\ Seen[c] = "gone"
      BY <1>1, <3>1, SeenStep DEF Look, ConnStates
    <3>3. Place' = Place
      BY <1>1, <3>1 DEF Place
    <3>4. Service!Return(c)
      BY <2>1, <3>1, <3>2, <3>3 DEF Service!Return, Place, Image
    <3> QED
      BY <3>4 DEF Service!Next
  <2> QED
    BY <1>3, <2>2, <2>3, <2>4, <2>5, <2>6 DEF ConnStep, Reaccept, Ask
<1>4. ASSUME NEW t \in Targets, Runner(t) \/ ContainerExit(t) PROVE Goal
  <2>1. UNCHANGED <<Seen, connJob, Place>> /\ UNCHANGED <<conn, connJob, connAddress>>
    <3>1. conn' = conn /\ connJob' = connJob /\ connAddress' = connAddress
      BY <1>4 DEF Runner, ContainerExit, connVars
    <3>2. Seen' = Seen
      BY <3>1 DEF Seen
    <3>3. Place' = Place
      BY <3>1 DEF Place
    <3> QED
      BY <3>1, <3>2, <3>3
  <2>2. CASE container' = container
    BY <1>2, <2>1, <2>2
  <2>3. CASE container' = [container EXCEPT ![t] = NoJob] /\ container[t] # NoJob
    <3>1. Image[t] # NoType
      BY <1>1, <2>3, SlotsAssumption DEF Image, SlotTypeOf
    <3>2. Image' = [Image EXCEPT ![t] = NoType]
      BY <1>1, <2>3 DEF Image, SlotTypeOf
    <3>3. Service!Vanish(t)
      BY <2>1, <3>1, <3>2 DEF Service!Vanish, Place, Image
    <3> QED
      BY <3>3 DEF Service!Next
  <2>4. CASE Launch(t)
    <3>1. runner[t] = "launch" /\ container' = [container EXCEPT ![t] = runnerJob[t]]
          /\ runnerJob[t] \in Jobs
      BY <2>4 DEF Launch, TypeOK, RunnerTypeOK
    <3>2. TypeOf[runnerJob[t]] \in SlotTypes /\ runnerJob[t] # NoJob
      BY <3>1, SlotsAssumption
    <3>3. Image' = [Image EXCEPT ![t] = TypeOf[runnerJob[t]]]
      BY <1>1, <3>1, <3>2 DEF Image, SlotTypeOf
    <3>4. tgtState[t] = "Starting"
      <4>1. Balanced /\ Busy(t)
        BY <3>1, DisciplineIs DEF LinkInv, TypeOK, Busy
      <4> QED
        BY <4>1 DEF Balanced, NothingOnTheWay
    <3>5. ASSUME NEW d \in Conns, Seen[d] = "served", Place[d] = t PROVE FALSE
      <4>1. conn[d] = "open" /\ connAddress[d] = t
        BY <1>1, <3>5, SeenIs DEF Look, Place
      <4> QED
        BY <3>4, <4>1 DEF ServedRight, Open
    <3>6. Service!Users(t) = {}
      BY <3>5 DEF Service!Users, Place
    <3>7. Service!Replace(t)
      BY <2>1, <3>2, <3>3, <3>6 DEF Service!Replace, Place, Image
    <3> QED
      BY <3>7 DEF Service!Next
  <2>5. CASE KillOld(t) \/ ContainerExit(t)
    <3>1. container' = [container EXCEPT ![t] = NoJob]
      BY <2>5 DEF KillOld, ContainerExit, Exit
    <3>2. container[t] = NoJob => container' = container
      BY <1>1, <3>1
    <3> QED
      BY <2>2, <2>3, <3>1, <3>2
  <2> QED
    BY <1>4, <2>2, <2>4, <2>5 DEF Runner, RunnerStep, Register, ReadStart, StartFails, Ready, NotReady
<1>5. UNCHANGED <<conn, connJob, connAddress, container>>
      \/ (\E c \in Conns : ConnStep(c) \/ Reaccept(c))
      \/ (\E t \in Targets : Runner(t) \/ ContainerExit(t))
    BY DEF Next, vars, BrokerStep, connVars, runnerVars
<1> QED
    BY <1>2, <1>3, <1>4, <1>5

\* At first nobody is served, and the places have what was left there.
LEMMA ServiceInit == Init => Service!Init
<1> SUFFICES ASSUME Init PROVE Service!Init
    OBVIOUS
<1>1. /\ conn = [c \in Conns |-> "idle"] /\ connJob = [c \in Conns |-> NoJob]
      /\ container \in [Targets -> Jobs \cup {NoJob}]
    BY DEF Init, ResolverInit, RunnerInit
<1>2. Seen = [c \in Conns |-> "idle"]
    BY <1>1, SeenIs DEF Look, ConnStates
<1>3. Place = [c \in Conns |-> Nil]
    BY <1>1 DEF Place
<1>4. Image \in [Targets -> SlotTypes \cup {NoType}]
    BY <1>1, SlotsAssumption DEF Image, SlotTypeOf
<1> QED
    BY <1>1, <1>2, <1>3, <1>4 DEF Service!Init, Place, Image

\* The program connects its clients to containers as ContainerService says, and
\* changes what runs in a place only when nobody uses it, as long as there are no twins.
LEMMA ServiceUnlessTwins ==
    Orderly /\ WorkersApart =>
        (Spec /\ []NoTwins => Service!Init /\ [][Service!Next]_(Service!serviceVars))
<1> SUFFICES ASSUME Orderly, WorkersApart
             PROVE  Spec /\ []NoTwins => Service!Init /\ [][Service!Next]_(Service!serviceVars)
    OBVIOUS
<1>1. TypeOK /\ ClientInv => ServedRight /\ LinkInv
    BY ServedRightIs DEF ClientInv
<1>2. TypeOK /\ TypeOK' /\ LinkInv /\ ServedRight /\ ServedRight' /\ [Next]_vars
        => [Service!Next]_(Service!serviceVars)
    BY ServiceStep
<1> QED
    BY <1>1, <1>2, ServiceInit, TypeCorrect, ClientInvariant, PTL DEF Spec

\* With one container, or with shared types only, there never are: every step of the
\* program is a step of the abstract service or changes nothing a client sees.
THEOREM ServiceKept ==
    Orderly /\ WorkersApart /\ (NumTargets = 1 \/ YTypes = SlotTypes) =>
        (Spec => Service!Init /\ [][Service!Next]_(Service!serviceVars))
<1> SUFFICES ASSUME Orderly, WorkersApart, NumTargets = 1 \/ YTypes = SlotTypes
             PROVE  Spec => Service!Init /\ [][Service!Next]_(Service!serviceVars)
    OBVIOUS
<1> QED
    BY ServiceUnlessTwins, NoTwinsFor, PTL

\* As long as there are no twins, clients are together on a target only as users of one
\* y type, on a container of that type if there still is one, and never of a worker.
LEMMA PromiseUnlessTwins ==
    Orderly /\ WorkersApart => (Spec /\ []NoTwins => []Service!ServedWell)
<1> SUFFICES ASSUME Orderly, WorkersApart
             PROVE  Spec /\ []NoTwins => []Service!ServedWell
    OBVIOUS
<1>1. TypeOK /\ ServedRight => Service!ServedWell
  <2> SUFFICES ASSUME TypeOK, ServedRight PROVE Service!ServedWell
    OBVIOUS
  <2>1. conn \in [Conns -> ConnStates]
    BY DEF TypeOK, ResolverTypeOK
  <2>2. ASSUME NEW t \in Targets, NEW c \in Service!Users(t)
        PROVE  c \in Conns /\ Open(c) /\ connAddress[c] = t
    <3>1. c \in Conns /\ Seen[c] = "served" /\ Place[c] = t
      BY <2>2 DEF Service!Users, Place
    <3>2. Open(c)
      BY <2>1, <3>1, SeenIs DEF Look, ConnStates, Open
    <3> QED
      BY <3>1, <3>2 DEF Place, Open
  <2>3. ASSUME NEW t \in Targets, NEW b \in Service!Users(t), NEW c \in Service!Users(t), b # c
        PROVE  TypeOf[connJob[b]] = TypeOf[connJob[c]] /\ TypeOf[connJob[b]] \in YTypes
    <3>1. /\ b \in Conns /\ Open(b) /\ connAddress[b] = t
          /\ c \in Conns /\ Open(c) /\ connAddress[c] = t
      BY <2>2, <2>3
    <3> QED
      BY <2>3, <3>1 DEF ServedRight, YType
  <2>4. ASSUME NEW t \in Targets, NEW c \in Service!Users(t)
        PROVE  connJob[c] \notin WorkerJobs /\ Image[t] \in {TypeOf[connJob[c]], NoType}
    <3>1. c \in Conns /\ Open(c) /\ connAddress[c] = t
      BY <2>2, <2>4
    <3> QED
      BY <2>4, <3>1 DEF ServedRight, Image
  <2> QED
    BY <2>3, <2>4 DEF Service!ServedWell, Image
<1>2. TypeOK /\ ClientInv => ServedRight
    BY ServedRightIs
<1> QED
    BY <1>1, <1>2, TypeCorrect, ClientInvariant, PTL

\* With one container, or with shared types only, what README.md promises of queueing
\* holds of the program: the jobs of x types are served one at a time, each in a container
\* of its image, those of a y type together, and workers are connected to by nobody.
\* ServiceProofs shows the same of the service itself, for any number of containers.
THEOREM PromiseKept ==
    Orderly /\ WorkersApart /\ (NumTargets = 1 \/ YTypes = SlotTypes) =>
        (Spec => []Service!ServedWell)
<1> SUFFICES ASSUME Orderly, WorkersApart, NumTargets = 1 \/ YTypes = SlotTypes
             PROVE  Spec => []Service!ServedWell
    OBVIOUS
<1> QED
    BY PromiseUnlessTwins, NoTwinsFor, PTL
=============================================================================
