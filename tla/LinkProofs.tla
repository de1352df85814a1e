------------------------------ MODULE LinkProofs ------------------------------
(***************************************************************************)
(* The broker's two tables agree: a target obeys one start at a time       *)
(* (StartDiscipline), and a source that runs is on a target that runs for  *)
(* it (LinkSound).  Each needs the other: an outcome must not come to a    *)
(* target in use, nor a release to one that is starting.  Both are for     *)
(* any number of slots, with jobs that end within -release and clients     *)
(* that come after the runners have registered.  The last section is about *)
(* clients that come before: a free target has one message to come at most *)
(* (FewOrders).                                                            *)
(***************************************************************************)
EXTENDS SafetyProofs, FiniteSetTheorems

(* Counting the messages of a kind in a channel. *)

\* How many messages of a kind are in a channel is a number,
LEMMA CountType ==
    ASSUME NEW S, NEW q \in Seq(S), NEW M
    PROVE  /\ IsFiniteSet({i \in 1..Len(q) : q[i] \in M})
           /\ Occurrences(q, M) \in Nat
<1>1. IsFiniteSet(1..Len(q))
    BY FS_Interval
<1>2. {i \in 1..Len(q) : q[i] \in M} \in SUBSET (1..Len(q))
    OBVIOUS
<1> QED
    BY <1>1, <1>2, FS_Subset, FS_CardinalityType DEF Occurrences

\* ... 0 if the channel is empty,
LEMMA CountEmpty ==
    ASSUME NEW M
    PROVE  Occurrences(<<>>, M) = 0
<1>1. {i \in 1..Len(<<>>) : <<>>[i] \in M} = {}
    OBVIOUS
<1> QED
    BY <1>1, FS_EmptySet DEF Occurrences

\* What is counted is there.
LEMMA CountZero ==
    ASSUME NEW S, NEW q \in Seq(S), NEW M
    PROVE  Occurrences(q, M) = 0 <=> \A i \in 1..Len(q) : q[i] \notin M
<1>1. IsFiniteSet({i \in 1..Len(q) : q[i] \in M})
    BY CountType
<1>2. Occurrences(q, M) = 0 <=> {i \in 1..Len(q) : q[i] \in M} = {}
    BY <1>1, FS_EmptySet DEF Occurrences
<1> QED
    BY <1>2

\* ... and not 0 if the next message is of that kind.
LEMMA CountHead ==
    ASSUME NEW S, NEW q \in Seq(S), q # <<>>, NEW M, Head(q) \in M
    PROVE  Occurrences(q, M) \in Nat \ {0}
<1>1. 1 \in 1..Len(q) /\ q[1] \in M
    OBVIOUS
<1> QED
    BY <1>1, CountType, CountZero

\* Sending a message adds one to the count of its kind.
LEMMA CountAppend ==
    ASSUME NEW S, NEW q \in Seq(S), NEW e \in S, NEW M
    PROVE  Occurrences(Append(q, e), M) = Occurrences(q, M) + (IF e \in M THEN 1 ELSE 0)
<1> DEFINE A == {i \in 1..Len(q) : q[i] \in M}
           B == {i \in 1..Len(Append(q, e)) : Append(q, e)[i] \in M}
           n == Len(q) + 1
<1>1. /\ Len(q) \in Nat /\ Len(Append(q, e)) = n
      /\ \A i \in 1..Len(q) : Append(q, e)[i] = q[i]
      /\ Append(q, e)[n] = e
    BY SMT
<1>2. IsFiniteSet(A) /\ Cardinality(A) \in Nat
    BY CountType DEF Occurrences
<1>0. Occurrences(Append(q, e), M) = Cardinality(B) /\ Occurrences(q, M) = Cardinality(A)
    BY DEF Occurrences
<1>3. n \notin A /\ \A i \in 1..n : i # n => i \in 1..Len(q)
    BY <1>1, SMT
<1>4. CASE e \in M
  <2>1. B = A \cup {n}
    BY <1>1, <1>3, <1>4
  <2> HIDE DEF A, B, n
  <2>2. Cardinality(B) = Cardinality(A) + 1
    BY <1>2, <1>3, <2>1, FS_AddElement
  <2> QED
    BY <1>0, <1>4, <2>2
<1>5. CASE e \notin M
  <2>1. B = A
    BY <1>1, <1>3, <1>5
  <2> HIDE DEF A, B
  <2> QED
    BY <1>0, <1>2, <1>5, <2>1
<1> QED
    BY <1>4, <1>5

\* One that is taken away is counted no more.
LEMMA CountTail ==
    ASSUME NEW S, NEW q \in Seq(S), q # <<>>, NEW M
    PROVE  Occurrences(Tail(q), M) = Occurrences(q, M) - (IF Head(q) \in M THEN 1 ELSE 0)
<1> DEFINE A == {i \in 1..Len(q) : q[i] \in M}
           B == {i \in 1..Len(Tail(q)) : Tail(q)[i] \in M}
           shift == [i \in B |-> i + 1]
<1>1. /\ Len(q) \in Nat \ {0} /\ Len(Tail(q)) = Len(q) - 1 /\ Head(q) = q[1]
      /\ Tail(q) \in Seq(S)
      /\ \A i \in 1..Len(Tail(q)) : Tail(q)[i] = q[i + 1]
    BY SMT
<1>2. IsFiniteSet(A) /\ Cardinality(A) \in Nat /\ IsFiniteSet(B)
    BY <1>1, CountType DEF Occurrences
<1>3. \A i \in B : i \in Nat /\ i + 1 \in A \ {1}
    BY <1>1, SMT
<1>4. \A k \in A \ {1} : \E i \in B : k = i + 1
  <2> SUFFICES ASSUME NEW k \in A \ {1} PROVE k - 1 \in B /\ k = (k - 1) + 1
    OBVIOUS
  <2>1. k \in Int /\ k - 1 \in 1..Len(Tail(q)) /\ k = (k - 1) + 1
    BY <1>1, SMT
  <2> QED
    BY <1>1, <2>1
<1>5. shift \in Bijection(B, A \ {1})
  <2>1. shift \in [B -> A \ {1}]
    BY <1>3
  <2>2. \A i, j \in B : shift[i] = shift[j] => i = j
    BY <1>3, SMT
  <2>3. \A k \in A \ {1} : \E i \in B : shift[i] = k
    BY <1>4
  <2> HIDE DEF shift
  <2> QED
    BY <2>1, <2>2, <2>3 DEF Bijection, Injection, Surjection, IsInjective
<1>6. Cardinality(B) = Cardinality(A \ {1})
    BY <1>2, <1>5, FS_Bijection DEF ExistsBijection
<1>7. Cardinality(A \ {1}) = (IF 1 \in A THEN Cardinality(A) - 1 ELSE Cardinality(A))
  <2> HIDE DEF A
  <2> QED
    BY <1>2, FS_RemoveElement
<1>8. 1 \in A <=> Head(q) \in M
    BY <1>1
<1>9. Occurrences(Tail(q), M) = Cardinality(B) /\ Occurrences(q, M) = Cardinality(A)
    BY DEF Occurrences
<1> HIDE DEF A, B
<1> QED
    BY <1>2, <1>6, <1>7, <1>8, <1>9
-----------------------------------------------------------------------------
\* The two kinds of messages of a runner.
Registration == {m \in Report : m.type = "Free"}
Outcome == {m \in Report : m.type # "Free"}

\* The kinds of a runner's messages.
LEMMA KindFacts ==
    /\ \A m \in Report : (m \in Registration <=> m.type = "Free") /\ (m \in Outcome <=> m.type # "Free")
    /\ \A t \in Targets : Free(t) \in Registration /\ Free(t) \notin Outcome
    /\ Started \in Outcome /\ Failed \in Outcome
    /\ Started \notin Registration /\ Failed \notin Registration
BY MessageFacts DEF Registration, Outcome, Free, Started, Failed

\* The broker reads a runner's message.
LEMMA BrokerTakes ==
    ASSUME ChannelsTypeOK, BrokerTypeOK, HandleStarted \/ HandleFree \/ HandleError, NEW X
    PROVE  /\ at \in Targets /\ tgtIn[at] # <<>> /\ Head(tgtIn[at]) \in Report
           /\ \A t \in Targets : Occurrences(tgtIn'[t], X)
                = Occurrences(tgtIn[t], X) - (IF t = at /\ Head(tgtIn[at]) \in X THEN 1 ELSE 0)
<1>1. at \in Targets /\ tgtIn[at] # <<>> /\ tgtIn' = [tgtIn EXCEPT ![at] = Tail(@)]
    BY AtFacts DEF HandleStarted, HandleFree, HandleError, BrokerTypeOK
<1>2. Head(tgtIn[at]) \in Report
    BY <1>1, TakeFrom, SlotsAssumption DEF ChannelsTypeOK
<1>3. tgtIn \in [Targets -> Seq(Report)]
    BY DEF ChannelsTypeOK
<1>4. Occurrences(Tail(tgtIn[at]), X)
        = Occurrences(tgtIn[at], X) - (IF Head(tgtIn[at]) \in X THEN 1 ELSE 0)
    BY <1>1, <1>3, CountTail
<1>5. \A t \in Targets : Occurrences(tgtIn[t], X) \in Nat
    BY <1>3, CountType
<1> QED
    BY <1>1, <1>2, <1>3, <1>4, <1>5

\* A runner tells the broker something: first its address, later the outcomes of starts.
LEMMA RunnerTells ==
    ASSUME ChannelsTypeOK, NEW t \in Targets,
           Register(t) \/ StartFails(t) \/ Ready(t) \/ NotReady(t)
    PROVE  \E report \in Report :
            /\ report = IF runner[t] = "boot" THEN Free(t) ELSE IF Ready(t) THEN Started ELSE Failed
            /\ runner' = [runner EXCEPT ![t] = "read"]
            /\ UNCHANGED <<tgtOut, runnerJob, container>>
            /\ runner[t] = "boot" \/ runner[t] \in {"kill", "launch", "wait"}
            /\ \A u \in Targets \ {t} : tgtIn'[u] = tgtIn[u]
            /\ \A X : \A u \in Targets : Occurrences(tgtIn'[u], X)
                 = Occurrences(tgtIn[u], X) + (IF u = t /\ report \in X THEN 1 ELSE 0)
<1>1. PICK report \in Report :
            /\ report = IF runner[t] = "boot" THEN Free(t) ELSE IF Ready(t) THEN Started ELSE Failed
            /\ Tell(t, report)
    BY MessageFacts DEF Register, StartFails, Ready, NotReady
<1>2. tgtIn' = [tgtIn EXCEPT ![t] = Append(@, report)] /\ runner' = [runner EXCEPT ![t] = "read"]
    BY <1>1 DEF Tell
<1>3. /\ UNCHANGED <<tgtOut, runnerJob, container>>
      /\ runner[t] = "boot" \/ runner[t] \in {"kill", "launch", "wait"}
    BY DEF Register, StartFails, Ready, NotReady
<1>4. \A u \in Targets \ {t} : tgtIn'[u] = tgtIn[u]
    BY <1>2 DEF ChannelsTypeOK
<1>5. \A X : \A u \in Targets : Occurrences(tgtIn'[u], X)
                = Occurrences(tgtIn[u], X) + (IF u = t /\ report \in X THEN 1 ELSE 0)
  <2> SUFFICES ASSUME NEW X
               PROVE  \A u \in Targets : Occurrences(tgtIn'[u], X)
                        = Occurrences(tgtIn[u], X) + (IF u = t /\ report \in X THEN 1 ELSE 0)
    OBVIOUS
  <2>1. tgtIn \in [Targets -> Seq(Report)]
    BY DEF ChannelsTypeOK
  <2>2. Occurrences(Append(tgtIn[t], report), X)
          = Occurrences(tgtIn[t], X) + (IF report \in X THEN 1 ELSE 0)
    BY <2>1, CountAppend
  <2>3. \A u \in Targets : Occurrences(tgtIn[u], X) \in Nat
    BY <2>1, CountType
  <2> QED
    BY <1>2, <2>1, <2>2, <2>3
<1> QED
    BY <1>1, <1>2, <1>3, <1>4, <1>5

-----------------------------------------------------------------------------
\* A runner registers once: it has yet to, or its message is on the way, or the
\* broker knows its address.
RegisteredOnce ==
    \A t \in Targets :
        One(runner[t] = "boot") + Occurrences(tgtIn[t], Registration) = One(tgtRef[t] = Nil)

\* A runner registers once.
LEMMA RegisteredStep ==
    ASSUME TypeOK, RegisteredOnce, [Next]_vars
    PROVE  RegisteredOnce'
<1> USE DEF RegisteredOnce
<1>1. /\ ChannelsTypeOK /\ BrokerTypeOK
      /\ tgtRef \in [Targets -> Targets \cup {Nil}] /\ runner \in [Targets -> RunnerStates]
      /\ \A t \in Targets : Occurrences(tgtIn[t], Registration) \in Nat
    BY CountType DEF TypeOK, ChannelsTypeOK, BrokerTypeOK, TgtTypeOK, RunnerTypeOK
<1>2. CASE UNCHANGED <<tgtRef, tgtIn, runner>>
    BY <1>2
<1>3. CASE (HandleStarted \/ HandleFree \/ HandleError) /\ UNCHANGED runner
  <2>1. /\ at \in Targets /\ Head(tgtIn[at]) \in Report
        /\ \A t \in Targets : Occurrences(tgtIn'[t], Registration)
             = Occurrences(tgtIn[t], Registration)
                 - (IF t = at /\ Head(tgtIn[at]) \in Registration THEN 1 ELSE 0)
    BY <1>1, <1>3, BrokerTakes
  <2>2. CASE HandleFree
    <3>1. Head(tgtIn[at]) \in Registration /\ Head(tgtIn[at]).address \in Targets
      BY <2>1, <2>2, KindFacts, MessageFacts DEF HandleFree
    <3>2. tgtRef' = [tgtRef EXCEPT ![at] = Head(tgtIn[at]).address]
      BY <2>2 DEF HandleFree
    <3>3. /\ \A t \in Targets \ {at} : tgtRef'[t] = tgtRef[t]
          /\ tgtRef'[at] # Nil
      BY <1>1, <2>1, <3>1, <3>2 DEF Targets, Nil
    <3>4. \A t \in Targets : Occurrences(tgtIn'[t], Registration)
            = Occurrences(tgtIn[t], Registration) - (IF t = at THEN 1 ELSE 0)
      BY <2>1, <3>1
    <3>5. Occurrences(tgtIn'[at], Registration) \in Nat
      <4>1. ChannelsTypeOK'
        BY <1>1, <2>2, BrokerChannelTypes DEF Run
      <4>2. tgtIn'[at] \in Seq(Report)
        BY <2>1, <4>1 DEF ChannelsTypeOK
      <4> QED
        BY <4>2, CountType
    <3>6. runner[at] # "boot" /\ Occurrences(tgtIn[at], Registration) = 1
      BY <1>1, <2>1, <3>4, <3>5 DEF One
    <3> QED
      BY <1>1, <1>3, <2>1, <3>3, <3>4, <3>6 DEF One
  <2>3. CASE HandleStarted \/ HandleError
    <3>1. Head(tgtIn[at]) \notin Registration /\ UNCHANGED tgtRef
      BY <2>1, <2>3, KindFacts DEF HandleStarted, HandleError, tgtVars
    <3>2. \A t \in Targets : Occurrences(tgtIn'[t], Registration) = Occurrences(tgtIn[t], Registration)
      BY <1>1, <2>1, <3>1
    <3> QED
      BY <1>3, <3>1, <3>2
  <2> QED
    BY <1>3, <2>2, <2>3
<1>4. ASSUME NEW t \in Targets, Runner(t) PROVE RegisteredOnce'
  <2>1. UNCHANGED tgtRef
    BY <1>4 DEF Runner, brokerVars, tgtVars
  <2>2. CASE ReadStart(t) \/ KillOld(t) \/ Launch(t)
    <3>1. \A u \in Targets : (runner'[u] = "boot") <=> (runner[u] = "boot")
      BY <1>1, <2>2 DEF ReadStart, KillOld, Launch
    <3>2. UNCHANGED tgtIn
      BY <2>2 DEF ReadStart, KillOld, Launch
    <3> QED
      BY <2>1, <3>1, <3>2 DEF One
  <2>3. CASE Register(t) \/ StartFails(t) \/ Ready(t) \/ NotReady(t)
    <3>1. PICK report \in Report :
            /\ report = IF runner[t] = "boot" THEN Free(t) ELSE IF Ready(t) THEN Started ELSE Failed
            /\ runner' = [runner EXCEPT ![t] = "read"]
            /\ \A X : \A u \in Targets : Occurrences(tgtIn'[u], X)
                 = Occurrences(tgtIn[u], X) + (IF u = t /\ report \in X THEN 1 ELSE 0)
      BY <1>1, <2>3, RunnerTells
    <3>2. report \in Registration <=> runner[t] = "boot"
      BY <3>1, KindFacts
    <3>3. \A u \in Targets : Occurrences(tgtIn'[u], Registration)
            = Occurrences(tgtIn[u], Registration) + (IF u = t /\ runner[t] = "boot" THEN 1 ELSE 0)
      BY <3>1, <3>2
    <3>4. \A u \in Targets : (runner'[u] = "boot") <=> (u # t /\ runner[u] = "boot")
      BY <1>1, <3>1
    <3> QED
      BY <1>1, <2>1, <3>3, <3>4 DEF One
  <2> QED
    BY <1>4, <2>2, <2>3 DEF Runner, RunnerStep
<1>5. ASSUME Run, UNCHANGED runner PROVE RegisteredOnce'
    BY <1>2, <1>3, <1>5 DEF Run, QueueRefused, SendRefusal, SkipSource, HandleRelease,
        HandleAcquire, SkipTarget, RefuseWaiting, ClearFailed, Link, LinkNext, StartContainer,
        StartNone, StartCopy, StartFor, CopyNone, Sweep, Sleep, tgtVars, channels
<1>6. ASSUME NEW c \in Conns, ConnStep(c) \/ Reaccept(c) PROVE RegisteredOnce'
    BY <1>2, <1>6 DEF ConnStep, Reaccept, Ask, RequestSlot, CallRead, ReadReply, Close, Accept,
        brokerVars, tgtVars, runnerVars, channels
<1>7. ASSUME NEW t \in Targets, ContainerExit(t) PROVE RegisteredOnce'
    BY <1>2, <1>7 DEF ContainerExit, Exit, brokerVars, tgtVars, channels
<1>8. CASE UNCHANGED vars
    BY <1>2, <1>8 DEF vars, channels, brokerVars, tgtVars, runnerVars
<1> QED
    BY <1>4, <1>5, <1>6, <1>7, <1>8 DEF Next, BrokerStep, runnerVars

-----------------------------------------------------------------------------
\* What the surroundings are assumed to do: a job ends within -release, and no
\* client comes before every runner has registered.
ShortJobs == "LongJobs" \notin Env

Prompt == ShortJobs /\ "EarlyClients" \notin Env

\* Until every runner has registered, nobody has asked for anything.
NothingEarly ==
    ~Registered =>
        /\ \A c \in Conns : conn[c] = "idle"
        /\ \A s \in Sources : srcState[s] = "Free" /\ srcIn[s] = <<>>
        /\ \A t \in Targets : tgtState[t] # "Starting"

\* The broker does not forget an address.
LEMMA StaysRegistered ==
    ASSUME TypeOK, [Next]_vars, NEW t \in Targets, tgtRef[t] # Nil
    PROVE  tgtRef'[t] # Nil
<1>1. BrokerTypeOK /\ ChannelsTypeOK /\ tgtRef \in [Targets -> Targets \cup {Nil}]
    BY DEF TypeOK, BrokerTypeOK, TgtTypeOK
<1>2. CASE HandleFree
  <2>1. Head(tgtIn[at]).address \in Targets
    BY <1>1, <1>2, BrokerTakes, MessageFacts DEF HandleFree
  <2> QED
    BY <1>1, <1>2, <2>1 DEF HandleFree, Targets, Nil
<1>3. HandleFree \/ UNCHANGED tgtRef
    BY DEF Next, vars, BrokerStep, ConnStep, Reaccept, Runner, ContainerExit, brokerVars, Run,
        QueueRefused, SendRefusal, SkipSource, HandleRelease, HandleAcquire, SkipTarget,
        HandleStarted, HandleError, RefuseWaiting, ClearFailed, Link, LinkNext, StartContainer,
        StartNone, StartCopy, StartFor, CopyNone, Sweep, Sleep, tgtVars
<1> QED
    BY <1>2, <1>3

\* Nobody asks before every runner has registered, without early clients.
LEMMA NothingEarlyStep ==
    ASSUME Prompt, TypeOK, JobKnown, NothingEarly, [Next]_vars
    PROVE  NothingEarly'
<1>1. CASE Registered
    BY <1>1, StaysRegistered DEF Registered, NothingEarly
<1>2. CASE ~Registered
  <2> DEFINE Quiet == /\ \A c \in Conns : conn[c] = "idle"
                      /\ \A s \in Sources : srcState[s] = "Free" /\ srcIn[s] = <<>>
                      /\ \A t \in Targets : tgtState[t] # "Starting"
  <2>1. Quiet /\ BrokerTypeOK /\ LoopTypeOK /\ TgtTypeOK
    BY <1>2 DEF NothingEarly, TypeOK, BrokerTypeOK
  <2>2. CASE UNCHANGED <<conn, srcState, srcIn, tgtState>>
    BY <2>1, <2>2 DEF NothingEarly
  <2>3. CASE (HandleStarted \/ HandleFree \/ ClearFailed \/ Sweep) /\ UNCHANGED conn
    <3>1. UNCHANGED <<conn, srcState, srcIn>>
      BY <2>3 DEF HandleStarted, HandleFree, ClearFailed, Sweep, srcVars, channels
    <3>2. \A t \in Targets : tgtState'[t] \in {tgtState[t], "Free"}
      BY <2>1, <2>3 DEF HandleStarted, HandleFree, ClearFailed, Sweep, TgtTypeOK
    <3> QED
      BY <2>1, <3>1, <3>2 DEF NothingEarly
  <2>4. ~HandleRelease /\ ~HandleAcquire
    BY <2>1, AtFacts DEF HandleRelease, HandleAcquire
  <2>5. ~RefuseWaiting
    BY <2>1 DEF RefuseWaiting, First, ToRefuse, WaitingFor
  <2>6. ~Link
    BY <2>1, AtFacts DEF Link, First, ToLink, JobKnown, In
  <2>7. ~StartContainer /\ ~StartCopy
    BY <2>1, StartSteps
  <2>8. ASSUME Run, UNCHANGED conn PROVE NothingEarly'
    BY <2>2, <2>3, <2>4, <2>5, <2>6, <2>7, <2>8 DEF Run, QueueRefused, SendRefusal, SkipSource,
        SkipTarget, HandleError, LinkNext, StartNone, CopyNone, Sleep, srcVars, tgtVars, channels
  <2>9. ASSUME NEW c \in Conns, ConnStep(c) \/ Reaccept(c) PROVE NothingEarly'
    BY <1>2, <2>1, <2>9 DEF ConnStep, Reaccept, Ask, Prompt, RequestSlot, CallRead, ReadReply, Close, Accept
  <2>10. ASSUME NEW t \in Targets, Runner(t) \/ ContainerExit(t) PROVE NothingEarly'
    BY <2>2, <2>10 DEF Runner, RunnerStep, Register, ReadStart, KillOld, Launch, StartFails,
        Ready, NotReady, ContainerExit, Exit, RunnerOnly, brokerVars, srcVars, tgtVars, connVars, channels
  <2>11. CASE UNCHANGED vars
    BY <2>2, <2>11 DEF vars, channels, brokerVars, srcVars, tgtVars, connVars
  <2> QED
    BY <2>8, <2>9, <2>10, <2>11 DEF Next, BrokerStep, connVars
<1> QED
    BY <1>1, <1>2

-----------------------------------------------------------------------------
(* StartDiscipline, step by step. *)

Busy(t) == runner[t] \in {"kill", "launch", "wait"}
Refusing(t) == phase = "refuse" /\ at = t

\* What is on the way to the end of a start of target t: the order, the runner
\* that obeys it, the outcome, or the broker that acts on a failure.
OneOnTheWay(t) ==
    \/ Len(tgtOut[t]) = 1 /\ ~Busy(t) /\ Occurrences(tgtIn[t], Outcome) = 0 /\ ~Refusing(t)
    \/ Len(tgtOut[t]) = 0 /\ Busy(t) /\ Occurrences(tgtIn[t], Outcome) = 0 /\ ~Refusing(t)
    \/ Len(tgtOut[t]) = 0 /\ ~Busy(t) /\ Occurrences(tgtIn[t], Outcome) = 1 /\ ~Refusing(t)
    \/ Len(tgtOut[t]) = 0 /\ ~Busy(t) /\ Occurrences(tgtIn[t], Outcome) = 0 /\ Refusing(t)

NothingOnTheWay(t) ==
    Len(tgtOut[t]) = 0 /\ ~Busy(t) /\ Occurrences(tgtIn[t], Outcome) = 0 /\ ~Refusing(t)

\* StartDiscipline, without the sum.
Balanced ==
    \A t \in Targets :
        IF tgtState[t] = "Starting" THEN OneOnTheWay(t) ELSE NothingOnTheWay(t)

\* The sum of StartDiscipline, in cases.
LEMMA DisciplineIs == ChannelsTypeOK => (StartDiscipline <=> Balanced)
<1> SUFFICES ASSUME ChannelsTypeOK PROVE StartDiscipline <=> Balanced
    OBVIOUS
<1>1. ASSUME NEW t \in Targets
      PROVE  Len(tgtOut[t]) + One(Busy(t)) + Occurrences(tgtIn[t], Outcome) + One(Refusing(t))
                = One(tgtState[t] = "Starting")
             <=> IF tgtState[t] = "Starting" THEN OneOnTheWay(t) ELSE NothingOnTheWay(t)
  <2>1. PICK busy \in {0, 1}, refusing \in {0, 1}, starting \in {0, 1} :
            /\ One(Busy(t)) = busy /\ (Busy(t) <=> busy = 1)
            /\ One(Refusing(t)) = refusing /\ (Refusing(t) <=> refusing = 1)
            /\ One(tgtState[t] = "Starting") = starting /\ (tgtState[t] = "Starting" <=> starting = 1)
    <3>1. \E i \in {0, 1} : One(Busy(t)) = i /\ (Busy(t) <=> i = 1)
      BY DEF One
    <3>2. \E i \in {0, 1} : One(Refusing(t)) = i /\ (Refusing(t) <=> i = 1)
      BY DEF One
    <3>3. \E i \in {0, 1} : One(tgtState[t] = "Starting") = i /\ (tgtState[t] = "Starting" <=> i = 1)
      BY DEF One
    <3> QED
      BY <3>1, <3>2, <3>3
  <2>2. Len(tgtOut[t]) \in Nat
    BY DEF ChannelsTypeOK
  <2>3. Occurrences(tgtIn[t], Outcome) \in Nat
    BY CountType DEF ChannelsTypeOK
  <2>4. Len(tgtOut[t]) + busy + Occurrences(tgtIn[t], Outcome) + refusing = starting
          <=> IF starting = 1 THEN OneOnTheWay(t) ELSE NothingOnTheWay(t)
    <3>1. (Busy(t) <=> busy = 1) /\ (Refusing(t) <=> refusing = 1)
      BY <2>1
    <3> DEFINE k == Len(tgtOut[t])
               n == Occurrences(tgtIn[t], Outcome)
    <3>2. k \in Nat /\ n \in Nat
      BY <2>2, <2>3
    <3> HIDE DEF k, n
    <3>3. CASE starting = 0
      <4>1. k + busy + n + refusing = 0 <=> k = 0 /\ busy = 0 /\ n = 0 /\ refusing = 0
        BY <3>2
      <4> QED
        BY <3>1, <3>3, <4>1 DEF NothingOnTheWay, k, n
    <3>4. CASE starting = 1
      <4>1. k + busy + n + refusing = 1
              <=> \/ k = 1 /\ busy = 0 /\ n = 0 /\ refusing = 0
                  \/ k = 0 /\ busy = 1 /\ n = 0 /\ refusing = 0
                  \/ k = 0 /\ busy = 0 /\ n = 1 /\ refusing = 0
                  \/ k = 0 /\ busy = 0 /\ n = 0 /\ refusing = 1
        BY <3>2
      <4> QED
        BY <3>1, <3>4, <4>1 DEF OneOnTheWay, k, n
    <3> QED
      BY <3>3, <3>4
  <2> QED
    BY <2>1, <2>4
<1>2. StartDiscipline <=> \A t \in Targets :
        Len(tgtOut[t]) + One(Busy(t)) + Occurrences(tgtIn[t], Outcome) + One(Refusing(t))
            = One(tgtState[t] = "Starting")
    BY DEF StartDiscipline, Busy, Refusing, Outcome
<1> QED
    BY <1>1, <1>2 DEF Balanced

\* The same after a step.
LEMMA DisciplineNext == ChannelsTypeOK' => (StartDiscipline' <=> Balanced')
BY DisciplineIs, PTL

\* A target whose address is known has no registration on the way.
LEMMA FirstFree ==
    ASSUME TypeOK, RegisteredOnce, NothingEarly, HandleFree
    PROVE  ~Registered /\ tgtState[at] # "Starting" /\ Head(tgtIn[at]) \notin Outcome
<1>1. at \in Targets /\ tgtIn[at] # <<>> /\ Head(tgtIn[at]) \in Report
    BY BrokerTakes DEF TypeOK
<1>2. Head(tgtIn[at]) \in Registration /\ Head(tgtIn[at]) \notin Outcome
    BY <1>1, KindFacts DEF HandleFree
<1>3. tgtIn[at] \in Seq(Report)
    BY <1>1 DEF TypeOK, ChannelsTypeOK
<1>4. Occurrences(tgtIn[at], Registration) \in Nat \ {0}
    BY <1>1, <1>2, <1>3, CountHead
<1>5. tgtRef[at] = Nil
    BY <1>1, <1>4 DEF RegisteredOnce, One
<1> QED
    BY <1>1, <1>2, <1>5 DEF NothingEarly, Registered

\* The broker reads the end of a start: only a target that is starting has one.
LEMMA OutcomeTaken ==
    ASSUME TypeOK, StartDiscipline, HandleStarted \/ HandleError
    PROVE  /\ at \in Targets /\ ~Refusing(at) /\ ~Busy(at) /\ tgtOut[at] = <<>>
           /\ tgtState[at] = "Starting"
           /\ Occurrences(tgtIn[at], Outcome) = 1
           /\ \A t \in Targets : Occurrences(tgtIn'[t], Outcome)
                = Occurrences(tgtIn[t], Outcome) - (IF t = at THEN 1 ELSE 0)
<1>1. /\ at \in Targets /\ tgtIn[at] # <<>> /\ Head(tgtIn[at]) \in Report
      /\ \A t \in Targets : Occurrences(tgtIn'[t], Outcome)
           = Occurrences(tgtIn[t], Outcome) - (IF t = at /\ Head(tgtIn[at]) \in Outcome THEN 1 ELSE 0)
    BY BrokerTakes DEF TypeOK
<1>2. Head(tgtIn[at]) \in Outcome
    BY <1>1, KindFacts DEF HandleStarted, HandleError
<1>3. tgtIn[at] \in Seq(Report) /\ tgtOut[at] \in Seq(Command)
    BY <1>1 DEF TypeOK, ChannelsTypeOK
<1>4. Occurrences(tgtIn[at], Outcome) \in Nat \ {0}
    BY <1>1, <1>2, <1>3, CountHead
<1>5. Balanced
    BY DisciplineIs DEF TypeOK
<1>6. /\ ~Refusing(at) /\ ~Busy(at) /\ tgtState[at] = "Starting"
      /\ Len(tgtOut[at]) = 0 /\ Occurrences(tgtIn[at], Outcome) = 1
    BY <1>1, <1>4, <1>5 DEF Balanced, OneOnTheWay, NothingOnTheWay
<1> QED
    BY <1>1, <1>2, <1>3, <1>6

\* The runner reads a Start: the only one there is.
LEMMA StartTaken ==
    ASSUME TypeOK, NEW t \in Targets, ReadStart(t)
    PROVE  /\ \A u \in Targets : Len(tgtOut'[u]) = Len(tgtOut[u]) - (IF u = t THEN 1 ELSE 0)
           /\ \A u \in Targets : (runner'[u] = runner[u] /\ u # t) \/ u = t
           /\ runner[t] = "read" /\ runner'[t] = "kill" /\ tgtIn' = tgtIn
<1>1. tgtOut \in [Targets -> Seq(Command)] /\ runner \in [Targets -> RunnerStates]
    BY DEF TypeOK, ChannelsTypeOK, RunnerTypeOK
<1>2. /\ tgtOut' = [tgtOut EXCEPT ![t] = Tail(@)] /\ tgtOut[t] # <<>>
      /\ runner' = [runner EXCEPT ![t] = "kill"] /\ runner[t] = "read" /\ tgtIn' = tgtIn
    BY DEF ReadStart
<1>3. Len(Tail(tgtOut[t])) = Len(tgtOut[t]) - 1
    BY <1>1, <1>2
<1>4. \A u \in Targets : Len(tgtOut[u]) \in Nat
    BY <1>1
<1> QED
    BY <1>1, <1>2, <1>3, <1>4

\* The step keeps the books of every target but t balanced, and t's.
LEMMA StartDisciplineStep ==
    ASSUME TypeOK, TypeOK', RegisteredOnce, NothingEarly, StartDiscipline, LinkSound, AddressKnown,
           [Next]_vars
    PROVE  StartDiscipline'
<1>1. /\ ChannelsTypeOK /\ BrokerTypeOK /\ LoopTypeOK /\ TgtTypeOK /\ SrcTypeOK
      /\ tgtOut \in [Targets -> Seq(Command)] /\ runner \in [Targets -> RunnerStates]
      /\ tgtState \in [Targets -> {"Free", "Starting", "Run"}]
    BY DEF TypeOK, ChannelsTypeOK, BrokerTypeOK, TgtTypeOK, RunnerTypeOK
<1>2. Balanced
    BY DisciplineIs DEF TypeOK
<1>3. \A t \in Targets : Len(tgtOut[t]) \in Nat /\ Occurrences(tgtIn[t], Outcome) \in Nat
  <2>1. \A t \in Targets : Occurrences(tgtIn[t], Outcome) \in Nat
    BY CountType DEF TypeOK, ChannelsTypeOK
  <2> QED
    BY <1>1, <2>1
<1> SUFFICES ASSUME NEW t \in Targets
             PROVE  (IF tgtState[t] = "Starting" THEN OneOnTheWay(t) ELSE NothingOnTheWay(t))'
    BY DisciplineNext DEF Balanced, TypeOK
<1> DEFINE Starting == tgtState[t] = "Starting"
           Done == /\ Len(tgtOut'[t]) = Len(tgtOut[t]) /\ (Busy(t)' <=> Busy(t))
                   /\ Occurrences(tgtIn'[t], Outcome) = Occurrences(tgtIn[t], Outcome)
                   /\ (Refusing(t)' <=> Refusing(t)) /\ (Starting' <=> Starting)
           Goal == (IF tgtState[t] = "Starting" THEN OneOnTheWay(t) ELSE NothingOnTheWay(t))'
<1> USE DEF Balanced, OneOnTheWay, NothingOnTheWay
<1>4. CASE Done
    BY <1>2, <1>4
<1>5. ASSUME Run, UNCHANGED runner PROVE Goal
  <2>0. Busy(t)' <=> Busy(t)
    BY <1>5 DEF Busy
  <2>1. CASE HandleRelease
    <3>1. srcState[at] = "Run" => tgtState[srcOpposite[at]] = "Run"
      BY <1>1, <2>1, AtFacts DEF HandleRelease, LinkSound
    <3>2. \/ tgtState' = tgtState
          \/ srcState[at] = "Run" /\ tgtState' = [tgtState EXCEPT ![srcOpposite[at]] = "Free"]
      BY <2>1 DEF HandleRelease, FreesTarget, tgtVars
    <3>3. Starting' <=> Starting
      BY <1>1, <3>1, <3>2
    <3> QED
      BY <1>4, <2>0, <2>1, <3>3 DEF HandleRelease, Advance, Refusing, In
  <2>2. CASE HandleFree
    <3>1. tgtState[at] # "Starting" /\ Head(tgtIn[at]) \notin Outcome
      BY <2>2, FirstFree
    <3>2. Occurrences(tgtIn'[t], Outcome) = Occurrences(tgtIn[t], Outcome)
      BY <1>1, <1>2, <2>2, <3>1, BrokerTakes
    <3>3. Starting' <=> Starting
      BY <1>1, <2>2, <3>1 DEF HandleFree
    <3> QED
      BY <1>4, <2>0, <2>2, <3>2, <3>3 DEF HandleFree, Advance, Refusing, In
  <2>3. CASE HandleStarted
    <3>1. /\ at \in Targets /\ tgtState[at] = "Starting" /\ Occurrences(tgtIn[at], Outcome) = 1
          /\ ~Busy(at) /\ Len(tgtOut[at]) = 0
          /\ Occurrences(tgtIn'[t], Outcome) = Occurrences(tgtIn[t], Outcome) - (IF t = at THEN 1 ELSE 0)
      BY <2>3, OutcomeTaken
    <3>2. /\ (Starting' <=> Starting /\ t # at)
          /\ tgtOut' = tgtOut /\ ~Refusing(t) /\ ~Refusing(t)'
      BY <1>1, <2>3, <3>1 DEF HandleStarted, Advance, Refusing, In
    <3>3. CASE t = at
      BY <2>0, <3>1, <3>2, <3>3
    <3>4. CASE t # at
      BY <1>2, <1>4, <2>0, <3>1, <3>2, <3>4
    <3> QED
      BY <3>3, <3>4
  <2>4. CASE HandleError
    <3>1. /\ at \in Targets /\ tgtState[at] = "Starting" /\ Occurrences(tgtIn[at], Outcome) = 1
          /\ ~Busy(at) /\ Len(tgtOut[at]) = 0
          /\ Occurrences(tgtIn'[t], Outcome) = Occurrences(tgtIn[t], Outcome) - (IF t = at THEN 1 ELSE 0)
      BY <2>4, OutcomeTaken
    <3>2. /\ (Starting' <=> Starting)
          /\ tgtOut' = tgtOut /\ ~Refusing(t) /\ (Refusing(t)' <=> t = at)
      BY <1>1, <2>4, <3>1 DEF HandleError, Refusing, In, tgtVars
    <3>3. CASE t = at
      BY <2>0, <3>1, <3>2, <3>3
    <3>4. CASE t # at
      BY <1>2, <1>4, <2>0, <3>1, <3>2, <3>4
    <3> QED
      BY <3>3, <3>4
  <2>5. CASE ClearFailed
    <3>1. at \in Targets /\ Refusing(at)
      BY <1>1, <2>5, AtFacts DEF ClearFailed, Refusing, In
    <3>2. /\ UNCHANGED <<tgtIn, tgtOut>> /\ ~Refusing(t)'
          /\ (Refusing(t) <=> t = at) /\ (Starting' <=> Starting /\ t # at)
      BY <1>1, <2>5, <3>1 DEF ClearFailed, Refusing, In, channels
    <3>3. CASE t = at
      BY <1>2, <1>3, <2>0, <3>1, <3>2, <3>3
    <3>4. CASE t # at
      BY <1>4, <2>0, <3>2, <3>4
    <3> QED
      BY <3>3, <3>4
  <2>6. CASE StartContainer \/ StartCopy
    <3>1. PICK u \in Targets, s \in Sources : StartFor(u, s) /\ tgtState[u] = "Free"
      BY <1>1, <2>6, StartSteps
    <3>2. /\ tgtOut' = [tgtOut EXCEPT ![u] = Append(@, Start(srcJob[s]))]
          /\ tgtState' = [tgtState EXCEPT ![u] = "Starting"] /\ tgtIn' = tgtIn
      BY <3>1 DEF StartFor
    <3>3. Refusing(t)' <=> Refusing(t)
      BY <2>6 DEF StartContainer, StartCopy, Refusing
    <3>4. CASE t = u
      <4>1. Len(tgtOut'[t]) = Len(tgtOut[t]) + 1
        BY <1>1, <3>2, <3>4
      <4>2. Starting' /\ ~Starting
        BY <1>1, <3>1, <3>2, <3>4
      <4> QED
        BY <1>2, <1>3, <2>0, <3>2, <3>3, <4>1, <4>2
    <3>5. CASE t # u
      BY <1>1, <1>4, <2>0, <3>2, <3>3, <3>5
    <3> QED
      BY <3>4, <3>5
  <2>7. CASE Link
    <3>1. PICK u \in First(ToLink) : tgtState' = [tgtState EXCEPT ![u] = "Run"]
      BY <2>7 DEF Link
    <3>2. u \in Targets /\ tgtState[u] # "Starting"
      BY DEF First, ToLink, Matches
    <3>3. Starting' <=> Starting
      BY <1>1, <3>1, <3>2
    <3> QED
      BY <1>4, <2>0, <2>7, <3>3 DEF Link, Refusing
  <2>8. CASE Sweep
    <3>1. tgtState'[t] = (IF Unused(t) \/ Overdue(t) THEN "Free" ELSE tgtState[t])
      BY <2>8 DEF Sweep
    <3>2. Starting' <=> Starting
      BY <3>1 DEF Unused, Overdue
    <3> QED
      BY <1>4, <2>0, <2>8, <3>2 DEF Sweep, Goto, Refusing, In, channels
  <2>9. CASE SkipSource \/ HandleAcquire \/ SkipTarget \/ LinkNext \/ StartNone \/ CopyNone
    BY <1>4, <2>0, <2>9 DEF SkipSource, HandleAcquire, SkipTarget, LinkNext, StartNone, CopyNone,
        Advance, Goto, In, Refusing, tgtVars, channels
  <2>10. CASE QueueRefused \/ SendRefusal \/ RefuseWaiting \/ \E d \in Elapse : Sleep(d)
    BY <1>4, <2>0, <2>10 DEF QueueRefused, SendRefusal, RefuseWaiting, Sleep, Goto, In, Refusing,
        tgtVars, channels
  <2> QED
    BY <1>5, <2>1, <2>2, <2>3, <2>4, <2>5, <2>6, <2>7, <2>8, <2>9, <2>10 DEF Run
<1>6. ASSUME NEW u \in Targets, Runner(u) PROVE Goal
  <2>1. (Refusing(t)' <=> Refusing(t)) /\ tgtState' = tgtState
    BY <1>6 DEF Runner, brokerVars, loopVars, tgtVars, Refusing
  <2>2. CASE ReadStart(u)
    <3>1. /\ Len(tgtOut'[t]) = Len(tgtOut[t]) - (IF t = u THEN 1 ELSE 0) /\ tgtIn' = tgtIn
          /\ (Busy(t)' <=> Busy(t) \/ t = u) /\ (t = u => ~Busy(t))
      BY <1>1, <2>2, StartTaken DEF Busy
    <3>2. CASE t = u
      BY <1>2, <1>3, <2>1, <3>1, <3>2
    <3>3. CASE t # u
      BY <1>2, <1>4, <2>1, <3>1, <3>3
    <3> QED
      BY <3>2, <3>3
  <2>3. CASE KillOld(u) \/ Launch(u)
    BY <1>1, <1>4, <2>1, <2>3 DEF KillOld, Launch, Busy
  <2>4. CASE Register(u) \/ StartFails(u) \/ Ready(u) \/ NotReady(u)
    <3>1. PICK report \in Report :
            /\ report = IF runner[u] = "boot" THEN Free(u) ELSE IF Ready(u) THEN Started ELSE Failed
            /\ runner' = [runner EXCEPT ![u] = "read"]
            /\ UNCHANGED <<tgtOut, runnerJob, container>>
            /\ runner[u] = "boot" \/ runner[u] \in {"kill", "launch", "wait"}
            /\ \A v \in Targets \ {u} : tgtIn'[v] = tgtIn[v]
            /\ \A X : \A v \in Targets : Occurrences(tgtIn'[v], X)
                 = Occurrences(tgtIn[v], X) + (IF v = u /\ report \in X THEN 1 ELSE 0)
      <4>1. ChannelsTypeOK
        BY <1>1
      <4> QED
        BY <2>4, <4>1, RunnerTells
    <3>0. /\ Occurrences(tgtIn'[t], Outcome)
               = Occurrences(tgtIn[t], Outcome) + (IF t = u /\ report \in Outcome THEN 1 ELSE 0)
          /\ tgtOut' = tgtOut /\ (runner[u] = "boot" \/ Busy(u))
      BY <3>1 DEF Busy
    <3>2. report \in Outcome <=> runner[u] # "boot"
      BY <3>1, KindFacts
    <3>3. Busy(t)' <=> Busy(t) /\ t # u
      BY <1>1, <3>1 DEF Busy
    <3>4. CASE t = u /\ runner[u] # "boot"
      BY <1>2, <1>3, <2>1, <3>0, <3>2, <3>3, <3>4
    <3>5. CASE t = u /\ runner[u] = "boot"
      <4>1. ~Busy(t)
        BY <3>5 DEF Busy
      <4> QED
        BY <1>2, <1>4, <2>1, <3>0, <3>2, <3>3, <3>5, <4>1
    <3>6. CASE t # u
      BY <1>2, <1>4, <2>1, <3>0, <3>3, <3>6
    <3> QED
      BY <3>4, <3>5, <3>6
  <2> QED
    BY <1>6, <2>2, <2>3, <2>4 DEF Runner, RunnerStep
<1>7. ASSUME NEW c \in Conns, ConnStep(c) \/ Reaccept(c) PROVE Goal
    BY <1>4, <1>7 DEF ConnStep, Reaccept, Ask, RequestSlot, CallRead, ReadReply, Close, Accept,
        brokerVars, loopVars, tgtVars, runnerVars, channels, Busy, Refusing
<1>8. ASSUME NEW u \in Targets, ContainerExit(u) PROVE Goal
    BY <1>4, <1>8 DEF ContainerExit, Exit, brokerVars, loopVars, tgtVars, channels, Busy, Refusing
<1>9. CASE UNCHANGED vars
    BY <1>4, <1>9 DEF vars, channels, brokerVars, loopVars, tgtVars, runnerVars, Busy, Refusing
<1> QED
    BY <1>5, <1>6, <1>7, <1>8, <1>9 DEF Next, BrokerStep, runnerVars

-----------------------------------------------------------------------------
(* LinkSound.  It would not survive a sweep that frees a target in use. *)

\* A target some source runs on has not been running longer than -release.
InUseYoung == \A t \in Targets : tgtState[t] = "Run" /\ InUse(t) => tgtAge[t] <= ReleaseTimeout

\* A source that runs does so on a target of its type.
RunsThere(s) ==
    srcState[s] = "Run" => /\ srcOpposite[s] \in Targets
                           /\ tgtState[srcOpposite[s]] = "Run"
                           /\ tgtType[srcOpposite[s]] = SrcType(s)

Apart(r, s) ==
    /\ srcState[r] = "Run" /\ srcState[s] = "Run" /\ ~YType(SrcType(s))
    /\ srcOpposite[r] = srcOpposite[s]
    => r = s

\* LinkSound, source by source and pair by pair.
LEMMA LinkSoundIs ==
    TypeOK /\ AddressKnown =>
        (LinkSound <=> /\ \A s \in Sources : RunsThere(s)
                       /\ \A r, s \in Sources : Apart(r, s))
<1> SUFFICES ASSUME TypeOK, AddressKnown
             PROVE  LinkSound <=> /\ \A s \in Sources : RunsThere(s)
                                  /\ \A r, s \in Sources : Apart(r, s)
    OBVIOUS
<1>1. \A s \in Sources : srcState[s] = "Run" => srcOpposite[s] \in Targets
    BY DEF TypeOK, BrokerTypeOK, SrcTypeOK, AddressKnown
<1> QED
    BY <1>1 DEF LinkSound, RunsThere, Apart

\* Every step keeps both: no outcome comes to a target in use, no release to one that is
\* starting.
LEMMA LinkSoundStep ==
    ASSUME Prompt, TypeOK, AddressInv, RegisteredOnce, NothingEarly, StartDiscipline, LinkSound,
           InUseYoung, [Next]_vars
    PROVE  /\ \A s \in Sources : RunsThere(s)'
           /\ \A r, s \in Sources : Apart(r, s)'
<1>1. /\ ChannelsTypeOK /\ BrokerTypeOK /\ LoopTypeOK /\ TgtTypeOK /\ SrcTypeOK
      /\ AddressKnown /\ JobKnown
      /\ \A s \in Sources : RunsThere(s)
      /\ \A r, s \in Sources : Apart(r, s)
    BY LinkSoundIs DEF TypeOK, BrokerTypeOK, AddressInv
<1>2. Balanced
    BY <1>1, DisciplineIs
<1> DEFINE Kept(s) == /\ srcState'[s] = "Run" => srcState[s] = "Run"
                      /\ srcState[s] = "Run" /\ srcState'[s] = "Run" =>
                            srcOpposite'[s] = srcOpposite[s] /\ srcJob'[s] = srcJob[s]
           Held(t) == tgtState[t] = "Run" => tgtState'[t] = "Run" /\ tgtType'[t] = tgtType[t]
           Goal == /\ \A s \in Sources : RunsThere(s)'
                   /\ \A r, s \in Sources : Apart(r, s)'
<1>3. ASSUME \A s \in Sources : Kept(s),
             \A s \in Sources : srcState'[s] = "Run" => Held(srcOpposite[s])
      PROVE  Goal
    BY <1>1, <1>3 DEF RunsThere, Apart, SrcType
<1>4. CASE UNCHANGED <<srcState, srcJob, srcOpposite, tgtState, tgtType>>
    BY <1>3, <1>4
<1>5. CASE HandleRelease
  <2>1. at \in Sources /\ srcState' = [srcState EXCEPT ![at] = "Free"] /\ UNCHANGED <<srcJob, srcOpposite>>
    BY <1>1, <1>5, AtFacts DEF HandleRelease
  <2>2. \A s \in Sources : Kept(s)
    BY <1>1, <2>1 DEF SrcTypeOK
  <2>3. \A t \in Targets : (FreesTarget /\ t = srcOpposite[at]) \/ Held(t)
    BY <1>1, <1>5 DEF HandleRelease, TgtTypeOK, tgtVars
  <2>4. \A s \in Sources : srcState'[s] = "Run" /\ FreesTarget => srcOpposite[s] # srcOpposite[at]
    BY <1>1, <2>1 DEF FreesTarget, Apart, SrcTypeOK
  <2>5. \A s \in Sources : srcState'[s] = "Run" => srcOpposite[s] \in Targets
    BY <1>1, <2>2 DEF RunsThere
  <2> QED
    BY <1>3, <2>2, <2>3, <2>4, <2>5
<1>6. CASE HandleAcquire
  <2>1. \A s \in Sources : Kept(s)
    BY <1>1, <1>6 DEF HandleAcquire, SrcTypeOK
  <2> QED
    BY <1>3, <1>6, <2>1 DEF HandleAcquire, tgtVars
<1>7. CASE RefuseWaiting
  <2>1. \A s \in Sources : Kept(s)
    BY <1>1, <1>7 DEF RefuseWaiting, SrcTypeOK
  <2> QED
    BY <1>3, <1>7, <2>1 DEF RefuseWaiting, tgtVars
<1>8. CASE HandleStarted \/ HandleFree \/ ClearFailed
  <2>1. at \in Targets /\ UNCHANGED srcVars
        /\ \A t \in Targets : t # at => tgtState'[t] = tgtState[t] /\ tgtType'[t] = tgtType[t]
    BY <1>1, <1>8, AtFacts DEF HandleStarted, HandleFree, ClearFailed, TgtTypeOK
  <2>2. CASE HandleStarted
    <3>1. tgtState[at] # "Run"
      BY <2>2, OutcomeTaken
    <3> QED
      BY <1>1, <1>3, <2>1, <3>1 DEF srcVars, RunsThere
  <2>3. CASE HandleFree
    <3>1. \A s \in Sources : srcState[s] = "Free"
      BY <2>3, FirstFree DEF NothingEarly
    <3> QED
      BY <1>3, <2>1, <3>1 DEF srcVars
  <2>4. CASE ClearFailed
    <3>1. tgtState[at] = "Starting"
      BY <1>2, <2>1, <2>4 DEF Balanced, NothingOnTheWay, Refusing, ClearFailed, In
    <3> QED
      BY <1>1, <1>3, <2>1, <3>1 DEF srcVars, RunsThere
  <2> QED
    BY <1>8, <2>2, <2>3, <2>4
<1>9. CASE Link
  <2>1. PICK t \in First(ToLink) :
            /\ tgtState' = [tgtState EXCEPT ![t] = "Run"]
            /\ srcOpposite' = [srcOpposite EXCEPT ![at] = t]
            /\ srcState' = [srcState EXCEPT ![at] = "Run"]
    BY <1>9 DEF Link
  <2>2. UNCHANGED <<srcJob, tgtType>> /\ at \in Sources
    BY <1>1, <1>9, AtFacts DEF Link
  <2>3. t \in Targets /\ tgtType[t] = SrcType(at) /\ (tgtState[t] = "Free" \/ YType(SrcType(at)))
    BY DEF First, ToLink, Matches
  <2>4. /\ srcState'[at] = "Run" /\ srcOpposite'[at] = t /\ tgtState'[t] = "Run"
        /\ \A s \in Sources \ {at} : srcState'[s] = srcState[s] /\ srcOpposite'[s] = srcOpposite[s]
        /\ \A u \in Targets \ {t} : tgtState'[u] = tgtState[u]
    BY <1>1, <2>1, <2>2, <2>3 DEF SrcTypeOK, TgtTypeOK
  <2>5. \A s \in Sources : RunsThere(s)'
    BY <1>1, <2>2, <2>3, <2>4 DEF RunsThere, SrcType
  <2>6. \A s \in Sources \ {at} : srcState[s] = "Run" /\ srcOpposite[s] = t =>
            YType(SrcType(at)) /\ SrcType(s) = SrcType(at)
    BY <1>1, <2>3 DEF RunsThere
  <2>7. \A r, s \in Sources : Apart(r, s)'
    BY <1>1, <2>2, <2>4, <2>6 DEF Apart, SrcType
  <2> QED
    BY <2>5, <2>7
<1>10. CASE StartContainer \/ StartCopy
  <2>1. PICK t \in Targets, s \in Sources :
            StartFor(t, s) /\ tgtState[t] = "Free" /\ srcState[s] = "Wait"
    BY <1>1, <1>10, StartSteps
  <2>2. \A r \in Sources : Kept(r)
    BY <1>1, <2>1 DEF StartFor, SrcTypeOK
  <2>3. \A u \in Targets : Held(u)
    BY <1>1, <2>1 DEF StartFor, TgtTypeOK
  <2> QED
    BY <1>1, <1>3, <2>2, <2>3 DEF RunsThere
<1>11. CASE Sweep
  <2>1. UNCHANGED srcVars
    BY <1>11 DEF Sweep
  <2>2. \A s \in Sources : srcState[s] = "Run" =>
            ~Unused(srcOpposite[s]) /\ ~Overdue(srcOpposite[s]) /\ srcOpposite[s] \in Targets
    <3> SUFFICES ASSUME NEW s \in Sources, srcState[s] = "Run"
                 PROVE  /\ ~Unused(srcOpposite[s]) /\ ~Overdue(srcOpposite[s])
                        /\ srcOpposite[s] \in Targets
      OBVIOUS
    <3>1. /\ srcOpposite[s] \in Targets /\ tgtState[srcOpposite[s]] = "Run"
          /\ tgtType[srcOpposite[s]] = SrcType(s)
      BY <1>1 DEF RunsThere
    <3>2. ~Unused(srcOpposite[s])
      BY <3>1 DEF Unused
    <3>3. tgtAge[srcOpposite[s]] <= ReleaseTimeout
      BY <3>1 DEF InUseYoung, InUse
    <3>4. ReleaseTimeout \in Int /\ tgtAge[srcOpposite[s]] \in Int
      BY <1>1, <3>1, BrokerAssumption DEF TgtTypeOK, Ages
    <3>5. ~Overdue(srcOpposite[s])
      BY <3>3, <3>4 DEF Overdue
    <3> QED
      BY <3>1, <3>2, <3>5
  <2>3. \A t \in Targets : ~Unused(t) /\ ~Overdue(t) =>
            tgtState'[t] = tgtState[t] /\ tgtType'[t] = tgtType[t]
    BY <1>11 DEF Sweep
  <2> QED
    BY <1>3, <2>1, <2>2, <2>3 DEF srcVars
<1>12. ASSUME Run PROVE Goal
  <2>1. \/ UNCHANGED <<srcState, srcJob, srcOpposite, tgtState, tgtType>>
        \/ HandleRelease \/ HandleAcquire \/ RefuseWaiting
        \/ HandleStarted \/ HandleFree \/ ClearFailed
        \/ Link \/ StartContainer \/ StartCopy \/ Sweep
    BY <1>12 DEF Run, QueueRefused, SendRefusal, SkipSource, SkipTarget, HandleError, LinkNext,
        StartNone, CopyNone, Sleep, srcVars, tgtVars
  <2> QED
    BY ONLY <1>4, <1>5, <1>6, <1>7, <1>8, <1>9, <1>10, <1>11, <2>1
<1>13. BrokerStep \/ UNCHANGED <<srcState, srcJob, srcOpposite, tgtState, tgtType>>
    BY DEF Next, vars, ConnStep, Reaccept, Runner, ContainerExit, brokerVars, srcVars, tgtVars
<1> QED
    BY <1>4, <1>12, <1>13 DEF BrokerStep

\* The broker's clock does not make a target in use old.
LEMMA InUseYoungStep ==
    ASSUME ShortJobs, TypeOK, InUseYoung, [Next]_vars
    PROVE  InUseYoung'
<1>1. BrokerTypeOK /\ TgtTypeOK /\ SrcTypeOK /\ LoopTypeOK
    BY DEF TypeOK, BrokerTypeOK
<1>2. \A t \in Targets : tgtAge[t] \in Nat
    BY <1>1, BrokerAssumption DEF TgtTypeOK, Ages, Since0, AgeCap
\* No source comes to run on a target that was not in use, and no target grows old.
<1>3. ASSUME \A s \in Sources : srcState'[s] = "Run" =>
                srcState[s] = "Run" /\ srcOpposite'[s] = srcOpposite[s],
             \A t \in Targets : tgtState'[t] = "Run" => tgtState[t] = "Run" /\ tgtAge'[t] = tgtAge[t]
      PROVE  InUseYoung'
    BY <1>3 DEF InUseYoung, InUse
<1>4. CASE UNCHANGED <<srcState, srcOpposite, tgtState, tgtAge>>
    BY <1>3, <1>4
<1>5. CASE HandleRelease
  <2>1. \A s \in Sources : srcState'[s] = "Run" => srcState[s] = "Run" /\ srcOpposite'[s] = srcOpposite[s]
    BY <1>1, <1>5 DEF HandleRelease, SrcTypeOK
  <2>2. \A t \in Targets : tgtState'[t] = "Run" => tgtState[t] = "Run" /\ tgtAge'[t] = tgtAge[t]
    BY <1>1, <1>5 DEF HandleRelease, TgtTypeOK, tgtVars
  <2> QED
    BY <1>3, <2>1, <2>2
<1>6. CASE HandleAcquire \/ RefuseWaiting
    BY <1>1, <1>3, <1>6 DEF HandleAcquire, RefuseWaiting, SrcTypeOK, tgtVars
<1>7. CASE HandleStarted \/ HandleFree \/ ClearFailed
    BY <1>1, <1>3, <1>7 DEF HandleStarted, HandleFree, ClearFailed, TgtTypeOK, srcVars
<1>8. CASE Link
  <2>1. PICK t \in First(ToLink) :
            /\ tgtState' = [tgtState EXCEPT ![t] = "Run"]
            /\ tgtAge' = [tgtAge EXCEPT ![t] = 0]
            /\ srcOpposite' = [srcOpposite EXCEPT ![at] = t]
            /\ srcState' = [srcState EXCEPT ![at] = "Run"]
    BY <1>8 DEF Link
  <2>2. t \in Targets /\ at \in Sources
    BY <1>1, <1>8, AtFacts DEF Link, First, ToLink, Matches
  <2>3. tgtAge'[t] <= ReleaseTimeout
    BY <1>1, <2>1, <2>2, BrokerAssumption DEF TgtTypeOK
  <2>4. /\ \A u \in Targets \ {t} : tgtState'[u] = tgtState[u] /\ tgtAge'[u] = tgtAge[u]
        /\ \A s \in Sources \ {at} : srcState'[s] = srcState[s] /\ srcOpposite'[s] = srcOpposite[s]
        /\ srcOpposite'[at] = t
    BY <1>1, <2>1, <2>2 DEF TgtTypeOK, SrcTypeOK
  <2>5. ASSUME NEW u \in Targets, tgtState'[u] = "Run", InUse(u)', u # t
        PROVE  tgtAge'[u] <= ReleaseTimeout
    <3>1. PICK s \in Sources : srcState'[s] = "Run" /\ srcOpposite'[s] = u
      BY <2>5 DEF InUse
    <3>2. s # at
      BY <2>4, <2>5, <3>1
    <3> QED
      BY <2>4, <2>5, <3>1, <3>2 DEF InUseYoung, InUse
  <2> QED
    BY <2>3, <2>5 DEF InUseYoung
<1>9. CASE StartContainer \/ StartCopy
  <2>1. PICK t \in Targets, s \in Sources :
            StartFor(t, s) /\ srcState[s] = "Wait"
    BY <1>1, <1>9, StartSteps
  <2>2. \A r \in Sources : srcState'[r] = "Run" => srcState[r] = "Run" /\ srcOpposite'[r] = srcOpposite[r]
    BY <1>1, <2>1 DEF StartFor, SrcTypeOK
  <2>3. \A u \in Targets : tgtState'[u] = "Run" => tgtState[u] = "Run" /\ tgtAge'[u] = tgtAge[u]
    BY <1>1, <2>1 DEF StartFor, TgtTypeOK
  <2> QED
    BY <1>3, <2>2, <2>3
<1>10. CASE Sweep
    BY <1>3, <1>10 DEF Sweep, srcVars
<1>11. ASSUME NEW d \in Elapse, Sleep(d) PROVE InUseYoung'
  <2>1. /\ \A t \in Targets : tgtState[t] = "Run" /\ InUse(t) => tgtAge[t] + d <= ReleaseTimeout
        /\ \A t \in Targets : tgtAge'[t] = Older(tgtAge[t], d)
        /\ UNCHANGED <<srcState, srcOpposite, tgtState>>
    BY <1>11 DEF Sleep, ShortJobs
  <2>2. ASSUME NEW age \in Nat, age + d <= ReleaseTimeout PROVE Older(age, d) <= ReleaseTimeout
    BY <2>2, BrokerAssumption DEF Older, AgeCap
  <2> QED
    BY <1>2, <2>1, <2>2 DEF InUseYoung, InUse
<1>12. ASSUME Run PROVE InUseYoung'
  <2>1. \/ UNCHANGED <<srcState, srcOpposite, tgtState, tgtAge>>
        \/ HandleRelease \/ HandleAcquire \/ RefuseWaiting
        \/ HandleStarted \/ HandleFree \/ ClearFailed
        \/ Link \/ StartContainer \/ StartCopy \/ Sweep \/ \E d \in Elapse : Sleep(d)
    BY <1>12 DEF Run, QueueRefused, SendRefusal, SkipSource, SkipTarget, HandleError, LinkNext,
        StartNone, CopyNone, srcVars, tgtVars
  <2> QED
    BY ONLY <1>4, <1>5, <1>6, <1>7, <1>8, <1>9, <1>10, <1>11, <2>1
<1>13. BrokerStep \/ UNCHANGED <<srcState, srcOpposite, tgtState, tgtAge>>
    BY DEF Next, vars, ConnStep, Reaccept, Runner, ContainerExit, brokerVars, srcVars, tgtVars
<1> QED
    BY <1>4, <1>12, <1>13 DEF BrokerStep

-----------------------------------------------------------------------------
LinkInv == RegisteredOnce /\ NothingEarly /\ StartDiscipline /\ LinkSound /\ InUseYoung

\* LinkSoundIs after a step.
LEMMA LinkSoundNext ==
    TypeOK' /\ AddressKnown' =>
        (LinkSound' <=> (/\ \A s \in Sources : RunsThere(s)
                         /\ \A r, s \in Sources : Apart(r, s))')
BY LinkSoundIs, PTL

\* The parts of LinkInv are inductive together.
LEMMA LinkInvariant == Prompt => (Spec => []LinkInv)
<1> SUFFICES ASSUME Prompt PROVE Spec => []LinkInv
    OBVIOUS
<1>1. TypeOK /\ AddressInv /\ Init => LinkInv
  <2> SUFFICES ASSUME TypeOK, AddressInv, Init PROVE LinkInv
    OBVIOUS
  <2>1. /\ \A t \in Targets : tgtIn[t] = <<>> /\ tgtOut[t] = <<>> /\ runner[t] = "boot"
                              /\ tgtRef[t] = Nil /\ tgtState[t] = "Free"
        /\ \A s \in Sources : srcState[s] = "Free" /\ srcIn[s] = <<>>
        /\ \A c \in Conns : conn[c] = "idle"
        /\ phase = "sources"
    BY DEF Init, ChannelsInit, BrokerInit, RunnerInit, ResolverInit
  <2>2. RegisteredOnce
    BY <2>1, CountEmpty DEF RegisteredOnce, One
  <2>3. NothingEarly
    BY <2>1 DEF NothingEarly
  <2>4. StartDiscipline
    <3>1. Balanced
      BY <2>1, CountEmpty DEF Balanced, NothingOnTheWay, Busy, Refusing
    <3> QED
      BY <3>1, DisciplineIs DEF TypeOK
  <2>5. LinkSound /\ InUseYoung
    BY <2>1 DEF LinkSound, InUseYoung
  <2> QED
    BY <2>2, <2>3, <2>4, <2>5 DEF LinkInv
<1>2. TypeOK /\ TypeOK' /\ AddressInv /\ AddressInv' /\ LinkInv /\ [Next]_vars => LinkInv'
  <2> SUFFICES ASSUME TypeOK, TypeOK', AddressInv, AddressInv', LinkInv, [Next]_vars
               PROVE  LinkInv'
    OBVIOUS
  <2>1. RegisteredOnce'
    BY RegisteredStep DEF LinkInv
  <2>2. NothingEarly'
    BY NothingEarlyStep DEF LinkInv, AddressInv
  <2>3. StartDiscipline'
    BY StartDisciplineStep DEF LinkInv, AddressInv
  <2>4. LinkSound'
    BY LinkSoundStep, LinkSoundNext DEF LinkInv, AddressInv
  <2>5. InUseYoung'
    BY InUseYoungStep DEF LinkInv, Prompt
  <2> QED
    BY <2>1, <2>2, <2>3, <2>4, <2>5 DEF LinkInv
<1> QED
    BY <1>1, <1>2, TypeCorrect, AddressInvariant, PTL DEF Spec

\* A target that is starting has one start on the way, and one that is not has none:
\* the broker never orders a second start meanwhile, nor mistakes an outcome.
THEOREM StartsDisciplined == Prompt => (Spec => []StartDiscipline)
<1>1. LinkInv => StartDiscipline
    BY DEF LinkInv
<1> QED
    BY <1>1, LinkInvariant, PTL

\* A source that runs is linked to a target that runs its type, and two x-type
\* jobs never run on one target.
THEOREM LinksSound == Prompt => (Spec => []LinkSound)
<1>1. LinkInv => LinkSound
    BY DEF LinkInv
<1> QED
    BY <1>1, LinkInvariant, PTL
-----------------------------------------------------------------------------
(***************************************************************************)
(* Clients that come before the runners.  The registration of a runner     *)
(* frees a target that is starting already, and another start may be       *)
(* ordered of it: StartDiscipline fails.  When the first of two outcomes   *)
(* frees a target in use, its client stays as a stray, and by leaving      *)
(* frees a target that is starting.  But strays and orders that nobody     *)
(* waits for are made of each other: there is never more than one.         *)
(***************************************************************************)
OnTheWay(t) ==
    Len(tgtOut[t]) + One(Busy(t)) + Occurrences(tgtIn[t], Outcome) + One(Refusing(t))

\* The sources that free target t when they let go.
Exclusives(t) == {s \in Sources : srcState[s] = "Run" /\ ~YType(SrcType(s)) /\ srcOpposite[s] = t}

\* One of them is who the target runs for.
Owned(t) == tgtState[t] = "Run" /\ ~YType(tgtType[t]) /\ Exclusives(t) # {}

Strays(t) == Cardinality(Exclusives(t)) - One(Owned(t))

Within(t) == OnTheWay(t) + Strays(t) <= One(tgtState[t] = "Starting") + One(tgtRef[t] # Nil)

Budget == \A t \in Targets : Within(t)

\* A set with an element put in has at most one more than before.
LEMMA AddedOne ==
    ASSUME NEW S, NEW x, IsFiniteSet(S)
    PROVE  Cardinality(S \cup {x}) <= Cardinality(S) + 1
<1>1. Cardinality(S) \in Nat
    BY FS_CardinalityType
<1>2. Cardinality(S \cup {x}) = IF x \in S THEN Cardinality(S) ELSE Cardinality(S) + 1
    BY FS_AddElement
<1> QED
    BY <1>1, <1>2

\* The orders on the way are a number.
LEMMA OnTheWayType ==
    ASSUME ChannelsTypeOK, NEW t \in Targets
    PROVE  /\ OnTheWay(t) \in Nat
           /\ Len(tgtOut[t]) \in Nat /\ Occurrences(tgtIn[t], Outcome) \in Nat
           /\ Len(tgtOut[t]) <= OnTheWay(t)
<1>1. Len(tgtOut[t]) \in Nat /\ Occurrences(tgtIn[t], Outcome) \in Nat
  <2>1. tgtOut[t] \in Seq(Command) /\ tgtIn[t] \in Seq(Report)
    BY DEF ChannelsTypeOK
  <2>2. Len(tgtOut[t]) \in Nat
    BY <2>1
  <2>3. Occurrences(tgtIn[t], Outcome) \in Nat
    BY <2>1, CountType
  <2> QED
    BY <2>2, <2>3
<1>2. One(Busy(t)) \in Nat /\ One(Refusing(t)) \in Nat
    BY DEF One
<1> QED
    BY <1>1, <1>2 DEF OnTheWay

\* They are one after a step, too.
LEMMA OnTheWayTypeNext == ChannelsTypeOK' => (\A t \in Targets : OnTheWay(t) \in Nat)'
<1>1. ChannelsTypeOK => \A t \in Targets : OnTheWay(t) \in Nat
    BY OnTheWayType
<1> QED
    BY <1>1, PTL

\* What the channels of a target, its runner and the broker do with a start.
LEMMA SameOnTheWay ==
    ASSUME NEW t \in Targets,
           Len(tgtOut'[t]) = Len(tgtOut[t]), Busy(t)' <=> Busy(t),
           Occurrences(tgtIn'[t], Outcome) = Occurrences(tgtIn[t], Outcome),
           Refusing(t)' <=> Refusing(t)
    PROVE  OnTheWay(t)' = OnTheWay(t)
<1>1. One(Busy(t))' = One(Busy(t)) /\ One(Refusing(t))' = One(Refusing(t))
    BY DEF One
<1> QED
    BY <1>1 DEF OnTheWay

\* The strays are a number, as there are only NumSources sources.
LEMMA StrayFacts ==
    ASSUME NEW t \in Targets
    PROVE  /\ IsFiniteSet(Exclusives(t)) /\ Cardinality(Exclusives(t)) \in Nat
           /\ Cardinality(Exclusives(t)) = 0 <=> Exclusives(t) = {}
           /\ Strays(t) \in Nat
<1>1. IsFiniteSet(Sources)
    BY FS_Interval, SlotsAssumption DEF Sources
<1>2. Exclusives(t) \in SUBSET Sources
    BY DEF Exclusives
<1>3. IsFiniteSet(Exclusives(t)) /\ Cardinality(Exclusives(t)) \in Nat
    BY <1>1, <1>2, FS_Subset, FS_CardinalityType
<1>4. Cardinality(Exclusives(t)) = 0 <=> Exclusives(t) = {}
    BY <1>3, FS_EmptySet
<1> QED
    BY <1>3, <1>4 DEF Strays, Owned, One

\* They are one after a step, too.
LEMMA StrayFactsNext ==
    ASSUME NEW t \in Targets
    PROVE  /\ IsFiniteSet(Exclusives(t)') /\ Cardinality(Exclusives(t)') \in Nat
           /\ Cardinality(Exclusives(t)') = 0 <=> Exclusives(t)' = {}
           /\ Strays(t)' \in Nat
<1>1. \A u \in Targets : /\ IsFiniteSet(Exclusives(u)) /\ Cardinality(Exclusives(u)) \in Nat
                         /\ Cardinality(Exclusives(u)) = 0 <=> Exclusives(u) = {}
                         /\ Strays(u) \in Nat
    BY StrayFacts
<1>2. (\A u \in Targets : /\ IsFiniteSet(Exclusives(u)) /\ Cardinality(Exclusives(u)) \in Nat
                          /\ Cardinality(Exclusives(u)) = 0 <=> Exclusives(u) = {}
                          /\ Strays(u) \in Nat)'
    BY <1>1, PTL
<1> QED
    BY <1>2

\* Nobody becomes a stray but by losing the target.
LEMMA FewerStrays ==
    ASSUME NEW t \in Targets, Exclusives(t)' \subseteq Exclusives(t),
           Owned(t) /\ Exclusives(t)' # {} => Owned(t)'
    PROVE  Strays(t)' <= Strays(t)
<1>1. /\ IsFiniteSet(Exclusives(t)) /\ Cardinality(Exclusives(t)) \in Nat
      /\ Cardinality(Exclusives(t)') \in Nat /\ Strays(t) \in Nat
      /\ Cardinality(Exclusives(t)') = 0 <=> Exclusives(t)' = {}
    BY StrayFacts, StrayFactsNext
<1>2. Cardinality(Exclusives(t)') <= Cardinality(Exclusives(t))
    BY <1>1, FS_Subset
<1>3. CASE Exclusives(t)' = {}
  <2>1. Strays(t)' = 0
    BY <1>1, <1>3 DEF Strays, Owned, One
  <2> QED
    BY <1>1, <2>1
<1>4. CASE Exclusives(t)' # {}
  <2>1. One(Owned(t)) <= One(Owned(t)') /\ One(Owned(t)) \in {0, 1} /\ One(Owned(t)') \in {0, 1}
    BY <1>4 DEF One
  <2> QED
    BY <1>1, <1>2, <2>1 DEF Strays
<1> QED
    BY <1>3, <1>4

\* A target that is free, or starting, is nobody's; a client whose target is taken is a stray.
LEMMA StraysLost ==
    ASSUME NEW t \in Targets, Exclusives(t)' = Exclusives(t), tgtState'[t] # "Run"
    PROVE  Strays(t)' = Strays(t) + One(Owned(t))
<1>1. Cardinality(Exclusives(t)) \in Nat
    BY StrayFacts
<1>2. ~ Owned(t)'
    BY DEF Owned
<1> QED
    BY <1>1, <1>2 DEF Strays, One

\* A runner passes a start on, from its order to its outcome.
LEMMA RunnerOnTheWay ==
    ASSUME TypeOK, NEW u \in Targets, Runner(u), NEW t \in Targets
    PROVE  OnTheWay(t)' = OnTheWay(t)
<1>1. ChannelsTypeOK /\ runner \in [Targets -> RunnerStates]
    BY DEF TypeOK, RunnerTypeOK
<1>2. Refusing(t)' <=> Refusing(t)
    BY DEF Runner, brokerVars, loopVars, Refusing
<1>3. /\ Len(tgtOut[t]) \in Nat /\ Occurrences(tgtIn[t], Outcome) \in Nat
      /\ One(Refusing(t)') = One(Refusing(t)) /\ One(Refusing(t)) \in {0, 1}
    BY <1>1, <1>2, OnTheWayType DEF One
<1>4. CASE ReadStart(u)
  <2>1. /\ Len(tgtOut'[t]) = Len(tgtOut[t]) - (IF t = u THEN 1 ELSE 0) /\ tgtIn' = tgtIn
        /\ (Busy(t)' <=> Busy(t) \/ t = u) /\ (t = u => ~Busy(t))
    BY <1>1, <1>4, StartTaken DEF Busy
  <2>2. CASE t = u
    <3>1. One(Busy(t)') = 1 /\ One(Busy(t)) = 0
      BY <2>1, <2>2 DEF One
    <3> QED
      BY <1>3, <2>1, <2>2, <3>1 DEF OnTheWay
  <2>3. CASE t # u
    BY <1>2, <1>3, <2>1, <2>3, SameOnTheWay
  <2> QED
    BY <2>2, <2>3
<1>5. CASE KillOld(u) \/ Launch(u)
  <2>1. UNCHANGED <<tgtOut, tgtIn>> /\ (Busy(t)' <=> Busy(t))
    BY <1>1, <1>5 DEF KillOld, Launch, Busy
  <2> QED
    BY <1>2, <2>1, SameOnTheWay
<1>6. CASE Register(u) \/ StartFails(u) \/ Ready(u) \/ NotReady(u)
  <2>1. PICK report \in Report :
            /\ report = IF runner[u] = "boot" THEN Free(u) ELSE IF Ready(u) THEN Started ELSE Failed
            /\ runner' = [runner EXCEPT ![u] = "read"]
            /\ UNCHANGED <<tgtOut, runnerJob, container>>
            /\ runner[u] = "boot" \/ runner[u] \in {"kill", "launch", "wait"}
            /\ \A v \in Targets \ {u} : tgtIn'[v] = tgtIn[v]
            /\ \A X : \A v \in Targets : Occurrences(tgtIn'[v], X)
                 = Occurrences(tgtIn[v], X) + (IF v = u /\ report \in X THEN 1 ELSE 0)
    BY <1>1, <1>6, RunnerTells
  <2>2. /\ Occurrences(tgtIn'[t], Outcome)
             = Occurrences(tgtIn[t], Outcome) + (IF t = u /\ report \in Outcome THEN 1 ELSE 0)
        /\ tgtOut' = tgtOut
    BY <2>1
  <2>3. report \in Outcome <=> runner[u] # "boot"
    BY <2>1, KindFacts
  <2>4. (Busy(t)' <=> Busy(t) /\ t # u) /\ (Busy(u) <=> runner[u] # "boot")
    BY <1>1, <2>1 DEF Busy
  <2>5. CASE t = u /\ runner[u] # "boot"
    <3>1. One(Busy(t)') = 0 /\ One(Busy(t)) = 1
      BY <2>4, <2>5 DEF One
    <3> QED
      BY <1>3, <2>2, <2>3, <2>5, <3>1 DEF OnTheWay
  <2>6. CASE t # u \/ runner[u] = "boot"
    <3>1. /\ Len(tgtOut'[t]) = Len(tgtOut[t]) /\ (Busy(t)' <=> Busy(t))
          /\ Occurrences(tgtIn'[t], Outcome) = Occurrences(tgtIn[t], Outcome)
      BY <1>3, <2>2, <2>3, <2>4, <2>6
    <3> QED
      BY <1>2, <3>1, SameOnTheWay
  <2> QED
    BY <2>5, <2>6
<1> QED
    BY <1>4, <1>5, <1>6 DEF Runner, RunnerStep

\* The broker takes an outcome off the way, at once or when all are refused who waited.
LEMMA OutcomeOffTheWay ==
    ASSUME TypeOK, UNCHANGED runner, HandleStarted \/ ClearFailed, NEW t \in Targets
    PROVE  at \in Targets /\ OnTheWay(t)' = OnTheWay(t) - One(t = at)
<1>1. /\ ChannelsTypeOK /\ BrokerTypeOK /\ LoopTypeOK /\ One(Busy(t)') = One(Busy(t))
      /\ One(Busy(t)) \in {0, 1}
    BY DEF TypeOK, BrokerTypeOK, Busy, One
<1>2. Len(tgtOut[t]) \in Nat /\ Occurrences(tgtIn[t], Outcome) \in Nat
    BY <1>1, OnTheWayType
<1>3. CASE HandleStarted
  <2>1. /\ at \in Targets /\ Head(tgtIn[at]) \in Report
        /\ Occurrences(tgtIn'[t], Outcome)
             = Occurrences(tgtIn[t], Outcome) - (IF t = at /\ Head(tgtIn[at]) \in Outcome THEN 1 ELSE 0)
    BY <1>1, <1>3, BrokerTakes
  <2>2. Head(tgtIn[at]) \in Outcome
    BY <1>3, <2>1, KindFacts DEF HandleStarted
  <2>3. tgtOut' = tgtOut /\ One(Refusing(t)) = 0 /\ One(Refusing(t)') = 0
    BY <1>3, <2>1 DEF HandleStarted, Advance, Refusing, In, One
  <2>4. /\ Occurrences(tgtIn'[t], Outcome) = Occurrences(tgtIn[t], Outcome) - One(t = at)
        /\ One(t = at) \in {0, 1}
    BY <1>2, <2>1, <2>2 DEF One
  <2> QED
    BY <1>1, <1>2, <2>1, <2>3, <2>4 DEF OnTheWay
<1>4. CASE ClearFailed
  <2>1. at \in Targets /\ UNCHANGED <<tgtIn, tgtOut>>
    BY <1>1, <1>4, AtFacts DEF ClearFailed, channels
  <2>2. One(Refusing(t)) = One(t = at) /\ One(Refusing(t)') = 0 /\ One(t = at) \in {0, 1}
    BY <1>4, <2>1 DEF ClearFailed, Refusing, In, One
  <2> QED
    BY <1>1, <1>2, <2>1, <2>2 DEF OnTheWay
<1> QED
    BY <1>3, <1>4

\* The broker reads a failure: it is still on the way, until all are refused who waited.
LEMMA FailureOnTheWay ==
    ASSUME TypeOK, UNCHANGED runner, HandleError, NEW t \in Targets
    PROVE  OnTheWay(t)' = OnTheWay(t)
<1>1. /\ ChannelsTypeOK /\ BrokerTypeOK /\ LoopTypeOK /\ One(Busy(t)') = One(Busy(t))
      /\ One(Busy(t)) \in {0, 1}
    BY DEF TypeOK, BrokerTypeOK, Busy, One
<1>2. Len(tgtOut[t]) \in Nat /\ Occurrences(tgtIn[t], Outcome) \in Nat
    BY <1>1, OnTheWayType
<1>3. /\ at \in Targets /\ Head(tgtIn[at]) \in Report
      /\ Occurrences(tgtIn'[t], Outcome)
           = Occurrences(tgtIn[t], Outcome) - (IF t = at /\ Head(tgtIn[at]) \in Outcome THEN 1 ELSE 0)
    BY <1>1, BrokerTakes
<1>4. Head(tgtIn[at]) \in Outcome
    BY <1>3, KindFacts DEF HandleError
<1>5. tgtOut' = tgtOut /\ One(Refusing(t)) = 0 /\ One(Refusing(t)') = One(t = at) /\ One(t = at) \in {0, 1}
    BY <1>3 DEF HandleError, Refusing, In, One
<1>6. Occurrences(tgtIn'[t], Outcome) = Occurrences(tgtIn[t], Outcome) - One(t = at)
    BY <1>2, <1>3, <1>4 DEF One
<1> QED
    BY <1>1, <1>2, <1>5, <1>6 DEF OnTheWay

\* The broker reads a registration: it is the first thing it hears of the target.
LEMMA FirstHeard ==
    ASSUME TypeOK, AddressInv, RegisteredOnce, UNCHANGED runner, HandleFree, NEW t \in Targets
    PROVE  /\ OnTheWay(t)' = OnTheWay(t)
           /\ at \in Targets /\ tgtRef[at] = Nil /\ Exclusives(at) = {}
<1>1. /\ ChannelsTypeOK /\ BrokerTypeOK /\ LoopTypeOK
      /\ at \in Targets /\ tgtIn[at] # <<>> /\ Head(tgtIn[at]) \in Report
      /\ Occurrences(tgtIn'[t], Outcome)
           = Occurrences(tgtIn[t], Outcome) - (IF t = at /\ Head(tgtIn[at]) \in Outcome THEN 1 ELSE 0)
    BY BrokerTakes DEF TypeOK, BrokerTypeOK
<1>2. Head(tgtIn[at]) \in Registration /\ Head(tgtIn[at]) \notin Outcome
    BY <1>1, KindFacts DEF HandleFree
<1>3. Occurrences(tgtIn'[t], Outcome) = Occurrences(tgtIn[t], Outcome)
    BY <1>1, <1>2, OnTheWayType
<1>4. OnTheWay(t)' = OnTheWay(t)
    BY <1>3, SameOnTheWay DEF HandleFree, Advance, Refusing, In, Busy
<1>5. tgtRef[at] = Nil
  <2>1. tgtIn[at] \in Seq(Report)
    BY <1>1 DEF ChannelsTypeOK
  <2>2. Occurrences(tgtIn[at], Registration) \in Nat \ {0}
    BY <1>1, <1>2, <2>1, CountHead
  <2> QED
    BY <1>1, <2>2 DEF RegisteredOnce, One
<1>6. Exclusives(at) = {}
    BY <1>5 DEF Exclusives, AddressInv, AddressKnown
<1> QED
    BY <1>1, <1>4, <1>5, <1>6

\* Neither an order nor an outcome in any other step of the broker.
LEMMA BrokerOnTheWay ==
    ASSUME TypeOK, UNCHANGED runner, Run, NEW t \in Targets,
           ~ (HandleStarted \/ HandleFree \/ HandleError \/ ClearFailed),
           ~ (StartContainer \/ StartCopy)
    PROVE  OnTheWay(t)' = OnTheWay(t)
<1>1. UNCHANGED <<tgtIn, tgtOut>> /\ (Busy(t)' <=> Busy(t))
    BY DEF Run, QueueRefused, SendRefusal, SkipSource, HandleRelease, HandleAcquire, SkipTarget,
        RefuseWaiting, Link, LinkNext, StartNone, CopyNone, Sweep, Sleep, channels, Busy
<1>2. Refusing(t)' <=> Refusing(t)
  <2>1. CASE QueueRefused \/ SendRefusal \/ RefuseWaiting \/ Link
    BY <2>1 DEF QueueRefused, SendRefusal, RefuseWaiting, Link, Refusing
  <2>2. CASE SkipSource \/ HandleRelease \/ HandleAcquire \/ SkipTarget \/ LinkNext
    BY <2>2 DEF SkipSource, HandleRelease, HandleAcquire, SkipTarget, LinkNext, Advance, Refusing, In
  <2>3. CASE StartNone \/ CopyNone \/ Sweep \/ \E d \in Elapse : Sleep(d)
    BY <2>3 DEF StartNone, CopyNone, Sweep, Sleep, Goto, Refusing, In
  <2> QED
    BY <2>1, <2>2, <2>3 DEF Run
<1> QED
    BY <1>1, <1>2, SameOnTheWay

\* What a step of the broker does to a target keeps it within its budget.
LEMMA WithinStep ==
    ASSUME TypeOK, TypeOK', AddressInv, RegisteredOnce, InUseYoung, Run, UNCHANGED runner,
           NEW t \in Targets, tgtRef[t] # Nil => tgtRef'[t] # Nil, Within(t)
    PROVE  Within(t)'
<1>1. /\ ChannelsTypeOK /\ ChannelsTypeOK' /\ BrokerTypeOK /\ LoopTypeOK /\ TgtTypeOK /\ SrcTypeOK
      /\ AddressKnown /\ JobKnown
    BY DEF TypeOK, BrokerTypeOK, AddressInv
<1>2. /\ OnTheWay(t) \in Nat /\ OnTheWay(t)' \in Nat /\ Strays(t) \in Nat /\ Strays(t)' \in Nat
    BY <1>1, OnTheWayType, OnTheWayTypeNext, StrayFacts, StrayFactsNext
<1>3. /\ One(tgtState[t] = "Starting") \in {0, 1} /\ One(tgtState[t] = "Starting")' \in {0, 1}
      /\ One(tgtRef[t] # Nil) \in {0, 1} /\ One(tgtRef[t] # Nil)' \in {0, 1}
      /\ One(Owned(t)) \in {0, 1}
    BY DEF One
<1>4. One(tgtRef[t] # Nil) <= One(tgtRef[t] # Nil)'
    BY DEF One
<1>0. UNCHANGED <<srcState, srcJob, srcOpposite>> => Exclusives(t)' = Exclusives(t)
    BY DEF Exclusives, SrcType
<1>5. ASSUME OnTheWay(t)' = OnTheWay(t), Strays(t)' <= Strays(t),
             tgtState[t] = "Starting" => tgtState'[t] = "Starting"
      PROVE  Within(t)'
  <2>1. One(tgtState[t] = "Starting") <= One(tgtState[t] = "Starting")'
    BY <1>5 DEF One
  <2> QED
    BY <1>2, <1>3, <1>4, <1>5, <2>1 DEF Within
<1>6. CASE HandleRelease
  <2>1. at \in Sources /\ OnTheWay(t)' = OnTheWay(t)
    BY <1>1, <1>6, AtFacts, BrokerOnTheWay DEF HandleRelease, HandleStarted, HandleFree, HandleError,
        ClearFailed, StartContainer, StartCopy, In
  <2>2. /\ srcState' = [srcState EXCEPT ![at] = "Free"] /\ UNCHANGED <<srcJob, srcOpposite>>
    BY <1>6 DEF HandleRelease
  <2>3. Exclusives(t)' = Exclusives(t) \ {at}
    BY <1>1, <2>1, <2>2 DEF Exclusives, SrcType, SrcTypeOK
  <2>4. CASE FreesTarget /\ t = srcOpposite[at]
    <3>1. tgtState'[t] = "Free" /\ at \in Exclusives(t)
      BY <1>1, <1>6, <2>1, <2>4 DEF HandleRelease, FreesTarget, Exclusives, TgtTypeOK
    <3>2. Cardinality(Exclusives(t)') = Cardinality(Exclusives(t)) - 1
          /\ Cardinality(Exclusives(t)) \in Nat
      BY <2>3, <3>1, StrayFacts, FS_RemoveElement
    <3>3. Strays(t)' = Cardinality(Exclusives(t)) - 1
      BY <3>1, <3>2 DEF Strays, Owned, One
    <3>4. CASE tgtState[t] = "Starting"
      <4>1. Strays(t) = Cardinality(Exclusives(t)) /\ One(tgtState[t] = "Starting") = 1
            /\ One(tgtState[t] = "Starting")' = 0
        BY <3>1, <3>2, <3>4 DEF Strays, Owned, One
      <4> QED
        BY <1>2, <1>3, <1>4, <2>1, <3>2, <3>3, <4>1 DEF Within
    <3>5. CASE tgtState[t] # "Starting"
      <4>1. Strays(t)' <= Strays(t)
        BY <1>3, <3>2, <3>3 DEF Strays
      <4> QED
        BY <1>5, <2>1, <3>5, <4>1
    <3> QED
      BY <3>4, <3>5
  <2>5. CASE ~ (FreesTarget /\ t = srcOpposite[at])
    <3>1. tgtState'[t] = tgtState[t] /\ tgtType'[t] = tgtType[t]
      BY <1>1, <1>6, <2>5 DEF HandleRelease, tgtVars, TgtTypeOK
    <3>2. Strays(t)' <= Strays(t)
      BY <2>3, <3>1, FewerStrays DEF Owned
    <3> QED
      BY <1>5, <2>1, <3>1, <3>2
  <2> QED
    BY <2>4, <2>5
<1>7. CASE HandleAcquire
  <2>1. at \in Sources /\ OnTheWay(t)' = OnTheWay(t)
    BY <1>1, <1>7, AtFacts, BrokerOnTheWay DEF HandleAcquire, HandleStarted, HandleFree, HandleError,
        ClearFailed, StartContainer, StartCopy, In
  <2>2. /\ srcState' = [srcState EXCEPT ![at] = "Wait"]
        /\ \A s \in Sources \ {at} : srcJob'[s] = srcJob[s] /\ srcOpposite'[s] = srcOpposite[s]
        /\ UNCHANGED tgtVars
    BY <1>1, <1>7 DEF HandleAcquire, SrcTypeOK
  <2>3. Exclusives(t)' = Exclusives(t) \ {at}
    BY <1>1, <2>1, <2>2 DEF Exclusives, SrcType, SrcTypeOK
  <2>4. Strays(t)' <= Strays(t)
    BY <2>2, <2>3, FewerStrays DEF Owned, tgtVars
  <2> QED
    BY <1>5, <2>1, <2>2, <2>4 DEF tgtVars
<1>8. CASE HandleStarted \/ ClearFailed
  <2>1. at \in Targets /\ OnTheWay(t)' = OnTheWay(t) - One(t = at)
    BY <1>8, OutcomeOffTheWay
  <2>2. /\ tgtState' = [tgtState EXCEPT ![at] = "Free"]
        /\ \A u \in Targets \ {at} : tgtType'[u] = tgtType[u]
        /\ Exclusives(t)' = Exclusives(t)
    BY <1>0, <1>1, <1>8 DEF HandleStarted, ClearFailed, TgtTypeOK, srcVars
  <2>3. CASE t = at
    <3>1. tgtState'[t] = "Free" /\ OnTheWay(t)' = OnTheWay(t) - 1
      BY <1>1, <2>1, <2>2, <2>3 DEF TgtTypeOK, One
    <3>2. Strays(t)' = Strays(t) + One(Owned(t))
      BY <2>2, <3>1, StraysLost
    <3>3. One(Owned(t)) + One(tgtState[t] = "Starting") <= 1 /\ One(tgtState[t] = "Starting")' = 0
      BY <3>1 DEF Owned, One
    <3> QED
      BY <1>2, <1>3, <1>4, <3>1, <3>2, <3>3 DEF Within
  <2>4. CASE t # at
    <3>1. OnTheWay(t)' = OnTheWay(t)
      BY <1>2, <2>1, <2>4 DEF One
    <3>2. tgtState'[t] = tgtState[t] /\ tgtType'[t] = tgtType[t]
      BY <1>1, <2>2, <2>4 DEF TgtTypeOK
    <3>3. Strays(t)' <= Strays(t)
      BY <2>2, <3>2, FewerStrays DEF Owned
    <3> QED
      BY <1>5, <3>1, <3>2, <3>3
  <2> QED
    BY <2>3, <2>4
<1>9. CASE HandleFree
  <2>1. /\ OnTheWay(t)' = OnTheWay(t) /\ at \in Targets
        /\ tgtRef[at] = Nil /\ Exclusives(at) = {}
    BY <1>9, FirstHeard
  <2>2. Exclusives(t)' = Exclusives(t)
    BY <1>0, <1>9 DEF HandleFree, srcVars
  <2>3. CASE t = at
    <3>1. Strays(t)' = 0
      BY <2>1, <2>2, <2>3, StrayFacts DEF Strays, Owned, One
    <3>2. tgtRef'[t] # Nil
      <4>1. Head(tgtIn[at]).address \in Targets
        BY <1>1, <1>9, BrokerTakes, MessageFacts DEF HandleFree
      <4> QED
        BY <1>1, <1>9, <2>1, <2>3, <4>1 DEF HandleFree, TgtTypeOK, Targets, Nil
    <3>3. One(tgtRef[t] # Nil) = 0 /\ One(tgtRef[t] # Nil)' = 1
      BY <2>1, <2>3, <3>2 DEF One
    <3> QED
      BY <1>2, <1>3, <2>1, <3>1, <3>3 DEF Within
  <2>4. CASE t # at
    <3>1. tgtState'[t] = tgtState[t] /\ tgtType'[t] = tgtType[t]
      BY <1>1, <1>9, <2>1, <2>4 DEF HandleFree, TgtTypeOK
    <3>2. Strays(t)' <= Strays(t)
      BY <2>2, <3>1, FewerStrays DEF Owned
    <3> QED
      BY <1>5, <2>1, <3>1, <3>2
  <2> QED
    BY <2>3, <2>4
<1>10. CASE HandleError
  <2>1. OnTheWay(t)' = OnTheWay(t)
    BY <1>10, FailureOnTheWay
  <2>2. UNCHANGED tgtVars /\ Exclusives(t)' = Exclusives(t)
    BY <1>0, <1>10 DEF HandleError, srcVars
  <2>3. Strays(t)' <= Strays(t)
    BY <2>2, FewerStrays DEF Owned, tgtVars
  <2> QED
    BY <1>5, <2>1, <2>2, <2>3 DEF tgtVars
<1>11. CASE RefuseWaiting
  <2>1. OnTheWay(t)' = OnTheWay(t)
    BY <1>11, BrokerOnTheWay DEF RefuseWaiting, HandleStarted, HandleFree, HandleError,
        ClearFailed, StartContainer, StartCopy, In, First
  <2>2. UNCHANGED <<srcJob, srcOpposite, tgtVars>>
        /\ \A s \in Sources : srcState'[s] = "Run" => srcState[s] = "Run"
    BY <1>1, <1>11 DEF RefuseWaiting, SrcTypeOK
  <2>3. Exclusives(t)' \subseteq Exclusives(t)
    BY <2>2 DEF Exclusives, SrcType
  <2>4. Strays(t)' <= Strays(t)
    BY <2>2, <2>3, FewerStrays DEF Owned, tgtVars
  <2> QED
    BY <1>5, <2>1, <2>2, <2>4 DEF tgtVars
<1>12. CASE Link
  <2>1. at \in Sources /\ OnTheWay(t)' = OnTheWay(t)
    BY <1>1, <1>12, AtFacts, BrokerOnTheWay DEF Link, HandleStarted, HandleFree, HandleError,
        ClearFailed, StartContainer, StartCopy, In
  <2>2. PICK u \in First(ToLink) :
            /\ tgtState' = [tgtState EXCEPT ![u] = "Run"]
            /\ srcOpposite' = [srcOpposite EXCEPT ![at] = u]
            /\ srcState' = [srcState EXCEPT ![at] = "Run"]
    BY <1>12 DEF Link
  <2>3. UNCHANGED <<srcJob, tgtType>>
    BY <1>12 DEF Link
  <2>4. /\ u \in Targets /\ tgtType[u] = SrcType(at)
        /\ tgtState[u] = "Free" \/ (tgtState[u] = "Run" /\ YType(SrcType(at)))
    BY DEF First, ToLink, Matches
  <2>5. Exclusives(t)' \ {at} = Exclusives(t) \ {at}
    BY <1>1, <2>1, <2>2, <2>3 DEF Exclusives, SrcType, SrcTypeOK
  <2>6. CASE t = u /\ ~YType(SrcType(at))
    <3>1. /\ tgtState[t] = "Free" /\ tgtState'[t] = "Run" /\ at \in Exclusives(t)'
          /\ ~YType(tgtType'[t])
      BY <1>1, <2>1, <2>2, <2>3, <2>4, <2>6 DEF Exclusives, SrcType, SrcTypeOK, TgtTypeOK
    <3>2. Cardinality(Exclusives(t)') <= Cardinality(Exclusives(t)) + 1
      <4>1. Exclusives(t)' = Exclusives(t) \cup {at}
        BY <2>5, <3>1
      <4>2. IsFiniteSet(Exclusives(t)) /\ Cardinality(Exclusives(t)) \in Nat
        BY StrayFacts
      <4>3. Cardinality(Exclusives(t) \cup {at}) <= Cardinality(Exclusives(t)) + 1
        BY <4>2, AddedOne
      <4> QED
        BY <4>1, <4>3
    <3>3. One(Owned(t)) = 0 /\ One(Owned(t)') = 1
      BY <3>1 DEF Owned, One
    <3>4. Strays(t)' <= Strays(t)
      BY <3>2, <3>3, StrayFacts, StrayFactsNext DEF Strays
    <3> QED
      BY <1>5, <2>1, <3>1, <3>4
  <2>7. CASE t # u \/ YType(SrcType(at))
    <3>1. Exclusives(t)' \subseteq Exclusives(t)
      <4>1. at \notin Exclusives(t)'
        BY <1>1, <2>1, <2>2, <2>3, <2>7 DEF Exclusives, SrcType, SrcTypeOK
      <4> QED
        BY <2>5, <4>1
    <3>2. Owned(t) => t # u
      BY <2>4, <2>7 DEF Owned
    <3>3. t # u => tgtState'[t] = tgtState[t] /\ tgtType'[t] = tgtType[t]
      BY <1>1, <2>2, <2>3, <2>4 DEF TgtTypeOK
    <3>4. Owned(t) /\ Exclusives(t)' # {} => Owned(t)'
      BY <3>2, <3>3 DEF Owned
    <3>5. Strays(t)' <= Strays(t)
      BY <3>1, <3>4, FewerStrays
    <3>6. tgtState[t] = "Starting" => tgtState'[t] = "Starting"
      BY <2>4, <3>3
    <3> QED
      BY <1>5, <2>1, <3>5, <3>6
  <2> QED
    BY <2>6, <2>7
<1>13. CASE StartContainer \/ StartCopy
  <2>1. PICK u \in Targets, s \in Sources :
            StartFor(u, s) /\ tgtState[u] = "Free" /\ srcState[s] = "Wait"
    BY <1>1, <1>13, StartSteps
  <2>2. /\ tgtOut' = [tgtOut EXCEPT ![u] = Append(@, Start(srcJob[s]))] /\ tgtIn' = tgtIn
        /\ tgtState' = [tgtState EXCEPT ![u] = "Starting"]
        /\ tgtType' = [tgtType EXCEPT ![u] = SrcType(s)]
        /\ srcOpposite' = [srcOpposite EXCEPT ![s] = u]
        /\ srcState' \in {srcState, [srcState EXCEPT ![s] = "Free"]}
        /\ UNCHANGED srcJob
    BY <2>1 DEF StartFor
  <2>3. Exclusives(t)' = Exclusives(t)
    BY <1>1, <2>1, <2>2 DEF Exclusives, SrcType, SrcTypeOK
  <2>4. /\ (Refusing(t)' <=> Refusing(t)) /\ (Busy(t)' <=> Busy(t))
        /\ Occurrences(tgtIn'[t], Outcome) = Occurrences(tgtIn[t], Outcome)
    BY <1>13, <2>2 DEF StartContainer, StartCopy, Refusing, Busy
  <2>5. tgtOut \in [Targets -> Seq(Command)]
    BY <1>1 DEF ChannelsTypeOK
  <2>6. CASE t = u
    <3>1. Len(tgtOut'[t]) = Len(tgtOut[t]) + 1
      BY <2>2, <2>5, <2>6
    <3>2. /\ One(Refusing(t)') = One(Refusing(t)) /\ One(Busy(t)') = One(Busy(t))
          /\ One(Refusing(t)) \in {0, 1} /\ One(Busy(t)) \in {0, 1}
      BY <2>4 DEF One
    <3>3. OnTheWay(t)' = OnTheWay(t) + 1
      BY <1>1, <2>4, <3>1, <3>2, OnTheWayType DEF OnTheWay
    <3>4. tgtState[t] = "Free" /\ tgtState'[t] = "Starting"
      BY <1>1, <2>1, <2>2, <2>6 DEF TgtTypeOK
    <3>5. /\ One(tgtState[t] = "Starting") = 0 /\ One(tgtState[t] = "Starting")' = 1
          /\ Strays(t)' <= Strays(t)
      BY <2>3, <3>4, FewerStrays DEF Owned, One
    <3> QED
      BY <1>2, <1>3, <1>4, <3>3, <3>5 DEF Within
  <2>7. CASE t # u
    <3>1. tgtState'[t] = tgtState[t] /\ tgtType'[t] = tgtType[t] /\ tgtOut'[t] = tgtOut[t]
      BY <1>1, <2>2, <2>5, <2>7 DEF TgtTypeOK
    <3>2. OnTheWay(t)' = OnTheWay(t)
      BY <2>4, <3>1, SameOnTheWay
    <3>3. Strays(t)' <= Strays(t)
      BY <2>3, <3>1, FewerStrays DEF Owned
    <3> QED
      BY <1>5, <3>1, <3>2, <3>3
  <2> QED
    BY <2>6, <2>7
<1>14. CASE Sweep
  <2>1. OnTheWay(t)' = OnTheWay(t)
    BY <1>14, BrokerOnTheWay DEF Sweep, HandleStarted, HandleFree, HandleError,
        ClearFailed, StartContainer, StartCopy, In
  <2>2. /\ tgtState'[t] = (IF Unused(t) \/ Overdue(t) THEN "Free" ELSE tgtState[t])
        /\ tgtType'[t] = (IF Overdue(t) THEN NoType ELSE tgtType[t])
        /\ Exclusives(t)' = Exclusives(t)
    BY <1>0, <1>14 DEF Sweep, srcVars
  <2>3. Owned(t) => ~Unused(t) /\ ~Overdue(t)
    <3> SUFFICES ASSUME Owned(t) PROVE ~Unused(t) /\ ~Overdue(t)
      OBVIOUS
    <3>1. tgtState[t] = "Run" /\ ~YType(tgtType[t]) /\ InUse(t)
      BY DEF Owned, Exclusives, InUse
    <3>2. tgtAge[t] <= ReleaseTimeout
      BY <3>1 DEF InUseYoung
    <3>3. ReleaseTimeout \in Int /\ tgtAge[t] \in Int
      BY <1>1, BrokerAssumption DEF TgtTypeOK, Ages
    <3> QED
      BY <3>1, <3>2, <3>3 DEF Unused, Overdue
  <2>4. Strays(t)' <= Strays(t)
    BY <2>2, <2>3, FewerStrays DEF Owned
  <2>5. tgtState[t] = "Starting" => tgtState'[t] = "Starting"
    BY <2>2 DEF Unused, Overdue
  <2> QED
    BY <1>5, <2>1, <2>4, <2>5
<1>15. CASE QueueRefused \/ SendRefusal \/ SkipSource \/ SkipTarget \/ LinkNext \/ StartNone
            \/ CopyNone \/ \E d \in Elapse : Sleep(d)
  <2>1. UNCHANGED <<tgtIn, tgtOut, srcState, srcJob, srcOpposite, tgtState, tgtType>>
    BY <1>15 DEF QueueRefused, SendRefusal, SkipSource, SkipTarget, LinkNext, StartNone,
        CopyNone, Sleep, srcVars, tgtVars, channels
  <2>2. Refusing(t)' <=> Refusing(t)
    <3>1. CASE QueueRefused \/ SendRefusal
      BY <3>1 DEF QueueRefused, SendRefusal, Refusing
    <3>2. CASE SkipSource \/ SkipTarget \/ LinkNext
      BY <3>2 DEF SkipSource, SkipTarget, LinkNext, Advance, Refusing, In
    <3>3. CASE StartNone \/ CopyNone \/ \E d \in Elapse : Sleep(d)
      BY <3>3 DEF StartNone, CopyNone, Sleep, Goto, Refusing, In
    <3> QED
      BY <1>15, <3>1, <3>2, <3>3
  <2>3. OnTheWay(t)' = OnTheWay(t)
    BY <2>1, <2>2, SameOnTheWay DEF Busy
  <2>4. Strays(t)' <= Strays(t)
    BY <1>0, <2>1, FewerStrays DEF Owned
  <2> QED
    BY <1>5, <2>1, <2>3, <2>4
<1> QED
    BY <1>6, <1>7, <1>8, <1>9, <1>10, <1>11, <1>12, <1>13, <1>14, <1>15 DEF Run

\* The parts of the invariant that need no more than that jobs end within -release.
EarlyInv == RegisteredOnce /\ InUseYoung /\ Budget

\* Every step keeps every target's sum of orders and strays within its budget.
LEMMA BudgetStep ==
    ASSUME TypeOK, TypeOK', AddressInv, RegisteredOnce, InUseYoung, Budget, [Next]_vars
    PROVE  Budget'
<1> SUFFICES ASSUME NEW t \in Targets PROVE Within(t)'
    BY DEF Budget
<1>1. Within(t)
    BY DEF Budget
<1>2. ASSUME OnTheWay(t)' = OnTheWay(t), UNCHANGED <<srcVars, tgtVars>> PROVE Within(t)'
  <2>1. Exclusives(t)' = Exclusives(t)
    BY <1>2 DEF srcVars, Exclusives, SrcType
  <2>2. Strays(t)' = Strays(t)
    BY <1>2, <2>1 DEF tgtVars, Strays, Owned
  <2> QED
    BY <1>1, <1>2, <2>2 DEF tgtVars, Within
<1>3. ASSUME BrokerStep PROVE Within(t)'
  <2>1. tgtRef[t] # Nil => tgtRef'[t] # Nil
    BY StaysRegistered
  <2> QED
    BY <1>1, <1>3, <2>1, WithinStep DEF BrokerStep, runnerVars
<1>4. ASSUME NEW u \in Targets, Runner(u) PROVE Within(t)'
    BY <1>2, <1>4, RunnerOnTheWay DEF Runner, brokerVars
<1>5. CASE UNCHANGED <<tgtIn, tgtOut, runner, loopVars, srcVars, tgtVars>>
  <2>1. OnTheWay(t)' = OnTheWay(t)
    BY <1>5, SameOnTheWay DEF Busy, Refusing, loopVars
  <2> QED
    BY <1>2, <1>5, <2>1
<1>6. ASSUME NEW c \in Conns, ConnStep(c) \/ Reaccept(c) PROVE Within(t)'
  <2>1. UNCHANGED <<tgtIn, tgtOut, runner, loopVars, srcVars, tgtVars>>
    BY <1>6 DEF ConnStep, Reaccept, Ask, RequestSlot, CallRead, ReadReply, Close, Accept,
        brokerVars, runnerVars, channels
  <2> QED
    BY <1>5, <2>1
<1>7. ASSUME NEW u \in Targets, ContainerExit(u) PROVE Within(t)'
    BY <1>5, <1>7 DEF ContainerExit, Exit, brokerVars, channels
<1>8. CASE UNCHANGED vars
    BY <1>5, <1>8 DEF vars, channels, brokerVars, runnerVars
<1> QED
    BY <1>3, <1>4, <1>6, <1>7, <1>8 DEF Next

\* So it always is, with jobs within -release.
LEMMA EarlyInvariant == ShortJobs => (Spec => []EarlyInv)
<1> SUFFICES ASSUME ShortJobs PROVE Spec => []EarlyInv
    OBVIOUS
<1>1. TypeOK /\ Init => EarlyInv
  <2> SUFFICES ASSUME TypeOK, Init PROVE EarlyInv
    OBVIOUS
  <2>1. /\ \A t \in Targets : tgtIn[t] = <<>> /\ tgtOut[t] = <<>> /\ runner[t] = "boot"
                              /\ tgtRef[t] = Nil /\ tgtState[t] = "Free"
        /\ \A s \in Sources : srcState[s] = "Free"
        /\ phase = "sources"
    BY DEF Init, ChannelsInit, BrokerInit, RunnerInit
  <2>2. RegisteredOnce
    BY <2>1, CountEmpty DEF RegisteredOnce, One
  <2>3. InUseYoung
    BY <2>1 DEF InUseYoung
  <2>4. ASSUME NEW t \in Targets PROVE Within(t)
    <3>1. OnTheWay(t) = 0
      <4>1. Len(tgtOut[t]) = 0 /\ Occurrences(tgtIn[t], Outcome) = 0
        BY <2>1, CountEmpty
      <4>2. One(Busy(t)) = 0 /\ One(Refusing(t)) = 0
        BY <2>1 DEF Busy, Refusing, One
      <4> QED
        BY <4>1, <4>2 DEF OnTheWay
    <3>2. Strays(t) = 0
      <4>1. Exclusives(t) = {}
        BY <2>1 DEF Exclusives
      <4>2. Cardinality(Exclusives(t)) = 0 /\ One(Owned(t)) = 0
        BY <4>1, StrayFacts DEF Owned, One
      <4> QED
        BY <4>2 DEF Strays
    <3> QED
      BY <2>1, <3>1, <3>2 DEF Within, One
  <2> QED
    BY <2>2, <2>3, <2>4 DEF EarlyInv, Budget
<1>2. TypeOK /\ TypeOK' /\ AddressInv /\ EarlyInv /\ [Next]_vars => EarlyInv'
    BY RegisteredStep, InUseYoungStep, BudgetStep DEF EarlyInv
<1> QED
    BY <1>1, <1>2, TypeCorrect, AddressInvariant, PTL DEF Spec

\* However early clients come, no more than one order waits in the channel of a target
\* that is free: what the broker may order next has room behind it.
THEOREM FewOrders ==
    ShortJobs => (Spec => []\A t \in Targets : tgtState[t] = "Free" => Len(tgtOut[t]) <= 1)
<1> SUFFICES ASSUME ShortJobs
             PROVE  Spec => []\A t \in Targets : tgtState[t] = "Free" => Len(tgtOut[t]) <= 1
    OBVIOUS
<1>1. TypeOK /\ EarlyInv => \A t \in Targets : tgtState[t] = "Free" => Len(tgtOut[t]) <= 1
  <2> SUFFICES ASSUME TypeOK, EarlyInv, NEW t \in Targets, tgtState[t] = "Free"
               PROVE  Len(tgtOut[t]) <= 1
    OBVIOUS
  <2>1. /\ OnTheWay(t) \in Nat /\ Strays(t) \in Nat
        /\ Len(tgtOut[t]) \in Nat /\ Len(tgtOut[t]) <= OnTheWay(t)
    BY OnTheWayType, StrayFacts DEF TypeOK
  <2>2. Within(t)
    BY DEF EarlyInv, Budget
  <2>3. One(tgtState[t] = "Starting") = 0 /\ One(tgtRef[t] # Nil) \in {0, 1}
    BY DEF One
  <2> QED
    BY <2>1, <2>2, <2>3 DEF Within
<1> QED
    BY <1>1, EarlyInvariant, TypeCorrect, PTL
=============================================================================
