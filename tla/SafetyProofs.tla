----------------------------- MODULE SafetyProofs -----------------------------
(***************************************************************************)
(* What holds of DockerSpaces for every number of slots, every set of jobs *)
(* and connections, every pair of timeouts and every choice of Env: it is  *)
(* type correct, a y type is never on two targets, and addresses are known *)
(* when they are used.                                                     *)
(***************************************************************************)
EXTENDS DockerSpaces, TLAPS

(* Facts about channels. *)

\* Receiving from one of a family of channels keeps their type and capacity.
LEMMA TakeFrom ==
    ASSUME NEW S, NEW M, NEW ch \in [S -> Seq(M)], NEW s \in S, ch[s] # <<>>,
           NEW n \in Nat, \A r \in S : Len(ch[r]) <= n
    PROVE  LET new == [ch EXCEPT ![s] = Tail(@)]
           IN /\ new \in [S -> Seq(M)]
              /\ \A r \in S : Len(new[r]) <= n
              /\ Head(ch[s]) \in M
<1>1. Head(ch[s]) \in M /\ Tail(ch[s]) \in Seq(M) /\ Len(Tail(ch[s])) <= n
    BY SMT
<1> QED
    BY <1>1

\* Sending to one of a family of channels that has room, too.
LEMMA PutInto ==
    ASSUME NEW S, NEW M, NEW ch \in [S -> Seq(M)], NEW s \in S, NEW m \in M,
           NEW n \in Nat, Len(ch[s]) < n, \A r \in S : Len(ch[r]) <= n
    PROVE  LET new == [ch EXCEPT ![s] = Append(@, m)]
           IN /\ new \in [S -> Seq(M)]
              /\ \A r \in S : Len(new[r]) <= n
<1>1. Append(ch[s], m) \in Seq(M) /\ Len(Append(ch[s], m)) <= n
    BY SMT
<1> QED
    BY <1>1

\* A queue that has room can take another element.
LEMMA AppendToQueue ==
    ASSUME NEW S, NEW q \in Seq(S), NEW e \in S, NEW n \in Nat, Len(q) < n
    PROVE  Append(q, e) \in Seq(S) /\ Len(Append(q, e)) <= n
BY SMT

\* What the messages of each kind carry.
LEMMA MessageFacts ==
    /\ \A m \in Request : m.type = "Acquire" => m.job \in Jobs
    /\ \A m \in Reply : m.address \in Targets \cup {Nil}
    /\ \A m \in Report : m.address \in Targets \cup {Nil} /\ (m.type = "Free" => m.address \in Targets)
    /\ \A m \in Command : m.job \in Jobs
    /\ \A a \in Targets \cup {Nil} : Acquired(a) \in Reply
    /\ \A t \in Targets : Free(t) \in Report
    /\ \A j \in Jobs : Start(j) \in Command /\ Acquire(j) \in Request
    /\ Refused \in Reply /\ Failed \in Report /\ Started \in Report
    /\ Release(FALSE) \in Request
BY DEF Request, Reply, Report, Command, Acquired, Refused, Failed, Started, Free, Start,
       Acquire, Release

\* The ages the broker stores are in Ages.
LEMMA AgesFacts ==
    /\ 0 \in Ages /\ Since0 \in Ages /\ Since3 \in Ages /\ Since5 \in Ages /\ Since7 \in Ages
    /\ \A age \in Ages, d \in Elapse : Older(age, d) \in Ages
BY BrokerAssumption DEF AgeCap, Ages, Since0, Since3, Since5, Since7, Older

\* In every loop, "at" is a slot of that loop.
LEMMA AtFacts ==
    ASSUME LoopTypeOK
    PROVE  /\ In("sources") \/ In("link") => at \in Sources
           /\ In("targets") \/ In("refuse") => at \in Targets
BY SlotsAssumption DEF LoopTypeOK, In, Sources, Targets

-----------------------------------------------------------------------------
(* The steps of the broker keep the types of its own variables. *)

\* Starting target t for source s keeps the types.
LEMMA StartForFacts ==
    ASSUME BrokerTypeOK, ChannelsTypeOK, NEW t \in Targets, NEW s \in Sources,
           srcJob[s] \in Jobs, StartFor(t, s)
    PROVE  /\ refusal' \in {refusal, <<"queue", s>>}
           /\ SrcTypeOK' /\ TgtTypeOK' /\ ChannelsTypeOK'
<1>1. refusal' \in {refusal, <<"queue", s>>}
    BY DEF StartFor, Refuse
<1>2. SrcTypeOK'
    BY DEF BrokerTypeOK, SrcTypeOK, StartFor
<1>3. SrcType(s) \in SlotTypes
    BY SlotsAssumption DEF SrcType, SlotTypeOf
<1>4. TgtTypeOK'
    BY <1>3, AgesFacts DEF BrokerTypeOK, TgtTypeOK, StartFor
<1>5. /\ tgtOut' \in [Targets -> Seq(Command)]
      /\ \A u \in Targets : Len(tgtOut'[u]) <= SlotBuffer
    BY PutInto, MessageFacts, SlotsAssumption DEF ChannelsTypeOK, StartFor, HasRoom
<1>6. ChannelsTypeOK'
    BY <1>5 DEF ChannelsTypeOK, StartFor
<1> QED
    BY <1>1, <1>2, <1>4, <1>6

\* A container is only ever ordered for a source that waits, on a free target.
LEMMA StartSteps ==
    ASSUME BrokerTypeOK, StartContainer \/ StartCopy
    PROVE  \E t \in Targets, s \in Sources :
                /\ StartFor(t, s)
                /\ tgtState[t] = "Free" /\ srcState[s] = "Wait" /\ srcJob[s] \in Jobs
                /\ YType(SrcType(s)) => \A u \in Targets : tgtType[u] # SrcType(s)
<1>1. CASE StartContainer
  <2>1. PICK t \in Oldest(FreeTargets, tgtAge), type \in MostRequested :
            \E s \in First(WaitingFor(type)) : StartFor(t, s)
    BY <1>1 DEF StartContainer
  <2>2. PICK s \in First(WaitingFor(type)) : StartFor(t, s)
    BY <2>1
  <2>3. t \in Targets /\ tgtState[t] = "Free"
    BY DEF Oldest, FreeTargets
  <2>4. s \in Sources /\ srcState[s] = "Wait" /\ SrcType(s) = type
    BY DEF First, WaitingFor
  <2>5. \A u \in Targets : tgtType[u] # type
    BY DEF MostRequested, WaitOnlyTypes
  <2> QED
    BY <2>2, <2>3, <2>4, <2>5 DEF BrokerTypeOK, SrcTypeOK
<1>2. CASE StartCopy
  <2>1. PICK t \in OldestFree, s \in OldestUnserved : StartFor(t, s)
    BY <1>2 DEF StartCopy
  <2>2. t \in Targets /\ tgtState[t] = "Free"
    BY DEF OldestFree, Oldest, FreeTargets
  <2>3. s \in Sources /\ srcState[s] = "Wait" /\ ~YType(SrcType(s))
    BY DEF OldestUnserved, Oldest, Unserved
  <2> QED
    BY <2>1, <2>2, <2>3 DEF BrokerTypeOK, SrcTypeOK
<1> QED
    BY <1>1, <1>2

\* Every step of the broker keeps the types of its loop variables,
LEMMA BrokerLoopTypes ==
    ASSUME BrokerTypeOK, ChannelsTypeOK, Run
    PROVE  LoopTypeOK'
<1> USE SlotsAssumption DEF LoopTypeOK, Phases, In, Advance, Goto, Sources, Nil
<1>1. LoopTypeOK
    BY DEF BrokerTypeOK
<1>2. CASE QueueRefused \/ SendRefusal
    BY <1>1, <1>2 DEF QueueRefused, SendRefusal
<1>3. CASE SkipSource \/ HandleRelease \/ HandleAcquire
    BY <1>1, <1>3 DEF SkipSource, HandleRelease, HandleAcquire
<1>4. CASE SkipTarget \/ HandleStarted \/ HandleFree \/ HandleError
    BY <1>1, <1>4 DEF SkipTarget, HandleStarted, HandleFree, HandleError
<1>5. CASE RefuseWaiting
    BY <1>1, <1>5 DEF RefuseWaiting, Refuse, First, ToRefuse, WaitingFor
<1>6. CASE ClearFailed
    BY <1>1, <1>6 DEF ClearFailed
<1>7. CASE Link
    BY <1>1, <1>7 DEF Link, First, ToLink, Matches, Targets
<1>8. CASE LinkNext \/ StartNone \/ CopyNone \/ Sweep \/ \E d \in Elapse : Sleep(d)
    BY <1>1, <1>8 DEF LinkNext, StartNone, CopyNone, Sweep, Sleep
<1>9. CASE StartContainer \/ StartCopy
  <2>1. PICK t \in Targets, s \in Sources : StartFor(t, s) /\ srcJob[s] \in Jobs
    BY <1>9, StartSteps
  <2>2. UNCHANGED <<phase, at, inner>>
    BY <1>9 DEF StartContainer, StartCopy
  <2> QED
    BY <1>1, <2>1, <2>2, StartForFacts
<1> QED
    BY ONLY Run, <1>2, <1>3, <1>4, <1>5, <1>6, <1>7, <1>8, <1>9 DEF Run

\* ... of the source slots,
LEMMA BrokerSrcTypes ==
    ASSUME BrokerTypeOK, ChannelsTypeOK, Run
    PROVE  SrcTypeOK'
<1> USE DEF SrcTypeOK
<1>1. SrcTypeOK /\ LoopTypeOK
    BY DEF BrokerTypeOK
<1>2. CASE UNCHANGED srcVars
    BY <1>1, <1>2 DEF srcVars
<1>3. CASE HandleRelease
    BY <1>1, <1>3, AtFacts DEF HandleRelease
<1>4. CASE HandleAcquire
  <2>1. at \in Sources
    BY <1>1, <1>4, AtFacts DEF HandleAcquire
  <2>2. Head(srcIn[at]) \in Request
    BY <1>4, <2>1, TakeFrom, SlotsAssumption DEF HandleAcquire, ChannelsTypeOK
  <2>3. Head(srcIn[at]).job \in Jobs
    BY <1>4, <2>2, MessageFacts DEF HandleAcquire
  <2> QED
    BY <1>1, <1>4, <2>1, <2>3, AgesFacts DEF HandleAcquire
<1>5. CASE RefuseWaiting
    BY <1>1, <1>5 DEF RefuseWaiting, First, ToRefuse, WaitingFor
<1>6. CASE Link
  <2>1. PICK t \in First(ToLink) :
            /\ srcOpposite' = [srcOpposite EXCEPT ![at] = t]
            /\ srcState' = [srcState EXCEPT ![at] = "Run"]
            /\ srcAge' = [srcAge EXCEPT ![at] = 0]
    BY <1>6 DEF Link
  <2>2. t \in Targets /\ at \in Sources
    BY <1>1, <1>6, AtFacts DEF Link, First, ToLink, Matches
  <2> QED
    BY <1>1, <1>6, <2>1, <2>2, AgesFacts DEF Link
<1>7. CASE StartContainer \/ StartCopy
    BY <1>7, StartSteps, StartForFacts
<1>8. CASE \E d \in Elapse : Sleep(d)
    BY <1>1, <1>8, AgesFacts DEF Sleep
<1>9. \/ UNCHANGED srcVars \/ HandleRelease \/ HandleAcquire \/ RefuseWaiting \/ Link
      \/ StartContainer \/ StartCopy \/ \E d \in Elapse : Sleep(d)
    BY DEF Run, QueueRefused, SendRefusal, SkipSource, SkipTarget, HandleStarted, HandleFree,
        HandleError, ClearFailed, LinkNext, StartNone, CopyNone, Sweep, srcVars
<1> QED
    BY ONLY <1>2, <1>3, <1>4, <1>5, <1>6, <1>7, <1>8, <1>9

\* ... of the target slots,
LEMMA BrokerTgtTypes ==
    ASSUME BrokerTypeOK, ChannelsTypeOK, Run
    PROVE  TgtTypeOK'
<1> USE DEF TgtTypeOK
<1>1. TgtTypeOK /\ LoopTypeOK /\ SrcTypeOK
    BY DEF BrokerTypeOK
<1>2. CASE UNCHANGED tgtVars
    BY <1>1, <1>2 DEF tgtVars
<1>3. CASE HandleRelease
    BY <1>1, <1>3, AgesFacts DEF HandleRelease, tgtVars
<1>4. CASE HandleStarted \/ ClearFailed
    BY <1>1, <1>4, AgesFacts DEF HandleStarted, ClearFailed
<1>5. CASE HandleFree
  <2>1. at \in Targets
    BY <1>1, <1>5, AtFacts DEF HandleFree
  <2>2. Head(tgtIn[at]) \in Report
    BY <1>5, <2>1, TakeFrom, SlotsAssumption DEF HandleFree, ChannelsTypeOK
  <2>3. Head(tgtIn[at]).address \in Targets \cup {Nil}
    BY <2>2, MessageFacts
  <2> QED
    BY <1>1, <1>5, <2>3, AgesFacts DEF HandleFree
<1>6. CASE Link
    BY <1>1, <1>6, AgesFacts DEF Link
<1>7. CASE StartContainer \/ StartCopy
    BY <1>7, StartSteps, StartForFacts
<1>8. CASE Sweep
    BY <1>1, <1>8, AgesFacts DEF Sweep
<1>9. CASE \E d \in Elapse : Sleep(d)
    BY <1>1, <1>9, AgesFacts DEF Sleep
<1>10. \/ UNCHANGED tgtVars \/ HandleRelease \/ HandleStarted \/ ClearFailed \/ HandleFree
       \/ Link \/ StartContainer \/ StartCopy \/ Sweep \/ \E d \in Elapse : Sleep(d)
    BY DEF Run, QueueRefused, SendRefusal, SkipSource, HandleAcquire, SkipTarget, HandleError,
        RefuseWaiting, LinkNext, StartNone, CopyNone, tgtVars
<1> QED
    BY ONLY <1>2, <1>3, <1>4, <1>5, <1>6, <1>7, <1>8, <1>9, <1>10

\* ... and of the channels, which never hold more than they can.
LEMMA BrokerChannelTypes ==
    ASSUME BrokerTypeOK, ChannelsTypeOK, Run
    PROVE  ChannelsTypeOK'
<1>1. LoopTypeOK /\ TgtTypeOK
    BY DEF BrokerTypeOK
<1>2. CASE UNCHANGED channels
    BY <1>2 DEF ChannelsTypeOK, channels
<1>3. CASE QueueRefused
    BY <1>1, <1>3, AppendToQueue, SlotsAssumption
    DEF QueueRefused, LoopTypeOK, ChannelsTypeOK, HasRoom
<1>4. CASE SendRefusal
  <2>1. refusal[2] \in Sources
    BY <1>1, <1>4 DEF SendRefusal, LoopTypeOK
  <2>2. /\ srcOut' \in [Sources -> Seq(Reply)]
        /\ \A s \in Sources : Len(srcOut'[s]) <= SlotBuffer
    BY <1>4, <2>1, PutInto, MessageFacts, SlotsAssumption
    DEF SendRefusal, ChannelsTypeOK, HasRoom
  <2> QED
    BY <1>4, <2>2 DEF SendRefusal, ChannelsTypeOK
<1>5. CASE HandleRelease \/ HandleAcquire
  <2>1. at \in Sources /\ srcIn[at] # <<>> /\ srcIn' = [srcIn EXCEPT ![at] = Tail(@)]
    BY <1>1, <1>5, AtFacts DEF HandleRelease, HandleAcquire
  <2>2. /\ srcIn' \in [Sources -> Seq(Request)]
        /\ \A s \in Sources : Len(srcIn'[s]) <= SlotBuffer
    BY <2>1, TakeFrom, SlotsAssumption DEF ChannelsTypeOK
  <2>3. freeSourceSlots' \in Seq(Sources) /\ Len(freeSourceSlots') <= NumSources
    <3>1. CASE freeSourceSlots' = freeSourceSlots
      BY <3>1 DEF ChannelsTypeOK
    <3>2. CASE HandleRelease
      <4>1. /\ freeSourceSlots' = Append(freeSourceSlots, at)
            /\ Len(freeSourceSlots) < NumSources
        BY <3>2 DEF HandleRelease, HasRoom
      <4> QED
        BY <2>1, <4>1, AppendToQueue, SlotsAssumption DEF ChannelsTypeOK
    <3> QED
      BY <1>5, <3>1, <3>2 DEF HandleAcquire
  <2> QED
    BY <1>5, <2>2, <2>3 DEF HandleRelease, HandleAcquire, ChannelsTypeOK
<1>6. CASE HandleStarted \/ HandleFree \/ HandleError
  <2>1. at \in Targets /\ tgtIn[at] # <<>> /\ tgtIn' = [tgtIn EXCEPT ![at] = Tail(@)]
    BY <1>1, <1>6, AtFacts DEF HandleStarted, HandleFree, HandleError
  <2>2. /\ tgtIn' \in [Targets -> Seq(Report)]
        /\ \A t \in Targets : Len(tgtIn'[t]) <= SlotBuffer
    BY <2>1, TakeFrom, SlotsAssumption DEF ChannelsTypeOK
  <2> QED
    BY <1>6, <2>2 DEF HandleStarted, HandleFree, HandleError, ChannelsTypeOK
<1>7. CASE Link
  <2>1. PICK t \in First(ToLink) :
            /\ HasRoom(srcOut[at], SlotBuffer)
            /\ srcOut' = [srcOut EXCEPT ![at] = Append(@, Acquired(tgtRef[t]))]
    BY <1>7 DEF Link
  <2>2. t \in Targets /\ at \in Sources
    BY <1>1, <1>7, AtFacts DEF Link, First, ToLink, Matches
  <2>3. Acquired(tgtRef[t]) \in Reply
    BY <1>1, <2>2, MessageFacts DEF TgtTypeOK
  <2>4. /\ srcOut' \in [Sources -> Seq(Reply)]
        /\ \A s \in Sources : Len(srcOut'[s]) <= SlotBuffer
    BY <2>1, <2>2, <2>3, PutInto, SlotsAssumption DEF ChannelsTypeOK, HasRoom
  <2> QED
    BY <1>7, <2>4 DEF Link, ChannelsTypeOK
<1>8. CASE StartContainer \/ StartCopy
    BY <1>8, StartSteps, StartForFacts
<1>9. \/ UNCHANGED channels \/ QueueRefused \/ SendRefusal \/ HandleRelease \/ HandleAcquire
      \/ HandleStarted \/ HandleFree \/ HandleError \/ Link \/ StartContainer \/ StartCopy
    BY DEF Run, SkipSource, SkipTarget, RefuseWaiting, ClearFailed, LinkNext, StartNone,
        CopyNone, Sweep, Sleep, channels
<1> QED
    BY ONLY <1>2, <1>3, <1>4, <1>5, <1>6, <1>7, <1>8, <1>9

-----------------------------------------------------------------------------
(* The steps of connections and runners. *)

\* A connection joins those who read a slot's channel.
LEMMA JoinReaders ==
    ASSUME readers \in [Sources -> Seq(Conns)], NEW c \in Conns, NEW s \in Sources
    PROVE  [readers EXCEPT ![s] = Append(@, c)] \in [Sources -> Seq(Conns)]
<1>1. Append(readers[s], c) \in Seq(Conns)
    BY SMT
<1> QED
    BY <1>1

\* The steps of a connection keep the types.
LEMMA ConnTypes ==
    ASSUME ChannelsTypeOK, ResolverTypeOK, NEW c \in Conns,
           RequestSlot(c) \/ CallRead(c) \/ ReadReply(c) \/ Close(c) \/ Accept(c)
    PROVE  ChannelsTypeOK' /\ ResolverTypeOK'
<1>1. CASE RequestSlot(c)
  <2>1. PICK j \in Jobs :
            LET s == Head(freeSourceSlots)
            IN /\ HasRoom(srcIn[s], SlotBuffer)
               /\ freeSourceSlots' = Tail(freeSourceSlots)
               /\ srcIn' = [srcIn EXCEPT ![s] = Append(@, Acquire(j))]
               /\ connJob' = [connJob EXCEPT ![c] = j]
               /\ connSlot' = [connSlot EXCEPT ![c] = s]
               /\ \/ conn' = [conn EXCEPT ![c] = "sent"] /\ UNCHANGED readers
                  \/ /\ conn' = [conn EXCEPT ![c] = "reading"]
                     /\ readers' = [readers EXCEPT ![s] = Append(@, c)]
    BY <1>1 DEF RequestSlot
  <2>0. \/ UNCHANGED readers
        \/ readers' = [readers EXCEPT ![Head(freeSourceSlots)] = Append(@, c)]
    BY <2>1
  <2>2. /\ Head(freeSourceSlots) \in Sources
        /\ Tail(freeSourceSlots) \in Seq(Sources)
        /\ Len(Tail(freeSourceSlots)) <= NumSources
    BY <1>1, SlotsAssumption DEF RequestSlot, ChannelsTypeOK
  <2>3. /\ srcIn' \in [Sources -> Seq(Request)]
        /\ \A s \in Sources : Len(srcIn'[s]) <= SlotBuffer
    BY <2>1, <2>2, PutInto, MessageFacts, SlotsAssumption DEF ChannelsTypeOK, HasRoom
  <2>4. ChannelsTypeOK'
    BY <1>1, <2>1, <2>2, <2>3 DEF RequestSlot, ChannelsTypeOK
  <2>5. readers' \in [Sources -> Seq(Conns)]
    <3>1. CASE UNCHANGED readers
      BY <3>1 DEF ResolverTypeOK
    <3>2. CASE readers' = [readers EXCEPT ![Head(freeSourceSlots)] = Append(@, c)]
      BY <2>2, <3>2, JoinReaders DEF ResolverTypeOK
    <3> QED
      BY <2>0, <3>1, <3>2
  <2>6. ResolverTypeOK'
    BY <1>1, <2>1, <2>2, <2>5 DEF RequestSlot, ResolverTypeOK, ConnStates
  <2> QED
    BY <2>4, <2>6
<1>2. CASE CallRead(c) \/ Accept(c)
  <2>1. ChannelsTypeOK'
    BY <1>2 DEF CallRead, Accept, ChannelsTypeOK, channels
  <2>2. readers' \in [Sources -> Seq(Conns)]
    <3>1. CASE CallRead(c)
      <4>1. PICK s \in Sources : readers' = [readers EXCEPT ![s] = Append(@, c)]
        BY <3>1 DEF CallRead, ResolverTypeOK
      <4> QED
        BY <4>1, JoinReaders DEF ResolverTypeOK
    <3>2. CASE Accept(c)
      BY <3>2 DEF Accept, ResolverTypeOK
    <3> QED
      BY <1>2, <3>1, <3>2
  <2>3. ResolverTypeOK'
    BY <1>2, <2>2 DEF CallRead, Accept, ResolverTypeOK, ConnStates, Nil
  <2> QED
    BY <2>1, <2>3
<1>3. CASE ReadReply(c)
  <2>1. connSlot[c] \in Sources
    BY <1>3 DEF ReadReply, ResolverTypeOK
  <2>2. /\ srcOut' \in [Sources -> Seq(Reply)]
        /\ \A s \in Sources : Len(srcOut'[s]) <= SlotBuffer
        /\ Head(srcOut[connSlot[c]]) \in Reply
    BY <1>3, <2>1, TakeFrom, SlotsAssumption DEF ReadReply, ChannelsTypeOK
  <2>3. Head(srcOut[connSlot[c]]).address \in Targets \cup {Nil}
    BY <2>2, MessageFacts
  <2>4. Tail(readers[connSlot[c]]) \in Seq(Conns)
    BY <1>3, <2>1 DEF ReadReply, ResolverTypeOK
  <2>5. ChannelsTypeOK'
    BY <1>3, <2>2 DEF ReadReply, ChannelsTypeOK
  <2>6. ResolverTypeOK'
    BY <1>3, <2>3, <2>4 DEF ReadReply, ResolverTypeOK, ConnStates
  <2> QED
    BY <2>5, <2>6
<1>4. CASE Close(c)
  <2>1. PICK s \in Sources :
            /\ Len(srcIn[s]) < SlotBuffer
            /\ srcIn' = [srcIn EXCEPT ![s] = Append(@, Release(FALSE))]
    BY <1>4 DEF Close, ResolverTypeOK, HasRoom
  <2>2. /\ srcIn' \in [Sources -> Seq(Request)]
        /\ \A r \in Sources : Len(srcIn'[r]) <= SlotBuffer
    <3>1. PICK m \in Request : srcIn' = [srcIn EXCEPT ![s] = Append(@, m)]
      BY <2>1 DEF Release, Request
    <3>2. /\ srcIn \in [Sources -> Seq(Request)]
          /\ \A r \in Sources : Len(srcIn[r]) <= SlotBuffer
          /\ SlotBuffer \in Nat
      BY SlotsAssumption DEF ChannelsTypeOK
    <3> QED
      <4>1. /\ Append(srcIn[s], m) \in Seq(Request)
            /\ Len(Append(srcIn[s], m)) <= SlotBuffer
        BY <2>1, <3>2, AppendToQueue
      <4> QED
        BY <3>1, <3>2, <4>1
  <2>3. ChannelsTypeOK'
    BY <1>4, <2>2 DEF Close, ChannelsTypeOK
  <2>4. ResolverTypeOK'
    BY <1>4 DEF Close, ResolverTypeOK, ConnStates, Nil
  <2> QED
    BY <2>3, <2>4
<1> QED
    BY <1>1, <1>2, <1>3, <1>4

\* A runner's message keeps the types, and finds room.
LEMMA TellTypes ==
    ASSUME ChannelsTypeOK, NEW t \in Targets, NEW report \in Report, Tell(t, report)
    PROVE  /\ tgtIn' \in [Targets -> Seq(Report)]
           /\ \A u \in Targets : Len(tgtIn'[u]) <= SlotBuffer
BY PutInto, SlotsAssumption DEF Tell, ChannelsTypeOK, HasRoom

\* The steps of a runner, and of its container, keep the types.
LEMMA RunnerTypes ==
    ASSUME ChannelsTypeOK, RunnerTypeOK, NEW t \in Targets, RunnerStep(t) \/ Exit(t)
    PROVE  ChannelsTypeOK' /\ RunnerTypeOK'
<1>1. CASE Register(t) \/ StartFails(t) \/ Ready(t) \/ NotReady(t)
  <2>1. PICK report \in Report : Tell(t, report)
    BY <1>1, MessageFacts DEF Register, StartFails, Ready, NotReady
  <2>2. UNCHANGED <<runnerJob, container, tgtOut, freeSourceSlots, srcIn, srcOut>>
    BY <1>1 DEF Register, StartFails, Ready, NotReady, RunnerOnly
  <2>3. ChannelsTypeOK'
    BY <2>1, <2>2, TellTypes DEF ChannelsTypeOK
  <2>4. RunnerTypeOK'
    BY <2>1, <2>2 DEF Tell, RunnerTypeOK, RunnerStates
  <2> QED
    BY <2>3, <2>4
<1>2. CASE ReadStart(t)
  <2>1. /\ tgtOut' \in [Targets -> Seq(Command)]
        /\ \A u \in Targets : Len(tgtOut'[u]) <= SlotBuffer
        /\ Head(tgtOut[t]) \in Command
    BY <1>2, TakeFrom, SlotsAssumption DEF ReadStart, ChannelsTypeOK
  <2>2. ChannelsTypeOK'
    BY <1>2, <2>1 DEF ReadStart, RunnerOnly, ChannelsTypeOK
  <2>3. RunnerTypeOK'
    BY <1>2, <2>1, MessageFacts DEF ReadStart, RunnerTypeOK, RunnerStates
  <2> QED
    BY <2>2, <2>3
<1>3. CASE KillOld(t) \/ Launch(t) \/ Exit(t)
    BY <1>3 DEF KillOld, Launch, Exit, RunnerOnly, channels, ChannelsTypeOK, RunnerTypeOK,
        RunnerStates
<1> QED
    BY <1>1, <1>2, <1>3 DEF RunnerStep

-----------------------------------------------------------------------------
\* Every variable has its type and no channel exceeds its capacity, whatever the
\* clients, the containers and the clock do.
THEOREM TypeCorrect == Spec => []TypeOK
<1>1. Init => TypeOK
  <2> SUFFICES ASSUME Init PROVE TypeOK
    OBVIOUS
  <2>1. ChannelsTypeOK
    BY SlotsAssumption DEF Init, ChannelsInit, ChannelsTypeOK, Sources, Targets
  <2>2. BrokerTypeOK
    BY SlotsAssumption, AgesFacts
    DEF Init, BrokerInit, BrokerTypeOK, LoopTypeOK, SrcTypeOK, TgtTypeOK, Phases, Nil
  <2>3. ResolverTypeOK /\ RunnerTypeOK
    BY DEF Init, ResolverInit, ResolverTypeOK, ConnStates, RunnerInit, RunnerTypeOK, RunnerStates,
        Nil
  <2> QED
    BY <2>1, <2>2, <2>3 DEF TypeOK
<1>2. TypeOK /\ [Next]_vars => TypeOK'
  <2> SUFFICES ASSUME TypeOK, [Next]_vars PROVE TypeOK'
    OBVIOUS
  <2> USE DEF TypeOK
  <2>1. CASE BrokerStep
    <3>1. ChannelsTypeOK' /\ BrokerTypeOK'
      BY <2>1, BrokerLoopTypes, BrokerSrcTypes, BrokerTgtTypes, BrokerChannelTypes
      DEF BrokerStep, BrokerTypeOK
    <3>2. ResolverTypeOK' /\ RunnerTypeOK'
      BY <2>1 DEF BrokerStep, connVars, runnerVars, ResolverTypeOK, RunnerTypeOK
    <3> QED
      BY <3>1, <3>2
  <2>2. ASSUME NEW c \in Conns, ConnStep(c) \/ Reaccept(c) PROVE TypeOK'
    <3>1. ChannelsTypeOK' /\ ResolverTypeOK'
      BY <2>2, ConnTypes DEF ConnStep, Reaccept, Ask
    <3>2. BrokerTypeOK' /\ RunnerTypeOK'
      BY <2>2 DEF ConnStep, Reaccept, brokerVars, loopVars, srcVars, tgtVars, runnerVars,
          BrokerTypeOK, LoopTypeOK, SrcTypeOK, TgtTypeOK, RunnerTypeOK
    <3> QED
      BY <3>1, <3>2
  <2>3. ASSUME NEW t \in Targets, Runner(t) \/ ContainerExit(t) PROVE TypeOK'
    <3>1. ChannelsTypeOK' /\ RunnerTypeOK'
      BY <2>3, RunnerTypes DEF Runner, ContainerExit
    <3>2. BrokerTypeOK' /\ ResolverTypeOK'
      BY <2>3 DEF Runner, ContainerExit, brokerVars, loopVars, srcVars, tgtVars, connVars,
          BrokerTypeOK, LoopTypeOK, SrcTypeOK, TgtTypeOK, ResolverTypeOK
    <3> QED
      BY <3>1, <3>2
  <2>4. CASE UNCHANGED vars
    BY <2>4 DEF vars, channels, brokerVars, loopVars, srcVars, tgtVars, connVars, runnerVars,
        ChannelsTypeOK, BrokerTypeOK, LoopTypeOK, SrcTypeOK, TgtTypeOK, ResolverTypeOK,
        RunnerTypeOK
  <2> QED
    BY ONLY [Next]_vars, <2>1, <2>2, <2>3, <2>4 DEF Next
<1> QED
  BY <1>1, <1>2, PTL DEF Spec

-------------------------------------------------------------------------------
(* Labels and addresses. *)

\* Whatever starts, fails or times out, a y type labels at most one target slot:
\* the first start of it looks for the label, and copies are made of x types only.
THEOREM SharedOnce == Spec => []OneSharedTarget
<1>1. Init => OneSharedTarget
    BY SlotsAssumption DEF Init, BrokerInit, OneSharedTarget, YType
<1>2. TypeOK /\ OneSharedTarget /\ [Next]_vars => OneSharedTarget'
  <2> SUFFICES ASSUME TypeOK, OneSharedTarget, [Next]_vars PROVE OneSharedTarget'
    OBVIOUS
  <2>1. /\ tgtType \in [Targets -> SlotTypes \cup {NoType}]
        /\ ~YType(NoType)
    BY SlotsAssumption DEF TypeOK, BrokerTypeOK, TgtTypeOK, YType
  <2>2. CASE \A t \in Targets : tgtType'[t] \in {tgtType[t], NoType}
    BY <2>1, <2>2 DEF OneSharedTarget, YType
  <2>3. CASE StartContainer \/ StartCopy
    <3>1. PICK t \in Targets, s \in Sources :
            /\ StartFor(t, s)
            /\ YType(SrcType(s)) => \A u \in Targets : tgtType[u] # SrcType(s)
      BY <2>3, StartSteps DEF TypeOK
    <3>2. tgtType' = [tgtType EXCEPT ![t] = SrcType(s)]
      BY <3>1 DEF StartFor
    <3> QED
      BY <2>1, <3>1, <3>2 DEF OneSharedTarget, YType
  <2>4. ASSUME Run PROVE OneSharedTarget'
    <3>1. \/ \A t \in Targets : tgtType'[t] \in {tgtType[t], NoType}
          \/ StartContainer \/ StartCopy
      BY <2>1, <2>4 DEF Run, QueueRefused, SendRefusal, SkipSource, HandleRelease, HandleAcquire,
          SkipTarget, HandleStarted, HandleFree, HandleError, RefuseWaiting, ClearFailed, Link,
          LinkNext, StartNone, CopyNone, Sweep, Sleep, tgtVars
    <3> QED
      BY <2>2, <2>3, <3>1
  <2>5. CASE UNCHANGED tgtVars
    BY <2>2, <2>5 DEF tgtVars
  <2>6. BrokerStep \/ UNCHANGED tgtVars
    BY DEF Next, vars, ConnStep, Reaccept, Runner, ContainerExit, brokerVars
  <2> QED
    BY <2>4, <2>5, <2>6 DEF BrokerStep
<1> QED
  BY <1>1, <1>2, TypeCorrect, PTL DEF Spec

-----------------------------------------------------------------------------
(***************************************************************************)
(* AddressKnown is not inductive: that a source is linked to a target of   *)
(* known address follows from what the target's label says of it.  Before  *)
(* the broker has read a runner's first message, that message is the first *)
(* in the channel or not sent, and the target, though it may be asked to   *)
(* start a container, is not free or running under a slot type.            *)
(***************************************************************************)
RegistrationFirst ==
    \A t \in Targets : tgtRef[t] = Nil =>
        \/ runner[t] = "boot" /\ tgtIn[t] = <<>>
        \/ tgtIn[t] # <<>> /\ Head(tgtIn[t]).type = "Free"

UnknownUnlabelled ==
    \A t \in Targets : tgtRef[t] = Nil /\ tgtType[t] # NoType => tgtState[t] = "Starting"

JobKnown ==
    /\ \A s \in Sources : srcState[s] # "Free" => srcJob[s] \in Jobs
    /\ phase = "link" /\ inner # Nil => srcState[at] = "Run"

AddressInv == RegistrationFirst /\ UnknownUnlabelled /\ JobKnown /\ AddressKnown

\* A message joins a channel at its end.
LEMMA HeadOfAppend ==
    ASSUME NEW S, NEW q \in Seq(S), NEW e \in S
    PROVE  Append(q, e) # <<>> /\ Head(Append(q, e)) = (IF q = <<>> THEN e ELSE Head(q))
<1>1. CASE q = <<>>
    BY <1>1, SMT
<1>2. CASE q # <<>>
  <2>1. Len(q) \in Nat /\ Len(q) > 0
    BY <1>2, SMT
  <2>2. Append(q, e)[1] = q[1] /\ Len(Append(q, e)) = Len(q) + 1 /\ Append(q, e) \in Seq(S)
    BY <2>1, SMT
  <2> QED
    BY <1>2, <2>1, <2>2, SMT
<1> QED
    BY <1>1, <1>2

\* Until the broker knows an address, its runner's first message is on the way.
LEMMA RegistrationStep ==
    ASSUME TypeOK, RegistrationFirst, [Next]_vars
    PROVE  RegistrationFirst'
<1> USE DEF RegistrationFirst
<1>1. /\ tgtIn \in [Targets -> Seq(Report)]
      /\ tgtRef \in [Targets -> Targets \cup {Nil}]
      /\ runner \in [Targets -> RunnerStates]
    BY DEF TypeOK, ChannelsTypeOK, BrokerTypeOK, TgtTypeOK, RunnerTypeOK
<1>2. CASE UNCHANGED <<tgtRef, tgtIn, runner>>
    BY <1>2
<1>3. CASE HandleFree /\ UNCHANGED runner
  <2>1. at \in Targets /\ tgtIn[at] # <<>> /\ Head(tgtIn[at]).type = "Free"
    BY <1>3, AtFacts DEF HandleFree, TypeOK, BrokerTypeOK
  <2>2. Head(tgtIn[at]) \in Report
    BY <1>1, <2>1
  <2>3. Head(tgtIn[at]).address # Nil
    BY <2>1, <2>2, MessageFacts DEF Targets, Nil
  <2> QED
    BY <1>1, <1>3, <2>1, <2>3 DEF HandleFree
<1>4. CASE (HandleStarted \/ HandleError) /\ UNCHANGED runner
  <2>1. at \in Targets /\ tgtIn[at] # <<>> /\ Head(tgtIn[at]).type # "Free"
    BY <1>4, AtFacts DEF HandleStarted, HandleError, TypeOK, BrokerTypeOK
  <2>2. tgtRef[at] # Nil
    BY <2>1
  <2> QED
    BY <1>1, <1>4, <2>2 DEF HandleStarted, HandleError, tgtVars
<1>5. ASSUME NEW t \in Targets, Runner(t) PROVE RegistrationFirst'
  <2>1. tgtRef' = tgtRef
    BY <1>5 DEF Runner, brokerVars, tgtVars
  <2>2. CASE ReadStart(t) \/ KillOld(t) \/ Launch(t)
    BY <1>1, <2>1, <2>2 DEF ReadStart, KillOld, Launch, RunnerStates
  <2>3. CASE Register(t) \/ StartFails(t) \/ Ready(t) \/ NotReady(t)
    <3>1. PICK report \in Report :
            Tell(t, report) /\ (runner[t] # "boot" \/ report.type = "Free")
      BY <2>3, MessageFacts DEF Register, StartFails, Ready, NotReady, Free
    <3>2. /\ tgtIn' = [tgtIn EXCEPT ![t] = Append(@, report)]
          /\ runner' = [runner EXCEPT ![t] = "read"]
      BY <3>1 DEF Tell
    <3>3. /\ Append(tgtIn[t], report) # <<>>
          /\ Head(Append(tgtIn[t], report))
               = (IF tgtIn[t] = <<>> THEN report ELSE Head(tgtIn[t]))
      BY <1>1, HeadOfAppend
    <3>4. \A u \in Targets \ {t} : tgtIn'[u] = tgtIn[u] /\ runner'[u] = runner[u]
      BY <1>1, <3>2
    <3>5. tgtIn'[t] # <<>> /\ (tgtRef[t] = Nil => Head(tgtIn'[t]).type = "Free")
      BY <1>1, <3>1, <3>2, <3>3
    <3> QED
      BY <2>1, <3>4, <3>5
  <2> QED
    BY <1>5, <2>2, <2>3 DEF Runner, RunnerStep
<1>6. ASSUME Run, UNCHANGED runner PROVE RegistrationFirst'
    BY <1>2, <1>3, <1>4, <1>6 DEF Run, QueueRefused, SendRefusal, SkipSource, HandleRelease,
        HandleAcquire, SkipTarget, RefuseWaiting, ClearFailed, Link, LinkNext, StartContainer,
        StartNone, StartCopy, StartFor, CopyNone, Sweep, Sleep, tgtVars, channels
<1>7. ASSUME NEW c \in Conns, ConnStep(c) \/ Reaccept(c) PROVE RegistrationFirst'
    BY <1>2, <1>7 DEF ConnStep, Reaccept, Ask, RequestSlot, CallRead, ReadReply, Close, Accept,
        brokerVars, tgtVars, runnerVars, channels
<1>8. ASSUME NEW t \in Targets, ContainerExit(t) PROVE RegistrationFirst'
    BY <1>2, <1>8 DEF ContainerExit, Exit, brokerVars, tgtVars, channels
<1>9. CASE UNCHANGED vars
    BY <1>2, <1>9 DEF vars, channels, brokerVars, tgtVars, runnerVars
<1> QED
    BY <1>5, <1>6, <1>7, <1>8, <1>9 DEF Next, BrokerStep, runnerVars

\* A target whose address is not known is unlabelled, or starting a container.
LEMMA UnknownStep ==
    ASSUME TypeOK, AddressInv, [Next]_vars
    PROVE  UnknownUnlabelled'
<1> USE DEF UnknownUnlabelled
<1>1. TgtTypeOK /\ SrcTypeOK /\ LoopTypeOK /\ RegistrationFirst /\ UnknownUnlabelled
      /\ AddressKnown
    BY DEF TypeOK, BrokerTypeOK, AddressInv
<1>2. CASE UNCHANGED tgtVars
    BY <1>1, <1>2 DEF tgtVars
<1>3. CASE HandleRelease
  <2>1. at \in Sources
    BY <1>1, <1>3, AtFacts DEF HandleRelease
  <2>2. ~FreesTarget \/ tgtRef[srcOpposite[at]] # Nil
    BY <1>1, <2>1 DEF AddressKnown, FreesTarget
  <2> QED
    BY <1>1, <1>2, <1>3, <2>2 DEF HandleRelease, TgtTypeOK
<1>4. CASE HandleFree \/ ClearFailed
    BY <1>1, <1>4 DEF HandleFree, ClearFailed, TgtTypeOK
<1>5. CASE HandleStarted
  <2>1. tgtRef[at] # Nil
    BY <1>1, <1>5, AtFacts DEF HandleStarted, RegistrationFirst
  <2> QED
    BY <1>1, <1>5, <2>1 DEF HandleStarted, TgtTypeOK
<1>6. CASE Link
  <2>1. PICK t \in First(ToLink) : tgtState' = [tgtState EXCEPT ![t] = "Run"]
    BY <1>6 DEF Link
  <2>2. t \in Targets /\ (tgtRef[t] # Nil \/ tgtType[t] = NoType)
    BY <1>1 DEF First, ToLink, Matches
  <2> QED
    BY <1>1, <1>6, <2>1, <2>2 DEF Link, TgtTypeOK
<1>7. CASE StartContainer \/ StartCopy
  <2>1. PICK t \in Targets, s \in Sources : StartFor(t, s)
    BY <1>7, StartSteps DEF TypeOK
  <2> QED
    BY <1>1, <2>1 DEF StartFor, TgtTypeOK
<1>8. CASE Sweep
  <2>1. \A t \in Targets : Unused(t) \/ Overdue(t) => tgtState[t] = "Run"
    BY DEF Unused, Overdue
  <2>2. \A t \in Targets :
          /\ tgtState'[t] = (IF Unused(t) \/ Overdue(t) THEN "Free" ELSE tgtState[t])
          /\ tgtType'[t] \in {tgtType[t], NoType}
          /\ tgtRef'[t] = tgtRef[t]
    BY <1>8 DEF Sweep
  <2> QED
    BY <1>1, <2>1, <2>2
<1>9. CASE \E d \in Elapse : Sleep(d)
    BY <1>1, <1>9 DEF Sleep
<1>10. ASSUME Run PROVE UnknownUnlabelled'
  <2>1. \/ UNCHANGED tgtVars \/ HandleRelease \/ HandleFree \/ ClearFailed \/ HandleStarted
        \/ Link \/ StartContainer \/ StartCopy \/ Sweep \/ \E d \in Elapse : Sleep(d)
    BY <1>10 DEF Run, QueueRefused, SendRefusal, SkipSource, HandleAcquire, SkipTarget,
        HandleError, RefuseWaiting, LinkNext, StartNone, CopyNone, tgtVars
  <2> QED
    BY ONLY <1>2, <1>3, <1>4, <1>5, <1>6, <1>7, <1>8, <1>9, <2>1
<1>11. BrokerStep \/ UNCHANGED tgtVars
    BY DEF Next, vars, ConnStep, Reaccept, Runner, ContainerExit, brokerVars
<1> QED
    BY <1>2, <1>10, <1>11 DEF BrokerStep

\* A source that waits or runs has a job, and one that was linked runs.
LEMMA JobStep ==
    ASSUME TypeOK, JobKnown, [Next]_vars
    PROVE  JobKnown'
<1> USE DEF JobKnown
<1>1. SrcTypeOK /\ LoopTypeOK /\ ChannelsTypeOK /\ BrokerTypeOK
    BY DEF TypeOK, BrokerTypeOK
<1>2. CASE UNCHANGED <<phase, at, inner, srcVars>>
    BY <1>2 DEF srcVars
<1>3. CASE UNCHANGED srcVars /\ (phase' # "link" \/ inner' = Nil)
    BY <1>3 DEF srcVars
<1>4. CASE HandleRelease
    BY <1>1, <1>4, AtFacts DEF HandleRelease, SrcTypeOK, Advance
<1>5. CASE HandleAcquire
  <2>1. at \in Sources
    BY <1>1, <1>5, AtFacts DEF HandleAcquire
  <2>2. Head(srcIn[at]) \in Request
    BY <1>1, <1>5, <2>1, TakeFrom, SlotsAssumption DEF HandleAcquire, ChannelsTypeOK
  <2>3. Head(srcIn[at]).job \in Jobs
    BY <1>5, <2>2, MessageFacts DEF HandleAcquire
  <2> QED
    BY <1>1, <1>5, <2>1, <2>3 DEF HandleAcquire, SrcTypeOK, Advance
<1>6. CASE RefuseWaiting
    BY <1>1, <1>6 DEF RefuseWaiting, In, SrcTypeOK
<1>7. CASE Link
  <2>1. at \in Sources /\ srcState' = [srcState EXCEPT ![at] = "Run"] /\ at' = at
        /\ srcJob' = srcJob /\ (srcState[at] = "Wait" \/ inner # Nil) /\ phase = "link"
    BY <1>1, <1>7, AtFacts DEF Link, In, First, ToLink
  <2>2. srcJob[at] \in Jobs
    BY <1>1, <2>1 DEF SrcTypeOK
  <2> QED
    BY <1>1, <2>1, <2>2 DEF SrcTypeOK
<1>8. CASE StartContainer \/ StartCopy
  <2>1. PICK t \in Targets, s \in Sources : StartFor(t, s) /\ srcState[s] = "Wait"
    BY <1>1, <1>8, StartSteps
  <2>2. phase' # "link"
    BY <1>8 DEF StartContainer, StartCopy, In
  <2> QED
    BY <1>1, <2>1, <2>2 DEF StartFor, SrcTypeOK
<1>9. CASE \E d \in Elapse : Sleep(d)
    BY <1>1, <1>9 DEF Sleep, Goto
<1>10. ASSUME Run PROVE JobKnown'
  <2>1. \/ UNCHANGED <<phase, at, inner, srcVars>>
        \/ UNCHANGED srcVars /\ (phase' # "link" \/ inner' = Nil)
        \/ HandleRelease \/ HandleAcquire \/ RefuseWaiting \/ Link
        \/ StartContainer \/ StartCopy \/ \E d \in Elapse : Sleep(d)
    BY <1>10 DEF Run, QueueRefused, SendRefusal, SkipSource, SkipTarget, HandleStarted,
        HandleFree, HandleError, ClearFailed, LinkNext, StartNone, CopyNone, Sweep, Advance, Goto
  <2> QED
    BY ONLY <1>2, <1>3, <1>4, <1>5, <1>6, <1>7, <1>8, <1>9, <2>1
<1>11. BrokerStep \/ UNCHANGED <<phase, at, inner, srcVars>>
    BY DEF Next, vars, ConnStep, Reaccept, Runner, ContainerExit, brokerVars, loopVars
<1> QED
    BY <1>2, <1>10, <1>11 DEF BrokerStep

\* What a target must be for a source to be linked to it: its address is known.
LEMMA LinkedTargetKnown ==
    ASSUME TypeOK, AddressInv, In("link"), NEW t \in ToLink
    PROVE  t \in Targets /\ tgtRef[t] \in Targets
<1>1. at \in Sources /\ (srcState[at] = "Wait" \/ inner # Nil)
    BY AtFacts DEF TypeOK, BrokerTypeOK, ToLink
<1>2. srcJob[at] \in Jobs
    BY <1>1 DEF AddressInv, JobKnown, In, TypeOK, BrokerTypeOK, SrcTypeOK
<1>3. SrcType(at) # NoType
    BY <1>2, SlotsAssumption DEF SrcType, SlotTypeOf
<1>4. t \in Targets /\ tgtType[t] = SrcType(at) /\ tgtState[t] \in {"Free", "Run"}
    BY DEF ToLink, Matches
<1>5. tgtRef[t] # Nil
    BY <1>3, <1>4 DEF AddressInv, UnknownUnlabelled
<1> QED
    BY <1>4, <1>5 DEF TypeOK, BrokerTypeOK, TgtTypeOK

\* A source that runs is on a target whose address is known.
LEMMA RunningKnownStep ==
    ASSUME TypeOK, AddressInv, [Next]_vars
    PROVE  \A s \in Sources : srcState'[s] = "Run" =>
                srcOpposite'[s] # Nil /\ tgtRef'[srcOpposite'[s]] # Nil
<1> DEFINE Known == \A s \in Sources : srcState[s] = "Run" =>
                        srcOpposite[s] # Nil /\ tgtRef[srcOpposite[s]] # Nil
<1> SUFFICES Known'
    OBVIOUS
<1>1. SrcTypeOK /\ TgtTypeOK /\ LoopTypeOK /\ ChannelsTypeOK /\ BrokerTypeOK /\ Known
    BY DEF TypeOK, BrokerTypeOK, AddressInv, AddressKnown
<1>2. CASE UNCHANGED <<srcState, srcOpposite, tgtRef>>
    BY <1>1, <1>2
<1>3. CASE HandleRelease \/ RefuseWaiting
    BY <1>1, <1>3 DEF HandleRelease, RefuseWaiting, tgtVars, SrcTypeOK
<1>4. CASE HandleAcquire
    BY <1>1, <1>4 DEF HandleAcquire, tgtVars, SrcTypeOK
<1>5. CASE HandleFree
  <2>1. at \in Targets /\ tgtIn[at] # <<>> /\ Head(tgtIn[at]).type = "Free"
    BY <1>1, <1>5, AtFacts DEF HandleFree
  <2>2. Head(tgtIn[at]) \in Report
    BY <1>1, <2>1, TakeFrom, SlotsAssumption DEF ChannelsTypeOK
  <2>3. Head(tgtIn[at]).address # Nil
    BY <2>1, <2>2, MessageFacts DEF Targets, Nil
  <2> QED
    BY <1>1, <1>5, <2>3 DEF HandleFree, srcVars, SrcTypeOK, TgtTypeOK
<1>6. CASE Link
  <2>1. PICK t \in First(ToLink) :
            /\ srcOpposite' = [srcOpposite EXCEPT ![at] = t]
            /\ srcState' = [srcState EXCEPT ![at] = "Run"]
    BY <1>6 DEF Link
  <2>2. t \in Targets /\ tgtRef[t] \in Targets
    BY <1>6, LinkedTargetKnown DEF Link, First
  <2>3. t # Nil /\ tgtRef[t] # Nil
    BY <2>2 DEF Targets, Nil
  <2> QED
    BY <1>1, <1>6, <2>1, <2>3 DEF Link, SrcTypeOK
<1>7. CASE StartContainer \/ StartCopy
  <2>1. PICK t \in Targets, s \in Sources : StartFor(t, s) /\ srcState[s] = "Wait"
    BY <1>1, <1>7, StartSteps
  <2> QED
    BY <1>1, <2>1 DEF StartFor, SrcTypeOK
<1>8. \/ UNCHANGED <<srcState, srcOpposite, tgtRef>>
      \/ Run /\ ( HandleRelease \/ RefuseWaiting \/ HandleAcquire \/ HandleFree
                  \/ Link \/ StartContainer \/ StartCopy )
    BY DEF Next, vars, BrokerStep, ConnStep, Reaccept, Runner, ContainerExit, brokerVars, Run,
        QueueRefused, SendRefusal, SkipSource, SkipTarget, HandleStarted, HandleError,
        ClearFailed, LinkNext, StartNone, CopyNone, Sweep, Sleep, srcVars, tgtVars
<1> QED
    BY ONLY <1>2, <1>3, <1>4, <1>5, <1>6, <1>7, <1>8

\* A client is only ever told a known address.
LEMMA RepliesKnownStep ==
    ASSUME TypeOK, AddressInv, [Next]_vars
    PROVE  srcOut' \in [Sources -> Seq(KnownReply)]
<1>1. /\ srcOut \in [Sources -> Seq(KnownReply)]
      /\ \A s \in Sources : Len(srcOut[s]) <= SlotBuffer
      /\ LoopTypeOK /\ ResolverTypeOK
    BY DEF TypeOK, BrokerTypeOK, ChannelsTypeOK, AddressInv, AddressKnown
<1>2. Refused \in KnownReply /\ \A t \in Targets : Acquired(t) \in KnownReply
  <2>1. Refused.type # "Acquired" /\ \A t \in Targets : Acquired(t).address = t /\ t # Nil
    BY DEF Refused, Acquired, Targets, Nil
  <2> QED
    BY <2>1, MessageFacts DEF KnownReply
<1>3. ASSUME NEW s \in Sources, NEW m \in KnownReply, Len(srcOut[s]) < SlotBuffer,
             srcOut' = [srcOut EXCEPT ![s] = Append(@, m)]
      PROVE  srcOut' \in [Sources -> Seq(KnownReply)]
    BY <1>1, <1>3, PutInto, SlotsAssumption
<1>4. CASE SendRefusal
  <2>1. /\ refusal[2] \in Sources /\ Len(srcOut[refusal[2]]) < SlotBuffer
        /\ srcOut' = [srcOut EXCEPT ![refusal[2]] = Append(@, Refused)]
    BY <1>1, <1>4 DEF SendRefusal, LoopTypeOK, HasRoom
  <2> QED
    BY <1>2, <1>3, <2>1
<1>5. CASE Link
  <2>1. PICK t \in First(ToLink) :
            /\ Len(srcOut[at]) < SlotBuffer
            /\ srcOut' = [srcOut EXCEPT ![at] = Append(@, Acquired(tgtRef[t]))]
    BY <1>5 DEF Link, HasRoom
  <2>2. tgtRef[t] \in Targets /\ at \in Sources
    BY <1>1, <1>5, LinkedTargetKnown, AtFacts DEF Link, First
  <2> QED
    BY <1>2, <1>3, <2>1, <2>2
<1>6. ASSUME NEW c \in Conns, ReadReply(c) PROVE srcOut' \in [Sources -> Seq(KnownReply)]
  <2>1. /\ connSlot[c] \in Sources /\ srcOut[connSlot[c]] # <<>>
        /\ srcOut' = [srcOut EXCEPT ![connSlot[c]] = Tail(@)]
    BY <1>1, <1>6 DEF ReadReply, ResolverTypeOK
  <2> QED
    BY <1>1, <2>1, TakeFrom, SlotsAssumption
<1>7. SendRefusal \/ Link \/ (\E c \in Conns : ReadReply(c)) \/ UNCHANGED srcOut
  <2>1. ASSUME Run PROVE SendRefusal \/ Link \/ UNCHANGED srcOut
    BY <2>1 DEF Run, QueueRefused, SkipSource, HandleRelease, HandleAcquire, SkipTarget,
        HandleStarted, HandleFree, HandleError, RefuseWaiting, ClearFailed, LinkNext,
        StartContainer, StartNone, StartCopy, StartFor, CopyNone, Sweep, Sleep, channels
  <2>2. ASSUME NEW c \in Conns, ConnStep(c) \/ Reaccept(c) PROVE ReadReply(c) \/ UNCHANGED srcOut
    BY <2>2 DEF ConnStep, Reaccept, Ask, RequestSlot, CallRead, Close, Accept, channels
  <2>3. ASSUME NEW t \in Targets, Runner(t) \/ ContainerExit(t) PROVE UNCHANGED srcOut
    BY <2>3 DEF Runner, RunnerStep, Register, ReadStart, KillOld, Launch, StartFails, Ready,
        NotReady, ContainerExit, Exit, RunnerOnly, channels
  <2> QED
    BY <2>1, <2>2, <2>3 DEF Next, BrokerStep, vars, channels
<1> QED
    BY <1>1, <1>4, <1>5, <1>6, <1>7

\* The four together are inductive.
LEMMA AddressInvariant == Spec => []AddressInv
<1>1. Init => AddressInv
  <2> SUFFICES ASSUME Init PROVE AddressInv
    OBVIOUS
  <2>1. RegistrationFirst
    BY DEF Init, ChannelsInit, ResolverInit, RunnerInit, RegistrationFirst
  <2>2. UnknownUnlabelled
    BY DEF Init, BrokerInit, UnknownUnlabelled
  <2>3. JobKnown
    BY DEF Init, BrokerInit, JobKnown
  <2>4. \A s \in Sources : srcState[s] # "Run"
    BY DEF Init, BrokerInit
  <2>5. srcOut \in [Sources -> Seq(KnownReply)]
    BY DEF Init, ChannelsInit
  <2> QED
    BY <2>1, <2>2, <2>3, <2>4, <2>5 DEF AddressInv, AddressKnown
<1>2. TypeOK /\ AddressInv /\ [Next]_vars => AddressInv'
  <2> SUFFICES ASSUME TypeOK, AddressInv, [Next]_vars PROVE AddressInv'
    OBVIOUS
  <2>1. RegistrationFirst'
    BY RegistrationStep DEF AddressInv
  <2>2. UnknownUnlabelled'
    BY UnknownStep
  <2>3. JobKnown'
    BY JobStep DEF AddressInv
  <2>4. AddressKnown'
    BY RunningKnownStep, RepliesKnownStep DEF AddressKnown, KnownReply
  <2> QED
    BY <2>1, <2>2, <2>3, <2>4 DEF AddressInv
<1> QED
    BY <1>1, <1>2, TypeCorrect, PTL DEF Spec

\* Whenever a source runs, its target's address is known, and no client is told
\* an address that is not: the broker never follows a nil pointer.
THEOREM AddressesKnown == Spec => []AddressKnown
<1>1. AddressInv => AddressKnown
    BY DEF AddressInv
<1> QED
    BY <1>1, AddressInvariant, PTL
=============================================================================
