------------------------------ MODULE SlotProofs ------------------------------
(***************************************************************************)
(* The life of a source slot, for any number of slots, connections and     *)
(* jobs, and every choice of Env: the slot is in one place only            *)
(* (SlotAccounted), and every request for it is answered once              *)
(* (OneReplyPerRequest), as long as no two free targets are labelled with  *)
(* one type.  The linking loop would link a source to both of them: the    *)
(* second answer would be there for the slot's next user.                  *)
(***************************************************************************)
EXTENDS LinkProofs

\* No two free targets are labelled with one type.
NoTwins ==
    \A t, u \in FreeTargets : tgtType[t] = tgtType[u] /\ tgtType[t] # NoType => t = u

\* With one target, or with shared types only, there never are twins.
LEMMA NoTwinsFor == (NumTargets = 1 \/ YTypes = SlotTypes) => (Spec => []NoTwins)
<1> SUFFICES ASSUME NumTargets = 1 \/ YTypes = SlotTypes PROVE Spec => []NoTwins
    OBVIOUS
<1>1. TypeOK /\ OneSharedTarget => NoTwins
  <2> SUFFICES ASSUME TypeOK, OneSharedTarget, NEW t \in FreeTargets, NEW u \in FreeTargets,
                      tgtType[t] = tgtType[u], tgtType[t] # NoType
               PROVE  t = u
    BY DEF NoTwins
  <2>1. t \in Targets /\ u \in Targets
    BY DEF FreeTargets
  <2>2. CASE NumTargets = 1
    BY <2>1, <2>2 DEF Targets
  <2>3. CASE YTypes = SlotTypes
    <3>1. YType(tgtType[t])
      BY <2>1, <2>3 DEF YType, TypeOK, BrokerTypeOK, TgtTypeOK
    <3> QED
      BY <2>1, <3>1 DEF OneSharedTarget
  <2> QED
    BY <2>2, <2>3
<1> QED
    BY <1>1, TypeCorrect, SharedOnce, PTL

-----------------------------------------------------------------------------
\* The loop that links a source ends with the first target it finds.
LinkedOnce == phase = "link" /\ inner # Nil => ToLink = {}

\* Linking a source leaves no other target to link it to.
LEMMA LinkedOnceStep ==
    ASSUME TypeOK, TypeOK', AddressInv, OneSharedTarget, NoTwins, LinkedOnce, [Next]_vars
    PROVE  LinkedOnce'
<1> USE DEF LinkedOnce
<1>1. BrokerTypeOK /\ TgtTypeOK /\ SrcTypeOK /\ LoopTypeOK
    BY DEF TypeOK, BrokerTypeOK
<1>2. CASE UNCHANGED <<phase, at, inner, srcVars, tgtVars>>
    BY <1>2 DEF ToLink, Matches, SrcType, srcVars, tgtVars
<1>3. CASE phase' # "link" \/ inner' = Nil
    BY <1>3
<1>4. CASE Link
  <2>1. PICK t \in First(ToLink) :
            /\ tgtState' = [tgtState EXCEPT ![t] = "Run"]
            /\ inner' = t
    BY <1>4 DEF Link
  <2>2. /\ UNCHANGED <<at, srcJob, tgtType>> /\ at \in Sources /\ In("link")
        /\ srcState' = [srcState EXCEPT ![at] = "Run"]
    BY <1>1, <1>4, AtFacts DEF Link
  <2>3. /\ t \in Targets /\ t \in ToLink /\ tgtType[t] = SrcType(at)
        /\ tgtState[t] = "Free" \/ YType(SrcType(at))
    BY DEF First, ToLink, Matches
  <2>4. SrcType(at) # NoType
    <3>1. srcState[at] = "Wait" \/ inner # Nil
      BY <2>3 DEF ToLink
    <3>2. srcJob[at] \in Jobs
      BY <1>1, <2>2, <3>1 DEF AddressInv, JobKnown, In
    <3> QED
      BY <3>2, SlotsAssumption DEF SrcType, SlotTypeOf
  <2>5. ASSUME NEW u \in ToLink' PROVE FALSE
    <3>1. u \in Targets /\ u > t /\ tgtType[u] = SrcType(at)
          /\ (tgtState'[u] = "Free" \/ YType(SrcType(at)))
      BY <2>1, <2>2, <2>5 DEF ToLink, Matches, SrcType
    <3>2. u # t
      BY <2>3, <3>1 DEF Targets
    <3>3. CASE YType(SrcType(at))
      BY <2>3, <3>1, <3>2, <3>3 DEF OneSharedTarget
    <3>4. CASE ~YType(SrcType(at))
      <4>1. tgtState[u] = "Free" /\ tgtState[t] = "Free"
        BY <1>1, <2>1, <2>3, <3>1, <3>2, <3>4 DEF TgtTypeOK
      <4> QED
        BY <2>3, <2>4, <3>1, <3>2, <4>1 DEF NoTwins, FreeTargets
    <3> QED
      BY <3>3, <3>4
  <2> QED
    BY <2>5
<1>5. ASSUME Run PROVE LinkedOnce'
  <2>1. \/ UNCHANGED <<phase, at, inner, srcVars, tgtVars>>
        \/ phase' # "link" \/ inner' = Nil \/ Link
    BY <1>5 DEF Run, QueueRefused, SendRefusal, SkipSource, HandleRelease, HandleAcquire,
        SkipTarget, HandleStarted, HandleFree, HandleError, RefuseWaiting, ClearFailed, LinkNext,
        StartContainer, StartNone, StartCopy, CopyNone, Sweep, Sleep, Advance, Goto, In
  <2> QED
    BY <1>2, <1>3, <1>4, <2>1
<1>6. BrokerStep \/ UNCHANGED <<phase, at, inner, srcVars, tgtVars>>
    BY DEF Next, vars, ConnStep, Reaccept, Runner, ContainerExit, brokerVars, loopVars
<1> QED
    BY <1>2, <1>5, <1>6 DEF BrokerStep

\* So what it links was waiting.
LEMMA LinksWaiting ==
    ASSUME TypeOK, LinkedOnce, Link
    PROVE  at \in Sources /\ srcState[at] = "Wait"
<1>1. at \in Sources /\ ToLink # {} /\ phase = "link"
    BY AtFacts DEF TypeOK, BrokerTypeOK, Link, First, In
<1> QED
    BY <1>1 DEF LinkedOnce, ToLink

\* The broker refuses a source it has just given up.
RefusedFree == refusal[1] # "none" => srcState[refusal[2]] = "Free"

\* A slot whose refusal is to be sent stays free until it is.
LEMMA RefusedFreeStep ==
    ASSUME TypeOK, RefusedFree, [Next]_vars
    PROVE  RefusedFree'
<1> USE DEF RefusedFree
<1>1. BrokerTypeOK /\ SrcTypeOK /\ LoopTypeOK
    BY DEF TypeOK, BrokerTypeOK
<1>2. CASE UNCHANGED <<srcState, refusal>> \/ refusal'[1] = "none"
    BY <1>2
<1>3. CASE QueueRefused
    BY <1>3 DEF QueueRefused, srcVars
<1>4. CASE RefuseWaiting
    BY <1>1, <1>4 DEF RefuseWaiting, Refuse, First, ToRefuse, WaitingFor, SrcTypeOK
<1>5. CASE StartContainer \/ StartCopy
  <2>1. PICK t \in Targets, s \in Sources : StartFor(t, s)
    BY <1>1, <1>5, StartSteps
  <2>2. refusal[1] = "none"
    BY <1>5 DEF StartContainer, StartCopy, In
  <2> QED
    BY <1>1, <2>1, <2>2 DEF StartFor, Refuse, SrcTypeOK
<1>6. ASSUME Run PROVE RefusedFree'
    BY <1>2, <1>3, <1>4, <1>5, <1>6 DEF Run, SendRefusal, SkipSource, HandleRelease,
        HandleAcquire, SkipTarget, HandleStarted, HandleFree, HandleError, ClearFailed, Link,
        LinkNext, StartNone, CopyNone, Sweep, Sleep, In, srcVars
<1>7. BrokerStep \/ UNCHANGED <<srcState, refusal>>
    BY DEF Next, vars, ConnStep, Reaccept, Runner, ContainerExit, brokerVars, loopVars, srcVars
<1> QED
    BY <1>2, <1>6, <1>7 DEF BrokerStep

-----------------------------------------------------------------------------
(***************************************************************************)
(* The books the proofs keep of a source slot s: how often it is in the    *)
(* queue of free slots, the messages of each kind in its channels, and the *)
(* connections that wait for it or use it.                                 *)
(***************************************************************************)
AcquireKind == {m \in Request : m.type = "Acquire"}
ReleaseKind == {m \in Request : m.type = "Release"}
GrantKind == {m \in Reply : m.type = "Acquired"}

Queued(s) == Occurrences(freeSourceSlots, {s})
Releases(s) == Occurrences(srcIn[s], ReleaseKind)
Replies(s) == Len(srcOut[s])
Grants(s) == Occurrences(srcOut[s], GrantKind)
Requeueing(s) == refusal = <<"queue", s>>
Owed(s) == refusal[1] # "none" /\ refusal[2] = s

WaitingOn(s) == {c \in Conns : connSlot[c] = s /\ conn[c] \in {"sent", "reading"}}
OpenOn(s) == {c \in Conns : connSlot[c] = s /\ conn[c] = "open"}
Waiters(s) == Cardinality(WaitingOn(s))
Users(s) == Cardinality(OpenOn(s))

\* The kinds of messages, by their type.
LEMMA RequestKinds ==
    /\ \A m \in Request : /\ m \in AcquireKind <=> m.type = "Acquire"
                          /\ m \in ReleaseKind <=> m.type = "Release"
    /\ \A j \in Jobs : Acquire(j) \in AcquireKind /\ Acquire(j) \notin ReleaseKind
    /\ Release(FALSE) \in ReleaseKind /\ Release(FALSE) \notin AcquireKind
    /\ \A m \in Reply : m \in GrantKind <=> m.type = "Acquired"
    /\ \A t \in Targets : Acquired(t) \in GrantKind
    /\ Refused \notin GrantKind
BY MessageFacts DEF AcquireKind, ReleaseKind, GrantKind, Acquire, Release, Acquired, Refused

\* The counts of a slot's books are numbers.
LEMMA CountsAre ==
    ASSUME ChannelsTypeOK, NEW s \in Sources
    PROVE  /\ Queued(s) \in Nat /\ Acquires(s) \in Nat /\ Releases(s) \in Nat
           /\ Grants(s) \in Nat /\ Replies(s) \in Nat
           /\ Acquires(s) = Occurrences(srcIn[s], AcquireKind)
<1>1. freeSourceSlots \in Seq(Sources) /\ srcIn[s] \in Seq(Request) /\ srcOut[s] \in Seq(Reply)
    BY DEF ChannelsTypeOK
<1>2. Acquires(s) = Occurrences(srcIn[s], AcquireKind)
    BY DEF Acquires, AcquireKind
<1>3. Queued(s) \in Nat
    BY <1>1, CountType DEF Queued
<1>4. Releases(s) \in Nat /\ Occurrences(srcIn[s], AcquireKind) \in Nat
    BY <1>1, CountType DEF Releases
<1>5. Grants(s) \in Nat
    BY <1>1, CountType DEF Grants
<1>6. Replies(s) \in Nat
    BY <1>1 DEF Replies
<1> QED
    BY <1>2, <1>3, <1>4, <1>5, <1>6

\* A slot joins the queue of free slots.
LEMMA SlotQueued ==
    ASSUME ChannelsTypeOK, NEW e \in Sources, freeSourceSlots' = Append(freeSourceSlots, e),
           NEW s \in Sources
    PROVE  Queued(s)' = Queued(s) + (IF s = e THEN 1 ELSE 0)
<1>1. freeSourceSlots \in Seq(Sources)
    BY DEF ChannelsTypeOK
<1>2. Occurrences(Append(freeSourceSlots, e), {s})
        = Occurrences(freeSourceSlots, {s}) + (IF e \in {s} THEN 1 ELSE 0)
    BY <1>1, CountAppend
<1> QED
    BY <1>2 DEF Queued

\* The broker reads a request.
LEMMA RequestRead ==
    ASSUME TypeOK, HandleRelease \/ HandleAcquire, NEW s \in Sources
    PROVE  /\ at \in Sources
           /\ LET a == IF s = at /\ HandleAcquire THEN 1 ELSE 0
                  r == IF s = at /\ HandleRelease THEN 1 ELSE 0
              IN  /\ Acquires(s)' = Acquires(s) - a /\ Acquires(s) >= a
                  /\ Releases(s)' = Releases(s) - r /\ Releases(s) >= r
<1>1. at \in Sources /\ srcIn[at] # <<>> /\ srcIn' = [srcIn EXCEPT ![at] = Tail(@)]
    BY AtFacts DEF HandleRelease, HandleAcquire, TypeOK, BrokerTypeOK
<1>2. srcIn \in [Sources -> Seq(Request)] /\ ChannelsTypeOK
    BY DEF TypeOK, ChannelsTypeOK
<1>3. Head(srcIn[at]) \in Request
    BY <1>1, <1>2
<1>4. /\ HandleAcquire <=> Head(srcIn[at]) \in AcquireKind
      /\ HandleRelease <=> Head(srcIn[at]) \in ReleaseKind
    BY <1>3, RequestKinds DEF HandleRelease, HandleAcquire
<1>5. /\ Occurrences(Tail(srcIn[at]), AcquireKind)
           = Occurrences(srcIn[at], AcquireKind) - (IF Head(srcIn[at]) \in AcquireKind THEN 1 ELSE 0)
      /\ Head(srcIn[at]) \in AcquireKind => Occurrences(srcIn[at], AcquireKind) \in Nat \ {0}
    BY <1>1, <1>2, CountTail, CountHead
<1>6. /\ Occurrences(Tail(srcIn[at]), ReleaseKind)
           = Occurrences(srcIn[at], ReleaseKind) - (IF Head(srcIn[at]) \in ReleaseKind THEN 1 ELSE 0)
      /\ Head(srcIn[at]) \in ReleaseKind => Occurrences(srcIn[at], ReleaseKind) \in Nat \ {0}
    BY <1>1, <1>2, CountTail, CountHead
<1>7. /\ Acquires(s) = Occurrences(srcIn[s], AcquireKind)
      /\ Acquires(s)' = Occurrences(srcIn'[s], AcquireKind)
      /\ Releases(s)' = Occurrences(srcIn'[s], ReleaseKind)
      /\ Releases(s) = Occurrences(srcIn[s], ReleaseKind)
    BY DEF Acquires, AcquireKind, Releases
<1>8. Acquires(s) \in Nat /\ Releases(s) \in Nat
    BY <1>2, CountsAre
<1>9. CASE s = at
    BY <1>1, <1>2, <1>4, <1>5, <1>6, <1>7, <1>8, <1>9
<1>10. CASE s # at
    BY <1>1, <1>2, <1>7, <1>8, <1>10
<1> QED
    BY <1>1, <1>9, <1>10

\* A client sends a request.
LEMMA RequestSent ==
    ASSUME TypeOK, NEW r \in Sources, NEW m \in Request,
           srcIn' = [srcIn EXCEPT ![r] = Append(@, m)], NEW s \in Sources
    PROVE  /\ Acquires(s)' = Acquires(s) + (IF s = r /\ m \in AcquireKind THEN 1 ELSE 0)
           /\ Releases(s)' = Releases(s) + (IF s = r /\ m \in ReleaseKind THEN 1 ELSE 0)
<1>1. srcIn \in [Sources -> Seq(Request)] /\ ChannelsTypeOK
    BY DEF TypeOK, ChannelsTypeOK
<1>2. /\ Occurrences(Append(srcIn[r], m), AcquireKind)
           = Occurrences(srcIn[r], AcquireKind) + (IF m \in AcquireKind THEN 1 ELSE 0)
      /\ Occurrences(Append(srcIn[r], m), ReleaseKind)
           = Occurrences(srcIn[r], ReleaseKind) + (IF m \in ReleaseKind THEN 1 ELSE 0)
    BY <1>1, CountAppend
<1>3. /\ Acquires(s) = Occurrences(srcIn[s], AcquireKind)
      /\ Acquires(s)' = Occurrences(srcIn'[s], AcquireKind)
      /\ Releases(s)' = Occurrences(srcIn'[s], ReleaseKind)
      /\ Releases(s) = Occurrences(srcIn[s], ReleaseKind)
    BY DEF Acquires, AcquireKind, Releases
<1>4. Acquires(s) \in Nat /\ Releases(s) \in Nat
    BY <1>1, CountsAre
<1> QED
    BY <1>1, <1>2, <1>3, <1>4

\* The broker answers.
LEMMA ReplySent ==
    ASSUME TypeOK, NEW r \in Sources, NEW m \in Reply,
           srcOut' = [srcOut EXCEPT ![r] = Append(@, m)], NEW s \in Sources
    PROVE  /\ Replies(s)' = Replies(s) + (IF s = r THEN 1 ELSE 0)
           /\ Grants(s)' = Grants(s) + (IF s = r /\ m \in GrantKind THEN 1 ELSE 0)
<1>1. srcOut \in [Sources -> Seq(Reply)] /\ ChannelsTypeOK
    BY DEF TypeOK, ChannelsTypeOK
<1>2. Occurrences(Append(srcOut[r], m), GrantKind)
        = Occurrences(srcOut[r], GrantKind) + (IF m \in GrantKind THEN 1 ELSE 0)
    BY <1>1, CountAppend
<1>3. Len(Append(srcOut[r], m)) = Len(srcOut[r]) + 1
    BY <1>1
<1>4. Grants(s) \in Nat /\ Replies(s) \in Nat
    BY <1>1, CountsAre
<1> QED
    BY <1>1, <1>2, <1>3, <1>4 DEF Grants, Replies

\* A client reads its answer.
LEMMA ReplyRead ==
    ASSUME TypeOK, NEW c \in Conns, ReadReply(c), NEW s \in Sources
    PROVE  /\ connSlot[c] \in Sources /\ Head(srcOut[connSlot[c]]) \in Reply
           /\ Replies(s)' = Replies(s) - (IF s = connSlot[c] THEN 1 ELSE 0)
           /\ Grants(s)' = Grants(s)
                - (IF s = connSlot[c] /\ Head(srcOut[connSlot[c]]).type = "Acquired" THEN 1 ELSE 0)
<1> DEFINE r == connSlot[c]
<1>1. /\ srcOut \in [Sources -> Seq(Reply)] /\ ChannelsTypeOK
      /\ r \in Sources /\ srcOut[r] # <<>> /\ srcOut' = [srcOut EXCEPT ![r] = Tail(@)]
    BY DEF TypeOK, ChannelsTypeOK, ResolverTypeOK, ReadReply
<1> HIDE DEF r
<1>2. Head(srcOut[r]) \in Reply /\ (Head(srcOut[r]) \in GrantKind <=> Head(srcOut[r]).type = "Acquired")
  <2>1. Head(srcOut[r]) \in Reply
    BY <1>1
  <2> QED
    BY <2>1, RequestKinds
<1>3. Occurrences(Tail(srcOut[r]), GrantKind)
        = Occurrences(srcOut[r], GrantKind) - (IF Head(srcOut[r]) \in GrantKind THEN 1 ELSE 0)
    BY <1>1, CountTail
<1>4. Len(Tail(srcOut[r])) = Len(srcOut[r]) - 1
    BY <1>1
<1>5. Grants(s) \in Nat /\ Replies(s) \in Nat
    BY <1>1, CountsAre
<1>6. /\ Replies(s)' = Replies(s) - (IF s = r THEN 1 ELSE 0)
      /\ Grants(s)' = Grants(s) - (IF s = r /\ Head(srcOut[r]).type = "Acquired" THEN 1 ELSE 0)
    BY <1>1, <1>2, <1>3, <1>4, <1>5 DEF Grants, Replies
<1> QED
    BY <1>1, <1>2, <1>6 DEF r

\* A client takes the first free slot.
LEMMA SlotTaken ==
    ASSUME TypeOK, NEW c \in Conns, RequestSlot(c), NEW s \in Sources
    PROVE  /\ Head(freeSourceSlots) \in Sources
           /\ LET a == IF s = Head(freeSourceSlots) THEN 1 ELSE 0
              IN  /\ Queued(s)' = Queued(s) - a /\ Queued(s) >= a
                  /\ Acquires(s)' = Acquires(s) + a
                  /\ Releases(s)' = Releases(s)
<1> DEFINE r == Head(freeSourceSlots)
<1>1. /\ freeSourceSlots \in Seq(Sources) /\ freeSourceSlots # <<>> /\ ChannelsTypeOK
      /\ freeSourceSlots' = Tail(freeSourceSlots)
    BY DEF TypeOK, ChannelsTypeOK, RequestSlot
<1>2. PICK j \in Jobs : srcIn' = [srcIn EXCEPT ![r] = Append(@, Acquire(j))]
    BY DEF RequestSlot
<1>3. r \in Sources
    BY <1>1
<1>4. /\ Occurrences(Tail(freeSourceSlots), {s})
           = Occurrences(freeSourceSlots, {s}) - (IF r \in {s} THEN 1 ELSE 0)
      /\ r \in {s} => Occurrences(freeSourceSlots, {s}) \in Nat \ {0}
    BY <1>1, CountTail, CountHead
<1>5. Acquire(j) \in Request /\ Acquire(j) \in AcquireKind /\ Acquire(j) \notin ReleaseKind
    BY MessageFacts, RequestKinds
<1>6. Queued(s) \in Nat /\ Acquires(s) \in Nat /\ Releases(s) \in Nat
    BY <1>1, CountsAre
<1> HIDE DEF r
<1>7. /\ Acquires(s)' = Acquires(s) + (IF s = r THEN 1 ELSE 0)
      /\ Releases(s)' = Releases(s)
  <2> DEFINE m == Acquire(j)
  <2>1. m \in Request /\ m \in AcquireKind /\ m \notin ReleaseKind
    BY <1>5
  <2>2. srcIn' = [srcIn EXCEPT ![r] = Append(@, m)]
    BY <1>2
  <2> HIDE DEF m
  <2>3. /\ Acquires(s)' = Acquires(s) + (IF s = r /\ m \in AcquireKind THEN 1 ELSE 0)
        /\ Releases(s)' = Releases(s) + (IF s = r /\ m \in ReleaseKind THEN 1 ELSE 0)
    BY <1>3, <2>1, <2>2, RequestSent
  <2> QED
    BY <1>6, <2>1, <2>3
<1>8. /\ Queued(s)' = Queued(s) - (IF s = r THEN 1 ELSE 0)
      /\ Queued(s) >= (IF s = r THEN 1 ELSE 0)
  <2>1. Queued(s)' = Occurrences(Tail(freeSourceSlots), {s}) /\ Queued(s) = Occurrences(freeSourceSlots, {s})
    BY <1>1 DEF Queued
  <2>2. r \in {s} <=> s = r
    OBVIOUS
  <2> QED
    BY <1>4, <1>6, <2>1, <2>2
<1> QED
    BY <1>3, <1>7, <1>8 DEF r

-----------------------------------------------------------------------------
(* The connections of a slot, however many there are. *)

FewOn(s) == IsFiniteSet(WaitingOn(s)) /\ IsFiniteSet(OpenOn(s))

\* A connection joins a set, or leaves it.
LEMMA OneMore ==
    ASSUME NEW A, NEW B, NEW c, IsFiniteSet(A), c \notin A, B = A \cup {c}
    PROVE  IsFiniteSet(B) /\ Cardinality(B) = Cardinality(A) + 1 /\ Cardinality(A) \in Nat
BY FS_AddElement, FS_CardinalityType

\* ... or leaves it.
LEMMA OneLess ==
    ASSUME NEW A, NEW B, NEW c, IsFiniteSet(A), c \in A, B = A \ {c}
    PROVE  IsFiniteSet(B) /\ Cardinality(B) = Cardinality(A) - 1 /\ Cardinality(A) \in Nat
BY FS_RemoveElement, FS_CardinalityType

\* Asking: one more waits on the slot.
LEMMA AskSets ==
    ASSUME TypeOK, NEW c \in Conns, RequestSlot(c), NEW s \in Sources, FewOn(s)
    PROVE  /\ FewOn(s)' /\ Users(s)' = Users(s)
           /\ Waiters(s)' = Waiters(s) + (IF s = Head(freeSourceSlots) THEN 1 ELSE 0)
           /\ Waiters(s) \in Nat
<1>1. conn \in [Conns -> ConnStates] /\ connSlot \in [Conns -> Sources \cup {Nil}]
    BY DEF TypeOK, ResolverTypeOK
<1>2. /\ conn[c] = "idle" /\ conn'[c] \in {"sent", "reading"} /\ connSlot'[c] = Head(freeSourceSlots)
      /\ \A d \in Conns \ {c} : conn'[d] = conn[d] /\ connSlot'[d] = connSlot[d]
  <2>1. /\ conn[c] = "idle" /\ connSlot' = [connSlot EXCEPT ![c] = Head(freeSourceSlots)]
        /\ conn' = [conn EXCEPT ![c] = "sent"] \/ conn' = [conn EXCEPT ![c] = "reading"]
    BY DEF RequestSlot
  <2> QED
    BY <1>1, <2>1
<1>3. OpenOn(s)' = OpenOn(s)
    BY <1>2 DEF OpenOn
<1>4. CASE s = Head(freeSourceSlots)
  <2>1. c \notin WaitingOn(s) /\ WaitingOn(s)' = WaitingOn(s) \cup {c}
    BY <1>2, <1>4 DEF WaitingOn
  <2> QED
    BY <1>3, <1>4, <2>1, OneMore DEF FewOn, Waiters, Users
<1>5. CASE s # Head(freeSourceSlots)
  <2>1. WaitingOn(s)' = WaitingOn(s)
    BY <1>2, <1>5 DEF WaitingOn
  <2> QED
    BY <1>3, <1>5, <2>1, FS_CardinalityType DEF FewOn, Waiters, Users
<1> QED
    BY <1>4, <1>5

\* Going into Read, and coming back: nobody waits, or is served, who did not before.
LEMMA CallSets ==
    ASSUME TypeOK, NEW c \in Conns, CallRead(c) \/ Accept(c), NEW s \in Sources
    PROVE  WaitingOn(s)' = WaitingOn(s) /\ OpenOn(s)' = OpenOn(s)
<1>1. conn \in [Conns -> ConnStates] /\ connSlot \in [Conns -> Sources \cup {Nil}]
    BY DEF TypeOK, ResolverTypeOK
<1>2. /\ \/ conn[c] = "sent" /\ conn'[c] = "reading" /\ connSlot'[c] = connSlot[c]
         \/ conn[c] = "closed" /\ conn'[c] = "idle"
      /\ \A d \in Conns \ {c} : conn'[d] = conn[d] /\ connSlot'[d] = connSlot[d]
    BY <1>1 DEF CallRead, Accept
<1> QED
    BY <1>2 DEF WaitingOn, OpenOn

\* Reading an answer: one less waits, and is served if it was a grant.
LEMMA ReplySets ==
    ASSUME TypeOK, NEW c \in Conns, ReadReply(c), NEW s \in Sources, FewOn(s)
    PROVE  /\ FewOn(s)'
           /\ Waiters(s)' = Waiters(s) - (IF s = connSlot[c] THEN 1 ELSE 0)
           /\ Users(s)' = Users(s)
                + (IF s = connSlot[c] /\ Head(srcOut[connSlot[c]]).type = "Acquired" THEN 1 ELSE 0)
           /\ Waiters(s) \in Nat /\ Users(s) \in Nat
<1> DEFINE granted == Head(srcOut[connSlot[c]]).type = "Acquired"
<1>1. conn \in [Conns -> ConnStates]
    BY DEF TypeOK, ResolverTypeOK
<1>2. /\ conn[c] = "reading" /\ connSlot' = connSlot
      /\ conn'[c] = (IF granted THEN "open" ELSE "closed")
      /\ \A d \in Conns \ {c} : conn'[d] = conn[d]
    BY <1>1 DEF ReadReply
<1> HIDE DEF granted
<1>3. /\ WaitingOn(s)' = (IF s = connSlot[c] THEN WaitingOn(s) \ {c} ELSE WaitingOn(s))
      /\ s = connSlot[c] => c \in WaitingOn(s)
    BY <1>2 DEF WaitingOn
<1>4. /\ OpenOn(s)' = (IF s = connSlot[c] /\ granted THEN OpenOn(s) \cup {c} ELSE OpenOn(s))
      /\ c \notin OpenOn(s)
  <2>1. CASE s = connSlot[c] /\ granted
    BY <1>2, <2>1 DEF OpenOn
  <2>2. CASE ~(s = connSlot[c] /\ granted)
    BY <1>2, <2>2 DEF OpenOn
  <2> QED
    BY <2>1, <2>2
<1>5. /\ IsFiniteSet(WaitingOn(s)') /\ Waiters(s) \in Nat
      /\ Waiters(s)' = Waiters(s) - (IF s = connSlot[c] THEN 1 ELSE 0)
    BY <1>3, OneLess, FS_CardinalityType DEF FewOn, Waiters
<1>6. /\ IsFiniteSet(OpenOn(s)') /\ Users(s) \in Nat
      /\ Users(s)' = Users(s) + (IF s = connSlot[c] /\ granted THEN 1 ELSE 0)
    BY <1>4, OneMore, FS_CardinalityType DEF FewOn, Users
<1> QED
    BY <1>5, <1>6 DEF granted, FewOn

\* Leaving: one less is served.
LEMMA CloseSets ==
    ASSUME TypeOK, NEW c \in Conns, Close(c), NEW s \in Sources, FewOn(s)
    PROVE  /\ FewOn(s)' /\ Waiters(s)' = Waiters(s)
           /\ Users(s)' = Users(s) - (IF s = connSlot[c] THEN 1 ELSE 0)
           /\ Users(s) \in Nat /\ Users(s) >= (IF s = connSlot[c] THEN 1 ELSE 0)
<1>1. conn \in [Conns -> ConnStates]
    BY DEF TypeOK, ResolverTypeOK
<1>2. /\ conn[c] = "open" /\ conn'[c] = "closed" /\ connSlot' = connSlot
      /\ \A d \in Conns \ {c} : conn'[d] = conn[d]
    BY <1>1 DEF Close
<1>3. WaitingOn(s)' = WaitingOn(s)
    BY <1>2 DEF WaitingOn
<1>4. CASE s = connSlot[c]
  <2>1. c \in OpenOn(s) /\ OpenOn(s)' = OpenOn(s) \ {c}
    BY <1>2, <1>4 DEF OpenOn
  <2>2. IsFiniteSet(OpenOn(s)') /\ Cardinality(OpenOn(s)') = Users(s) - 1 /\ Users(s) \in Nat
    BY <2>1, OneLess DEF FewOn, Users
  <2>3. Cardinality(OpenOn(s)') \in Nat
    BY <2>2, FS_CardinalityType
  <2> QED
    BY <1>3, <1>4, <2>2, <2>3 DEF FewOn, Waiters, Users
<1>5. CASE s # connSlot[c]
  <2>1. OpenOn(s)' = OpenOn(s)
    BY <1>2, <1>5 DEF OpenOn
  <2> QED
    BY <1>3, <1>5, <2>1, FS_CardinalityType DEF FewOn, Waiters, Users
<1> QED
    BY <1>4, <1>5

CountsNat ==
    \A s \in Sources : /\ Queued(s) \in Nat /\ Acquires(s) \in Nat /\ Releases(s) \in Nat
                       /\ Grants(s) \in Nat /\ Replies(s) \in Nat

\* The counts are numbers after a step, too.
LEMMA PrimedCounts == ChannelsTypeOK' => CountsNat'
<1>1. ChannelsTypeOK => CountsNat
    BY CountsAre DEF CountsNat
<1> QED
    BY <1>1, PTL

-----------------------------------------------------------------------------
(* The books, as the inductive invariant. *)

\* A slot is free and queued, free and about to be queued, free and asked for in
\* a request the broker has yet to read, or not free.
Placed(s) ==
    \/ Queued(s) = 1 /\ ~Requeueing(s) /\ Acquires(s) = 0 /\ srcState[s] = "Free"
    \/ Queued(s) = 0 /\ Requeueing(s) /\ Acquires(s) = 0 /\ srcState[s] = "Free"
    \/ Queued(s) = 0 /\ ~Requeueing(s) /\ Acquires(s) = 1 /\ srcState[s] = "Free"
    \/ Queued(s) = 0 /\ ~Requeueing(s) /\ Acquires(s) = 0 /\ srcState[s] # "Free"

\* A source runs from the grant the broker sends until it reads the release: the
\* grant is on the way, a connection is open, or the release is on the way.
Served(s) ==
    IF srcState[s] = "Run"
    THEN \/ Grants(s) = 1 /\ Users(s) = 0 /\ Releases(s) = 0
         \/ Grants(s) = 0 /\ Users(s) = 1 /\ Releases(s) = 0
         \/ Grants(s) = 0 /\ Users(s) = 0 /\ Releases(s) = 1
    ELSE Grants(s) = 0 /\ Users(s) = 0 /\ Releases(s) = 0

Answered(s) ==
    Waiters(s) = Replies(s) + Acquires(s) + (IF srcState[s] = "Wait" THEN 1 ELSE 0)
                    + (IF Owed(s) THEN 1 ELSE 0)

Books(s) == FewOn(s) /\ Placed(s) /\ Served(s) /\ Answered(s)

\* Every step keeps the books of a slot.
LEMMA BooksStep ==
    ASSUME TypeOK, TypeOK', LinkedOnce, RefusedFree, NEW s \in Sources, Books(s), [Next]_vars
    PROVE  Books(s)'
<1>1. /\ ChannelsTypeOK /\ BrokerTypeOK /\ LoopTypeOK /\ SrcTypeOK /\ ChannelsTypeOK'
      /\ srcState \in [Sources -> {"Free", "Wait", "Run"}]
    BY DEF TypeOK, BrokerTypeOK, SrcTypeOK
<1>2. /\ Queued(s) \in Nat /\ Acquires(s) \in Nat /\ Releases(s) \in Nat
      /\ Grants(s) \in Nat /\ Replies(s) \in Nat
    BY <1>1, CountsAre
<1>3. Waiters(s) \in Nat /\ Users(s) \in Nat /\ FewOn(s)
    BY FS_CardinalityType DEF Books, FewOn, Waiters, Users
<1> DEFINE SameQueue == Queued(s)' = Queued(s)
           SameRequests == Acquires(s)' = Acquires(s) /\ Releases(s)' = Releases(s)
           SameReplies == Replies(s)' = Replies(s) /\ Grants(s)' = Grants(s)
           SameConns == Waiters(s)' = Waiters(s) /\ Users(s)' = Users(s) /\ FewOn(s)'
           SameRefusal == (Requeueing(s)' <=> Requeueing(s)) /\ (Owed(s)' <=> Owed(s))
           NoRefusal == ~Requeueing(s) /\ ~Owed(s)
           SameState == srcState'[s] = srcState[s]
<1>4. /\ freeSourceSlots' = freeSourceSlots => SameQueue
      /\ srcIn' = srcIn => SameRequests
      /\ srcOut' = srcOut => SameReplies
      /\ refusal' = refusal => SameRefusal
      /\ In(phase) => NoRefusal
    BY DEF Queued, Acquires, Releases, Replies, Grants, Requeueing, Owed, In
<1>5. UNCHANGED <<conn, connSlot>> => SameConns
    BY <1>3 DEF WaitingOn, OpenOn, Waiters, Users, FewOn
<1> USE DEF Books, Placed, Served, Answered
<1>6. CASE SameQueue /\ SameRequests /\ SameReplies /\ SameConns /\ SameRefusal /\ SameState
    BY <1>6
<1>7. ASSUME Run, UNCHANGED <<conn, connSlot>> PROVE Books(s)'
  <2>1. SameConns
    BY <1>5, <1>7
  <2>2. CASE QueueRefused
    <3>1. /\ refusal[2] \in Sources /\ freeSourceSlots' = Append(freeSourceSlots, refusal[2])
          /\ refusal[1] = "queue" /\ refusal' = <<"reply", refusal[2]>>
          /\ refusal = <<refusal[1], refusal[2]>>
          /\ srcState' = srcState /\ srcIn' = srcIn /\ srcOut' = srcOut
      BY <1>1, <2>2 DEF QueueRefused, LoopTypeOK, srcVars
    <3>2. Queued(s)' = Queued(s) + (IF s = refusal[2] THEN 1 ELSE 0)
      BY <1>1, <3>1, SlotQueued
    <3>3. /\ Requeueing(s) <=> s = refusal[2]
          /\ ~Requeueing(s)' /\ (Owed(s)' <=> Owed(s))
      BY <3>1 DEF Requeueing, Owed
    <3> QED
      BY <1>2, <1>4, <2>1, <3>1, <3>2, <3>3
  <2>3. CASE SendRefusal
    <3>1. /\ refusal[2] \in Sources /\ srcOut' = [srcOut EXCEPT ![refusal[2]] = Append(@, Refused)]
          /\ refusal[1] = "reply" /\ refusal' = <<"none", Nil>>
          /\ srcState' = srcState /\ srcIn' = srcIn /\ freeSourceSlots' = freeSourceSlots
      BY <1>1, <2>3 DEF SendRefusal, LoopTypeOK, srcVars
    <3>2. /\ Replies(s)' = Replies(s) + (IF s = refusal[2] THEN 1 ELSE 0)
          /\ Grants(s)' = Grants(s)
      <4> DEFINE m == Refused
                 r == refusal[2]
      <4>1. /\ m \in Reply /\ m \notin GrantKind /\ r \in Sources
            /\ srcOut' = [srcOut EXCEPT ![r] = Append(@, m)]
        BY <3>1, RequestKinds, MessageFacts
      <4> HIDE DEF m, r
      <4>2. /\ Replies(s)' = Replies(s) + (IF s = r THEN 1 ELSE 0)
            /\ Grants(s)' = Grants(s) + (IF s = r /\ m \in GrantKind THEN 1 ELSE 0)
        BY <4>1, ReplySent
      <4> QED
        BY <1>2, <4>1, <4>2 DEF r
    <3>3. /\ ~Requeueing(s) /\ (Owed(s) <=> s = refusal[2])
          /\ ~Requeueing(s)' /\ ~Owed(s)'
      BY <3>1 DEF Requeueing, Owed
    <3> QED
      BY <1>2, <1>3, <1>4, <2>1, <3>1, <3>2, <3>3
  <2>4. CASE HandleRelease
    <3>1. /\ freeSourceSlots' = Append(freeSourceSlots, at) /\ at \in Sources
          /\ srcState' = [srcState EXCEPT ![at] = "Free"]
          /\ srcOut' = srcOut /\ refusal' = refusal /\ NoRefusal
      BY <1>1, <1>4, <2>4, AtFacts DEF HandleRelease, In
    <3>2. Queued(s)' = Queued(s) + (IF s = at THEN 1 ELSE 0)
      BY <1>1, <3>1, SlotQueued
    <3>3. /\ Acquires(s)' = Acquires(s)
          /\ Releases(s)' = Releases(s) - (IF s = at THEN 1 ELSE 0)
          /\ Releases(s) >= (IF s = at THEN 1 ELSE 0)
      <4>1. ~HandleAcquire
        BY <2>4 DEF HandleRelease, HandleAcquire
      <4> QED
        BY <1>2, <2>4, <4>1, RequestRead
    <3>4. CASE s = at
      <4>1. srcState[s] = "Run" /\ Releases(s) = 1 /\ srcState'[s] = "Free"
        BY <1>1, <3>1, <3>3, <3>4
      <4> QED
        BY <1>2, <1>4, <2>1, <3>1, <3>2, <3>3, <3>4, <4>1
    <3>5. CASE s # at
      BY <1>1, <1>2, <1>4, <1>6, <2>1, <3>1, <3>2, <3>3, <3>5
    <3> QED
      BY <3>4, <3>5
  <2>5. CASE HandleAcquire
    <3>1. /\ srcState' = [srcState EXCEPT ![at] = "Wait"] /\ at \in Sources
          /\ srcOut' = srcOut /\ refusal' = refusal /\ freeSourceSlots' = freeSourceSlots
          /\ NoRefusal
      BY <1>1, <1>4, <2>5, AtFacts DEF HandleAcquire, In
    <3>2. /\ Releases(s)' = Releases(s)
          /\ Acquires(s)' = Acquires(s) - (IF s = at THEN 1 ELSE 0)
          /\ Acquires(s) >= (IF s = at THEN 1 ELSE 0)
      <4>1. ~HandleRelease
        BY <2>5 DEF HandleRelease, HandleAcquire
      <4> QED
        BY <1>2, <2>5, <4>1, RequestRead
    <3>3. CASE s = at
      <4>1. srcState[s] = "Free" /\ Acquires(s) = 1 /\ srcState'[s] = "Wait"
        BY <1>1, <3>1, <3>2, <3>3
      <4> QED
        BY <1>2, <1>4, <2>1, <3>1, <3>2, <3>3, <4>1
    <3>4. CASE s # at
      BY <1>1, <1>2, <1>4, <1>6, <2>1, <3>1, <3>2, <3>4
    <3> QED
      BY <3>3, <3>4
  <2>6. ASSUME NEW r \in Sources, srcState[r] = "Wait", srcState' = [srcState EXCEPT ![r] = "Free"],
               refusal' = <<"queue", r>>, In(phase), UNCHANGED <<freeSourceSlots, srcIn, srcOut>>
        PROVE  Books(s)'
    <3>1. /\ NoRefusal /\ (Requeueing(s)' <=> s = r) /\ (Owed(s)' <=> s = r)
      BY <1>4, <2>6 DEF Requeueing, Owed
    <3>2. CASE s = r
      BY <1>1, <1>2, <1>3, <1>4, <2>1, <2>6, <3>1, <3>2
    <3>3. CASE s # r
      BY <1>1, <1>4, <1>6, <2>1, <2>6, <3>1, <3>3
    <3> QED
      BY <3>2, <3>3
  <2>7. CASE RefuseWaiting
    <3>1. PICK r \in First(ToRefuse) : srcState' = [srcState EXCEPT ![r] = "Free"] /\ Refuse(r)
      BY <2>7 DEF RefuseWaiting
    <3>2. r \in Sources /\ srcState[r] = "Wait"
      BY DEF First, ToRefuse, WaitingFor
    <3> QED
      BY <2>6, <2>7, <3>1, <3>2 DEF RefuseWaiting, Refuse, In, channels
  <2>8. CASE StartContainer \/ StartCopy
    <3>1. PICK t \in Targets, r \in Sources : StartFor(t, r) /\ srcState[r] = "Wait"
      BY <1>1, <2>8, StartSteps
    <3>2. In(phase) /\ UNCHANGED <<freeSourceSlots, srcIn, srcOut>>
      BY <2>8, <3>1 DEF StartContainer, StartCopy, StartFor, In
    <3> QED
      BY <1>4, <1>6, <2>1, <2>6, <3>1, <3>2 DEF StartFor, Refuse
  <2>9. CASE Link
    <3>1. PICK t \in First(ToLink) :
            srcOut' = [srcOut EXCEPT ![at] = Append(@, Acquired(tgtRef[t]))]
      BY <2>9 DEF Link
    <3>2. /\ srcState' = [srcState EXCEPT ![at] = "Run"] /\ refusal' = refusal
          /\ UNCHANGED <<freeSourceSlots, srcIn>>
      BY <2>9 DEF Link
    <3>3. at \in Sources /\ srcState[at] = "Wait"
      BY <2>9, LinksWaiting
    <3>4. tgtRef[t] \in Targets \cup {Nil}
      BY <1>1 DEF First, ToLink, Matches, BrokerTypeOK, TgtTypeOK
    <3>5. Acquired(tgtRef[t]) \in Reply /\ Acquired(tgtRef[t]) \in GrantKind
      BY <3>4, MessageFacts DEF GrantKind, Acquired
    <3>6. /\ Replies(s)' = Replies(s) + (IF s = at THEN 1 ELSE 0)
          /\ Grants(s)' = Grants(s) + (IF s = at THEN 1 ELSE 0)
      <4> DEFINE m == Acquired(tgtRef[t])
      <4>1. m \in Reply /\ m \in GrantKind /\ srcOut' = [srcOut EXCEPT ![at] = Append(@, m)]
        BY <3>1, <3>5
      <4> HIDE DEF m
      <4> QED
        BY <3>3, <4>1, ReplySent
    <3>7. CASE s = at
      BY <1>1, <1>2, <1>3, <1>4, <2>1, <3>2, <3>3, <3>6, <3>7
    <3>8. CASE s # at
      BY <1>1, <1>2, <1>4, <1>6, <2>1, <3>2, <3>6, <3>8
    <3> QED
      BY <3>7, <3>8
  <2>10. CASE UNCHANGED <<freeSourceSlots, srcIn, srcOut, srcState, refusal>>
    BY <1>4, <1>6, <2>1, <2>10
  <2> QED
    BY <1>7, <2>2, <2>3, <2>4, <2>5, <2>7, <2>8, <2>9, <2>10 DEF Run, SkipSource, SkipTarget,
        HandleStarted, HandleFree, HandleError, ClearFailed, LinkNext, StartNone, CopyNone, Sweep,
        Sleep, srcVars, channels
<1>8. ASSUME NEW c \in Conns, ConnStep(c) \/ Reaccept(c) PROVE Books(s)'
  <2>1. SameState /\ SameRefusal
    BY <1>4, <1>8 DEF ConnStep, Reaccept, brokerVars, loopVars, srcVars
  <2>2. CASE RequestSlot(c)
    <3>1. SameReplies
      BY <1>4, <2>2 DEF RequestSlot
    <3> QED
      BY <1>2, <1>3, <2>1, <2>2, <3>1, SlotTaken, AskSets
  <2>3. CASE CallRead(c) \/ Accept(c)
    <3>1. SameConns
      BY <1>3, <2>3, CallSets DEF Waiters, Users, FewOn
    <3>2. SameQueue /\ SameRequests /\ SameReplies
      BY <1>4, <2>3 DEF CallRead, Accept, channels
    <3> QED
      BY <1>6, <2>1, <3>1, <3>2
  <2>4. CASE ReadReply(c)
    <3>1. SameQueue /\ SameRequests
      BY <1>4, <2>4 DEF ReadReply
    <3>2. /\ Replies(s)' = Replies(s) - (IF s = connSlot[c] THEN 1 ELSE 0)
          /\ Waiters(s)' = Waiters(s) - (IF s = connSlot[c] THEN 1 ELSE 0)
          /\ FewOn(s)'
      BY <1>3, <2>4, ReplyRead, ReplySets
    <3>3. CASE s = connSlot[c] /\ Head(srcOut[connSlot[c]]).type = "Acquired"
      <4>1. Grants(s)' = Grants(s) - 1 /\ Users(s)' = Users(s) + 1
        BY <1>2, <1>3, <2>4, <3>3, ReplyRead, ReplySets
      <4>2. Grants(s)' \in Nat
        BY <1>1, PrimedCounts DEF CountsNat
      <4> QED
        BY <1>2, <1>3, <2>1, <3>1, <3>2, <4>1, <4>2
    <3>4. CASE ~(s = connSlot[c] /\ Head(srcOut[connSlot[c]]).type = "Acquired")
      <4>1. Grants(s)' = Grants(s) /\ Users(s)' = Users(s)
        BY <1>2, <1>3, <2>4, <3>4, ReplyRead, ReplySets
      <4> QED
        BY <1>2, <1>3, <2>1, <3>1, <3>2, <4>1
    <3> QED
      BY <3>3, <3>4
  <2>5. CASE Close(c)
    <3>1. SameQueue /\ SameReplies
      BY <1>4, <2>5 DEF Close
    <3>2. connSlot[c] \in Sources
      BY <2>5 DEF Close, TypeOK, ResolverTypeOK
    <3>3. /\ Acquires(s)' = Acquires(s)
          /\ Releases(s)' = Releases(s) + (IF s = connSlot[c] THEN 1 ELSE 0)
      <4> DEFINE m == Release(FALSE)
                 r == connSlot[c]
      <4>1. /\ m \in Request /\ m \in ReleaseKind /\ m \notin AcquireKind
            /\ srcIn' = [srcIn EXCEPT ![r] = Append(@, m)] /\ r \in Sources
        BY <2>5, <3>2, RequestKinds, MessageFacts DEF Close
      <4> HIDE DEF m, r
      <4>2. /\ Acquires(s)' = Acquires(s) + (IF s = r /\ m \in AcquireKind THEN 1 ELSE 0)
            /\ Releases(s)' = Releases(s) + (IF s = r /\ m \in ReleaseKind THEN 1 ELSE 0)
        BY <4>1, RequestSent
      <4> QED
        BY <1>2, <4>1, <4>2 DEF r
    <3> QED
      BY <1>2, <1>3, <2>1, <2>5, <3>1, <3>3, CloseSets
  <2> QED
    BY <1>8, <2>2, <2>3, <2>4, <2>5 DEF ConnStep, Reaccept, Ask
<1>9. ASSUME NEW t \in Targets, Runner(t) \/ ContainerExit(t) PROVE Books(s)'
  <2>1. UNCHANGED <<freeSourceSlots, srcIn, srcOut, srcState, refusal, conn, connSlot>>
    BY <1>9 DEF Runner, RunnerStep, Register, ReadStart, KillOld, Launch, StartFails, Ready,
        NotReady, ContainerExit, Exit, RunnerOnly, brokerVars, srcVars, loopVars, connVars, channels
  <2> QED
    BY <1>4, <1>5, <1>6, <2>1
<1>10. CASE UNCHANGED vars
    BY <1>4, <1>5, <1>6, <1>10 DEF vars, channels, brokerVars, srcVars, loopVars, connVars
<1> QED
    BY <1>7, <1>8, <1>9, <1>10 DEF Next, BrokerStep, connVars

-----------------------------------------------------------------------------
SlotInv == LinkedOnce /\ RefusedFree /\ \A s \in Sources : Books(s)

\* At first all slots are in the queue, and nobody waits.
LEMMA BooksInit == TypeOK /\ Init => SlotInv
<1> SUFFICES ASSUME TypeOK, Init PROVE SlotInv
    OBVIOUS
<1>1. /\ phase = "sources" /\ refusal = <<"none", Nil>>
      /\ freeSourceSlots = [i \in Sources |-> i]
      /\ \A s \in Sources : srcIn[s] = <<>> /\ srcOut[s] = <<>> /\ srcState[s] = "Free"
      /\ \A c \in Conns : conn[c] = "idle"
    BY DEF Init, ChannelsInit, BrokerInit, ResolverInit
<1>2. LinkedOnce /\ RefusedFree
    BY <1>1 DEF LinkedOnce, RefusedFree
<1>3. ASSUME NEW s \in Sources PROVE Books(s)
  <2>1. Queued(s) = 1
    <3>1. Len(freeSourceSlots) = NumSources /\ \A i \in 1..NumSources : freeSourceSlots[i] = i
      BY <1>1, SlotsAssumption DEF Sources
    <3>2. {i \in 1..Len(freeSourceSlots) : freeSourceSlots[i] \in {s}} = {s}
      BY <3>1 DEF Sources
    <3> QED
      BY <3>2, FS_Singleton DEF Queued, Occurrences
  <2>2. Acquires(s) = 0 /\ Releases(s) = 0 /\ Grants(s) = 0 /\ Replies(s) = 0
    BY <1>1, CountEmpty DEF Acquires, Releases, Grants, Replies
  <2>3. WaitingOn(s) = {} /\ OpenOn(s) = {}
    BY <1>1 DEF WaitingOn, OpenOn
  <2>4. FewOn(s) /\ Waiters(s) = 0 /\ Users(s) = 0
    BY <2>3, FS_EmptySet DEF FewOn, Waiters, Users
  <2>5. ~Requeueing(s) /\ ~Owed(s)
    BY <1>1 DEF Requeueing, Owed
  <2> QED
    BY <1>1, <2>1, <2>2, <2>4, <2>5 DEF Books, Placed, Served, Answered
<1> QED
    BY <1>2, <1>3 DEF SlotInv

\* So the books are always right, as long as there are no twins.
LEMMA SlotInvariant == Spec /\ []NoTwins => []SlotInv
<1>1. TypeOK /\ TypeOK' /\ AddressInv /\ OneSharedTarget /\ NoTwins /\ SlotInv /\ [Next]_vars => SlotInv'
  <2> SUFFICES ASSUME TypeOK, TypeOK', AddressInv, OneSharedTarget, NoTwins, SlotInv, [Next]_vars
               PROVE  SlotInv'
    OBVIOUS
  <2>1. LinkedOnce'
    BY LinkedOnceStep DEF SlotInv
  <2>2. RefusedFree'
    BY RefusedFreeStep DEF SlotInv
  <2>3. \A s \in Sources : Books(s)'
    BY BooksStep DEF SlotInv
  <2> QED
    BY <2>1, <2>2, <2>3 DEF SlotInv
<1> QED
    BY <1>1, BooksInit, TypeCorrect, AddressInvariant, SharedOnce, PTL DEF Spec

\* As long as there are no twins, each source slot is in one place only: none is lost,
\* none is given to two connections.
THEOREM SlotsAccounted == Spec /\ []NoTwins => []SlotAccounted
<1>1. TypeOK /\ SlotInv => SlotAccounted
  <2> SUFFICES ASSUME TypeOK, SlotInv, NEW s \in Sources
               PROVE  Occurrences(freeSourceSlots, {s}) + One(refusal = <<"queue", s>>)
                        + Acquires(s) + One(srcState[s] # "Free") = 1
    BY DEF SlotAccounted
  <2>1. Placed(s)
    BY DEF SlotInv, Books
  <2>2. Occurrences(freeSourceSlots, {s}) = Queued(s)
    BY DEF Queued
  <2>3. /\ Requeueing(s) => One(refusal = <<"queue", s>>) = 1
        /\ ~Requeueing(s) => One(refusal = <<"queue", s>>) = 0
    BY DEF One, Requeueing
  <2>4. srcState[s] # "Free" => One(srcState[s] # "Free") = 1
    BY DEF One
  <2>5. srcState[s] = "Free" => One(srcState[s] # "Free") = 0
    BY DEF One
  <2> QED
    BY <2>1, <2>2, <2>3, <2>4, <2>5 DEF Placed
<1> QED
    BY <1>1, SlotInvariant, TypeCorrect, PTL

\* As long as there are no twins, the answers that are there or owed are as many as the
\* connections that wait for one.
THEOREM RequestsAnsweredOnce == Spec /\ []NoTwins => []OneReplyPerRequest
<1>1. TypeOK /\ SlotInv => OneReplyPerRequest
  <2> SUFFICES ASSUME TypeOK, SlotInv, NEW s \in Sources
               PROVE  Cardinality({c \in Conns : connSlot[c] = s /\ conn[c] \in {"sent", "reading"}})
                        = Len(srcOut[s]) + Acquires(s) + One(srcState[s] = "Wait")
                            + One(refusal[1] # "none" /\ refusal[2] = s)
    BY DEF OneReplyPerRequest
  <2>1. Answered(s)
    BY DEF SlotInv, Books
  <2>2. Cardinality({c \in Conns : connSlot[c] = s /\ conn[c] \in {"sent", "reading"}}) = Waiters(s)
    BY DEF Waiters, WaitingOn
  <2>3. One(srcState[s] = "Wait") = (IF srcState[s] = "Wait" THEN 1 ELSE 0)
    BY DEF One
  <2>4. One(refusal[1] # "none" /\ refusal[2] = s) = (IF Owed(s) THEN 1 ELSE 0)
    BY DEF One, Owed
  <2> QED
    BY <2>1, <2>2, <2>3, <2>4 DEF Answered, Replies
<1> QED
    BY <1>1, SlotInvariant, TypeCorrect, PTL

\* What the two theorems come to when there are no twins to assume away.
COROLLARY SlotsAccountedFor ==
    (NumTargets = 1 \/ YTypes = SlotTypes) => (Spec => [](SlotAccounted /\ OneReplyPerRequest))
<1> SUFFICES ASSUME NumTargets = 1 \/ YTypes = SlotTypes
             PROVE  Spec => [](SlotAccounted /\ OneReplyPerRequest)
    OBVIOUS
<1> QED
    BY NoTwinsFor, SlotsAccounted, RequestsAnsweredOnce, PTL

-----------------------------------------------------------------------------
(* The broker never waits for room in a channel. *)

\* No more clients wait for an answer on one slot than its channel has places: they
\* are many only if a client that was refused does not read what it is told.
FewWaiters == \A s \in Sources : Waiters(s) <= SlotBuffer

\* No more wait than there are connections.
LEMMA FewWaitersFor ==
    IsFiniteSet(Conns) /\ Cardinality(Conns) <= SlotBuffer => FewWaiters
<1> SUFFICES ASSUME IsFiniteSet(Conns), Cardinality(Conns) <= SlotBuffer, NEW s \in Sources
             PROVE  Waiters(s) <= SlotBuffer
    BY DEF FewWaiters
<1>1. WaitingOn(s) \subseteq Conns
    BY DEF WaitingOn
<1>2. /\ Cardinality(WaitingOn(s)) <= Cardinality(Conns) /\ Cardinality(WaitingOn(s)) \in Nat
      /\ Cardinality(Conns) \in Nat
    BY <1>1, FS_Subset, FS_CardinalityType
<1> QED
    BY <1>2, SlotsAssumption DEF Waiters

\* A slot that is not in the queue leaves room in it.
LEMMA RoomForOne ==
    ASSUME TypeOK, SlotInv, NEW r \in Sources, Queued(r) = 0
    PROVE  HasRoom(freeSourceSlots, NumSources)
<1> DEFINE q == freeSourceSlots
           D == 1..Len(q)
<1>1. q \in Seq(Sources) /\ Len(q) \in Nat /\ D = DOMAIN q /\ \A i \in D : q[i] \in Sources
    BY DEF TypeOK, ChannelsTypeOK
<1>2. \A i \in D : q[i] # r
    BY <1>1, CountZero DEF Queued
<1>3. ASSUME NEW i \in D, NEW j \in D, q[i] = q[j] PROVE i = j
  <2> DEFINE A == {k \in 1..Len(q) : q[k] \in {q[i]}}
  <2>1. i \in A /\ j \in A
    BY <1>3
  <2>2. q[i] \in Sources
    BY <1>1, <1>3
  <2>3. Queued(q[i]) \in {0, 1}
    BY <2>2 DEF SlotInv, Books, Placed
  <2>4. IsFiniteSet(A) /\ Cardinality(A) = Queued(q[i])
    BY <1>1, CountType DEF Queued, Occurrences
  <2> HIDE DEF A
  <2>5. Cardinality(A) = 1
    BY <2>1, <2>3, <2>4, FS_EmptySet
  <2>6. PICK x : A = {x}
    BY <2>4, <2>5, FS_Singleton
  <2> QED
    BY <2>1, <2>6
<1>4. IsFiniteSet(Sources) /\ Cardinality(Sources) = NumSources
    BY FS_Interval, SlotsAssumption DEF Sources
<1>5. /\ IsFiniteSet(Sources \ {r}) /\ Cardinality(Sources \ {r}) = NumSources - 1
    BY <1>4, FS_RemoveElement
<1>6. Cardinality(D) = Len(q)
  <2> DEFINE n == Len(q)
  <2>1. n \in Nat
    BY <1>1
  <2> HIDE DEF n
  <2>2. Cardinality(1..n) = IF 1 > n THEN 0 ELSE n - 1 + 1
    BY <2>1, FS_Interval
  <2>3. Cardinality(1..n) = n
    BY <2>1, <2>2
  <2> QED
    BY <2>3 DEF n
<1>7. q \in Injection(D, Sources \ {r})
  <2>1. q \in [D -> Sources \ {r}]
    BY <1>1, <1>2
  <2> HIDE DEF q, D
  <2> QED
    BY <1>3, <2>1 DEF Injection, IsInjective
<1>8. Cardinality(D) <= Cardinality(Sources \ {r})
    BY <1>5, <1>7, FS_Injection
<1> QED
    BY <1>1, <1>5, <1>6, <1>8, SlotsAssumption DEF HasRoom

\* A slot that owes an answer has room for it: who waits is counted by Answered.
LEMMA RoomForReply ==
    ASSUME TypeOK, SlotInv, FewWaiters, NEW s \in Sources, srcState[s] = "Wait" \/ Owed(s)
    PROVE  HasRoom(srcOut[s], SlotBuffer)
<1>1. Replies(s) \in Nat /\ Acquires(s) \in Nat
    BY CountsAre DEF TypeOK
<1>2. Answered(s) /\ Waiters(s) <= SlotBuffer
    BY DEF SlotInv, Books, FewWaiters
<1> QED
    BY <1>1, <1>2, SlotsAssumption DEF Answered, Replies, HasRoom

\* Nothing that waits for a start is left in a free target's channel (Prompt),
\* or one order at most (FewOrders), and there is room for another.
Roomy == Prompt \/ (ShortJobs /\ SlotBuffer >= 2)

\* A start finds room in the channel of a free target.
LEMMA RoomToStart ==
    Roomy => (Spec => [](\A t \in FreeTargets : HasRoom(tgtOut[t], SlotBuffer)))
<1> SUFFICES ASSUME Roomy
             PROVE  Spec => [](\A t \in FreeTargets : HasRoom(tgtOut[t], SlotBuffer))
    OBVIOUS
<1>1. CASE Prompt
  <2>1. TypeOK /\ StartDiscipline => \A t \in FreeTargets : HasRoom(tgtOut[t], SlotBuffer)
    <3> SUFFICES ASSUME TypeOK, StartDiscipline
                 PROVE  \A t \in FreeTargets : HasRoom(tgtOut[t], SlotBuffer)
      OBVIOUS
    <3>1. Balanced
      BY DisciplineIs DEF TypeOK
    <3> QED
      BY <3>1, SlotsAssumption DEF Balanced, NothingOnTheWay, FreeTargets, HasRoom
  <2>2. Spec => []StartDiscipline
    BY <1>1, StartsDisciplined
  <2> QED
    BY <2>1, <2>2, TypeCorrect, PTL
<1>2. CASE ShortJobs /\ SlotBuffer >= 2
  <2>1. TypeOK /\ (\A t \in Targets : tgtState[t] = "Free" => Len(tgtOut[t]) <= 1)
          => \A t \in FreeTargets : HasRoom(tgtOut[t], SlotBuffer)
    <3> SUFFICES ASSUME TypeOK, \A t \in Targets : tgtState[t] = "Free" => Len(tgtOut[t]) <= 1,
                        NEW t \in FreeTargets
                 PROVE  HasRoom(tgtOut[t], SlotBuffer)
      OBVIOUS
    <3>1. t \in Targets /\ Len(tgtOut[t]) \in Nat
      BY DEF FreeTargets, TypeOK, ChannelsTypeOK
    <3> QED
      BY <1>2, <3>1, SlotsAssumption DEF FreeTargets, HasRoom
  <2>2. Spec => [](\A t \in Targets : tgtState[t] = "Free" => Len(tgtOut[t]) <= 1)
    BY <1>2, FewOrders
  <2> QED
    BY <2>1, <2>2, TypeCorrect, PTL
<1> QED
    BY <1>1, <1>2 DEF Roomy

\* Whatever the broker is about to send has room in its channel: it never waits.
THEOREM BrokerNeverBlocks ==
    Roomy => (Spec /\ []NoTwins /\ []FewWaiters => []NeverBlocks)
<1> SUFFICES ASSUME Roomy PROVE Spec /\ []NoTwins /\ []FewWaiters => []NeverBlocks
    OBVIOUS
<1>1. TypeOK /\ SlotInv /\ FewWaiters /\ (\A t \in FreeTargets : HasRoom(tgtOut[t], SlotBuffer))
        => NeverBlocks
  <2> SUFFICES ASSUME TypeOK, SlotInv, FewWaiters,
                      \A t \in FreeTargets : HasRoom(tgtOut[t], SlotBuffer)
               PROVE  NeverBlocks
    OBVIOUS
  <2>1. /\ LoopTypeOK /\ ChannelsTypeOK /\ \A s \in Sources : Books(s)
        /\ refusal = <<refusal[1], refusal[2]>>
    BY DEF TypeOK, BrokerTypeOK, SlotInv, LoopTypeOK
  <2>2. refusal[1] = "queue" => HasRoom(freeSourceSlots, NumSources)
    <3> SUFFICES ASSUME refusal[1] = "queue" PROVE HasRoom(freeSourceSlots, NumSources)
      OBVIOUS
    <3>1. refusal[2] \in Sources
      BY <2>1 DEF LoopTypeOK
    <3>2. Requeueing(refusal[2])
      BY <2>1 DEF Requeueing
    <3> QED
      BY <2>1, <3>1, <3>2, RoomForOne DEF Books, Placed
  <2>3. refusal[1] = "reply" => HasRoom(srcOut[refusal[2]], SlotBuffer)
    BY <2>1, RoomForReply DEF LoopTypeOK, Owed
  <2>4. In("sources") /\ srcIn[at] # <<>> /\ Head(srcIn[at]).type = "Release" =>
            HasRoom(freeSourceSlots, NumSources)
    <3> SUFFICES ASSUME In("sources"), srcIn[at] # <<>>, Head(srcIn[at]).type = "Release"
                 PROVE  HasRoom(freeSourceSlots, NumSources)
      OBVIOUS
    <3>1. at \in Sources /\ srcIn[at] \in Seq(Request)
      BY <2>1, AtFacts DEF ChannelsTypeOK
    <3>2. Head(srcIn[at]) \in Request
      BY <3>1
    <3>3. Releases(at) \in Nat \ {0}
      BY <3>1, <3>2, RequestKinds, CountHead DEF Releases
    <3>4. Queued(at) = 0
      BY <2>1, <3>1, <3>3 DEF Books, Placed, Served
    <3> QED
      BY <3>1, <3>4, RoomForOne
  <2>5. In("link") /\ ToLink # {} => HasRoom(srcOut[at], SlotBuffer)
    <3>1. In("link") /\ ToLink # {} => at \in Sources /\ srcState[at] = "Wait"
      BY <2>1, AtFacts DEF SlotInv, LinkedOnce, ToLink, In
    <3> QED
      BY <3>1, RoomForReply
  <2> QED
    BY <2>2, <2>3, <2>4, <2>5 DEF NeverBlocks
<1> QED
    BY <1>1, SlotInvariant, RoomToStart, TypeCorrect, PTL

\* The same, in terms of the constants alone.
COROLLARY BrokerNeverBlocksFor ==
    /\ Roomy /\ (NumTargets = 1 \/ YTypes = SlotTypes)
    /\ IsFiniteSet(Conns) /\ Cardinality(Conns) <= SlotBuffer
    => (Spec => []NeverBlocks)
<1> SUFFICES ASSUME Roomy, NumTargets = 1 \/ YTypes = SlotTypes,
                    IsFiniteSet(Conns), Cardinality(Conns) <= SlotBuffer
             PROVE  Spec => []NeverBlocks
    OBVIOUS
<1>1. FewWaiters
    BY FewWaitersFor
<1> QED
    BY <1>1, NoTwinsFor, BrokerNeverBlocks, PTL
=============================================================================
