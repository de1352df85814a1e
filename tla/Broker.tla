-------------------------------- MODULE Broker --------------------------------
(***************************************************************************)
(* Broker.Run (broker.go): one goroutine that loops over its slots for     *)
(* ever.  An iteration reads at most one message of every source slot and  *)
(* one of every target slot, links waiting sources to free targets, starts *)
(* containers for the sources still waiting, frees the targets that are no *)
(* longer used, and sleeps.                                                *)
(*                                                                         *)
(* The slots' fields are private to this goroutine, so a step of it ends   *)
(* where the next operation on a channel begins: these are what the other  *)
(* goroutines can see and where the broker can block.                      *)
(***************************************************************************)
EXTENDS Slots

CONSTANTS
    ReleaseTimeout,  \* in units of time: how long a target may stay in Run
    CopyAge,         \* 4 * LoopSleep / 1000, in the same units
    Elapse           \* the units one iteration may take

ASSUME BrokerAssumption ==
    /\ ReleaseTimeout \in Nat \ {0}
    /\ CopyAge \in Nat
    /\ Elapse \subseteq Nat

VARIABLES
    phase,           \* the loop of Run the broker is in
    at,              \* the slot that loop has reached
    inner,           \* the slot the nested loop has done last, Nil outside it
    refusal,         \* the source slot the broker still has to refuse
    srcState,        \* sourceSlots[s].state
    srcJob,          \* sourceSlots[s].runInfo, and slotType, which it determines
    srcAge,          \* now - sourceSlots[s].since
    srcOpposite,     \* sourceSlots[s].oppositeSlot
    tgtState,        \* targetSlots[t].state
    tgtType,         \* targetSlots[t].slotType
    tgtAge,          \* now - targetSlots[t].since
    tgtRef           \* targetSlots[t].refInfo, the address of the container

loopVars == <<phase, at, inner, refusal>>
srcVars == <<srcState, srcJob, srcAge, srcOpposite>>
tgtVars == <<tgtState, tgtType, tgtAge, tgtRef>>
brokerVars == <<loopVars, srcVars, tgtVars>>

Phases == {"sources", "targets", "refuse", "link", "start", "copy", "sweep", "sleep"}

-----------------------------------------------------------------------------
(***************************************************************************)
(* Time.  The code stores the second a slot entered its state, "since",    *)
(* and compares it with "now", read once an iteration.  Only differences   *)
(* matter, so the model keeps ages, up to AgeCap: all ages beyond both     *)
(* thresholds are one.  The literal values the code stores in since (0 at  *)
(* the start, 3, 5, 7) are older than every time of day, 0 the oldest.     *)
(***************************************************************************)
AgeCap == (IF ReleaseTimeout > CopyAge THEN ReleaseTimeout ELSE CopyAge) + 1
Since7 == AgeCap + 1
Since5 == AgeCap + 2
Since3 == AgeCap + 3
Since0 == AgeCap + 4
Ages == 0..Since0

Older(age, d) ==
    IF age >= AgeCap THEN age ELSE IF age + d > AgeCap THEN AgeCap ELSE age + d

\* The slots of S that a scan for the least since, first index first, may end
\* with: the ages at the cap stand for different times, in any order.
Oldest(S, age) ==
    {s \in S : \A r \in S : \/ age[r] < age[s]
                            \/ age[r] = age[s] /\ (s <= r \/ age[s] = AgeCap)}

First(S) == {s \in S : \A r \in S : s <= r}

-----------------------------------------------------------------------------
SrcType(s) == SlotTypeOf(srcJob[s])

\* The source slots with an unserved request: a container is being started for
\* a waiting slot that has an opposite.
Unserved == {s \in Sources : srcState[s] = "Wait" /\ srcOpposite[s] = Nil}

WaitingFor(type) == {s \in Sources : srcState[s] = "Wait" /\ SrcType(s) = type}

\* Mutant: the scan for the oldest target forgets to test its state.
FreeTargetsAny == Targets

\* Mutant: a container is ordered of a target that is still starting one.
FreeTargetsStarting == {t \in Targets : tgtState[t] # "Run"}

FreeTargets == {t \in Targets : tgtState[t] = "Free"}

\* Mutant: the y-type condition in both branches of the linking loop.
MatchesRunning(s) ==
    {t \in Targets : tgtType[t] = SrcType(s) /\ tgtState[t] \in {"Free", "Run"}}

\* The targets the linking loop joins source slot s to.
Matches(s) ==
    {t \in Targets :
        /\ tgtType[t] = SrcType(s)
        /\ tgtState[t] \in IF YType(SrcType(s)) THEN {"Free", "Run"} ELSE {"Free"}}

\* waitOnlySlotTypes: the types with unserved requests and no target at all.
WaitOnlyTypes ==
    {type \in SlotTypes :
        /\ Unserved \cap WaitingFor(type) # {}
        /\ \A t \in Targets : tgtType[t] # type}

\* mostRequestedSlotType: the code walks a map, whose order is random.
MostRequested ==
    {type \in WaitOnlyTypes : \A other \in WaitOnlyTypes :
        Cardinality(Unserved \cap WaitingFor(other))
            <= Cardinality(Unserved \cap WaitingFor(type))}

-----------------------------------------------------------------------------
BrokerInit ==
    /\ phase = "sources" /\ at = 1 /\ inner = Nil
    /\ refusal = <<"none", Nil>>
    /\ srcState = [s \in Sources |-> "Free"]
    /\ srcJob = [s \in Sources |-> NoJob]
    /\ srcAge = [s \in Sources |-> Since0]
    /\ srcOpposite = [s \in Sources |-> Nil]
    /\ tgtState = [t \in Targets |-> "Free"]
    /\ tgtType = [t \in Targets |-> NoType]
    /\ tgtAge = [t \in Targets |-> Since0]
    /\ tgtRef = [t \in Targets |-> Nil]

\* The broker is in loop p and has no channel operation left to do.
In(p) == phase = p /\ refusal[1] = "none"

\* Mutant: the loop over n slots runs once more.
AdvancePast(n, next) ==
    /\ IF at <= n THEN at' = at + 1 /\ phase' = phase
                  ELSE at' = 1 /\ phase' = next
    /\ inner' = Nil

\* The loop goes on with the next of its n slots, or to the next loop.
Advance(n, next) ==
    /\ IF at < n THEN at' = at + 1 /\ phase' = phase
                 ELSE at' = 1 /\ phase' = next
    /\ inner' = Nil

Goto(p) == phase' = p /\ at' = 1 /\ inner' = Nil

\* Two operations in a row: the slot goes back to the queue of free slots, then
\* the error is sent to it.  A client may take the slot between the two.
Refuse(s) == refusal' = <<"queue", s>>

QueueRefused ==
    /\ refusal[1] = "queue"
    /\ HasRoom(freeSourceSlots, NumSources)
    /\ freeSourceSlots' = Append(freeSourceSlots, refusal[2])
    /\ refusal' = <<"reply", refusal[2]>>
    /\ UNCHANGED <<phase, at, inner, srcVars, tgtVars, srcIn, srcOut, tgtIn, tgtOut>>

SendRefusal ==
    /\ refusal[1] = "reply"
    /\ HasRoom(srcOut[refusal[2]], SlotBuffer)
    /\ srcOut' = [srcOut EXCEPT ![refusal[2]] = Append(@, Refused)]
    /\ refusal' = <<"none", Nil>>
    /\ UNCHANGED <<phase, at, inner, srcVars, tgtVars, freeSourceSlots, srcIn, tgtIn, tgtOut>>

-----------------------------------------------------------------------------
(* The first loop: one message of every source slot. *)

SkipSource ==
    /\ In("sources") /\ srcIn[at] = <<>>
    /\ Advance(NumSources, "targets")
    /\ UNCHANGED <<refusal, srcVars, tgtVars, channels>>

\* Mutant: without the yType test, the first y-type client that leaves frees the
\* target the others still use.
FreesTargetAlways == srcState[at] = "Run"

\* The source runs, and the target it runs on serves nobody else.
FreesTarget == srcState[at] = "Run" /\ ~YType(SrcType(at))

\* The target is freed only when a source that still runs an x-type job lets go.
HandleRelease ==
    /\ In("sources") /\ srcIn[at] # <<>> /\ Head(srcIn[at]).type = "Release"
    /\ HasRoom(freeSourceSlots, NumSources)
    /\ IF FreesTarget
       THEN LET t == srcOpposite[at]
                kill == Head(srcIn[at]).kill
            IN /\ tgtState' = [tgtState EXCEPT ![t] = "Free"]
               /\ tgtType' = [tgtType EXCEPT ![t] = IF kill THEN NoType ELSE @]
               /\ tgtAge' = [tgtAge EXCEPT ![t] = IF kill THEN Since3 ELSE 0]
               /\ UNCHANGED tgtRef
       ELSE UNCHANGED tgtVars
    /\ srcState' = [srcState EXCEPT ![at] = "Free"]
    /\ freeSourceSlots' = Append(freeSourceSlots, at)
    /\ srcIn' = [srcIn EXCEPT ![at] = Tail(@)]
    /\ Advance(NumSources, "targets")
    /\ UNCHANGED <<refusal, srcJob, srcAge, srcOpposite, srcOut, tgtIn, tgtOut>>

HandleAcquire ==
    /\ In("sources") /\ srcIn[at] # <<>> /\ Head(srcIn[at]).type = "Acquire"
    /\ srcJob' = [srcJob EXCEPT ![at] = Head(srcIn[at]).job]
    /\ srcAge' = [srcAge EXCEPT ![at] = 0]
    /\ srcState' = [srcState EXCEPT ![at] = "Wait"]
    /\ srcOpposite' = [srcOpposite EXCEPT ![at] = Nil]
    /\ srcIn' = [srcIn EXCEPT ![at] = Tail(@)]
    /\ Advance(NumSources, "targets")
    /\ UNCHANGED <<refusal, tgtVars, freeSourceSlots, srcOut, tgtIn, tgtOut>>

-----------------------------------------------------------------------------
(* The second loop: one message of every target slot. *)

SkipTarget ==
    /\ In("targets") /\ tgtIn[at] = <<>>
    /\ Advance(NumTargets, "link")
    /\ UNCHANGED <<refusal, srcVars, tgtVars, channels>>

HandleStarted ==
    /\ In("targets") /\ tgtIn[at] # <<>> /\ Head(tgtIn[at]).type = "Started"
    /\ tgtState' = [tgtState EXCEPT ![at] = "Free"]
    /\ tgtAge' = [tgtAge EXCEPT ![at] = 0]
    /\ tgtIn' = [tgtIn EXCEPT ![at] = Tail(@)]
    /\ Advance(NumTargets, "link")
    /\ UNCHANGED <<refusal, srcVars, tgtType, tgtRef, freeSourceSlots, srcIn, srcOut, tgtOut>>

\* Mutant: the address of the runner is not stored.
HandleFreeForgets ==
    /\ In("targets") /\ tgtIn[at] # <<>> /\ Head(tgtIn[at]).type = "Free"
    /\ tgtState' = [tgtState EXCEPT ![at] = "Free"]
    /\ tgtType' = [tgtType EXCEPT ![at] = NoType]
    /\ tgtAge' = [tgtAge EXCEPT ![at] = 0]
    /\ tgtIn' = [tgtIn EXCEPT ![at] = Tail(@)]
    /\ Advance(NumTargets, "link")
    /\ UNCHANGED <<refusal, srcVars, tgtRef, freeSourceSlots, srcIn, srcOut, tgtOut>>

HandleFree ==
    /\ In("targets") /\ tgtIn[at] # <<>> /\ Head(tgtIn[at]).type = "Free"
    /\ tgtState' = [tgtState EXCEPT ![at] = "Free"]
    /\ tgtType' = [tgtType EXCEPT ![at] = NoType]
    /\ tgtRef' = [tgtRef EXCEPT ![at] = Head(tgtIn[at]).address]
    /\ tgtAge' = [tgtAge EXCEPT ![at] = 0]
    /\ tgtIn' = [tgtIn EXCEPT ![at] = Tail(@)]
    /\ Advance(NumTargets, "link")
    /\ UNCHANGED <<refusal, srcVars, freeSourceSlots, srcIn, srcOut, tgtOut>>

\* An error is for every request that waits for this slot type.
HandleError ==
    /\ In("targets") /\ tgtIn[at] # <<>> /\ Head(tgtIn[at]).type = "Error"
    /\ tgtIn' = [tgtIn EXCEPT ![at] = Tail(@)]
    /\ phase' = "refuse"
    /\ UNCHANGED <<at, inner, refusal, srcVars, tgtVars, freeSourceSlots, srcIn, srcOut, tgtOut>>

\* Mutant: the error is sent to every slot of the type, waiting or not.
ToRefuseAll == {s \in Sources : SrcType(s) = tgtType[at] /\ s > inner}

\* Mutant: the failure is not passed on to those who wait.
ToRefuseNone == {}

ToRefuse == {s \in WaitingFor(tgtType[at]) : s > inner}

\* Mutant: the refused slot keeps the state Wait.
RefuseStillWaiting ==
    /\ In("refuse")
    /\ \E s \in First(ToRefuse) : Refuse(s) /\ inner' = s
    /\ UNCHANGED <<phase, at, srcVars, tgtVars, channels>>

RefuseWaiting ==
    /\ In("refuse")
    /\ \E s \in First(ToRefuse) :
        /\ srcState' = [srcState EXCEPT ![s] = "Free"]
        /\ Refuse(s)
        /\ inner' = s
    /\ UNCHANGED <<phase, at, srcJob, srcAge, srcOpposite, tgtVars, channels>>

\* Mutant: the failed target keeps the slot type it could not start.
ClearFailedKeepsType ==
    /\ In("refuse") /\ ToRefuse = {}
    /\ tgtState' = [tgtState EXCEPT ![at] = "Free"]
    /\ tgtAge' = [tgtAge EXCEPT ![at] = Since5]
    /\ IF at < NumTargets THEN phase' = "targets" /\ at' = at + 1
                          ELSE phase' = "link" /\ at' = 1
    /\ inner' = Nil
    /\ UNCHANGED <<refusal, srcVars, tgtType, tgtRef, channels>>

ClearFailed ==
    /\ In("refuse") /\ ToRefuse = {}
    /\ tgtState' = [tgtState EXCEPT ![at] = "Free"]
    /\ tgtType' = [tgtType EXCEPT ![at] = NoType]
    /\ tgtAge' = [tgtAge EXCEPT ![at] = Since5]
    /\ IF at < NumTargets THEN phase' = "targets" /\ at' = at + 1
                          ELSE phase' = "link" /\ at' = 1
    /\ inner' = Nil
    /\ UNCHANGED <<refusal, srcVars, tgtRef, channels>>

-----------------------------------------------------------------------------
(* The third loop: link waiting sources to targets of their type. *)

\* The nested loop over the targets neither stops at a match nor looks at the
\* source's state again: it links the source to every match it finds.
ToLink == IF srcState[at] = "Wait" \/ inner # Nil THEN {t \in Matches(at) : t > inner} ELSE {}

Link ==
    /\ In("link")
    /\ \E t \in First(ToLink) :
        /\ HasRoom(srcOut[at], SlotBuffer)
        /\ tgtState' = [tgtState EXCEPT ![t] = "Run"]
        /\ tgtAge' = [tgtAge EXCEPT ![t] = 0]
        /\ srcOpposite' = [srcOpposite EXCEPT ![at] = t]
        /\ srcState' = [srcState EXCEPT ![at] = "Run"]
        /\ srcAge' = [srcAge EXCEPT ![at] = 0]
        /\ srcOut' = [srcOut EXCEPT ![at] = Append(@, Acquired(tgtRef[t]))]
        /\ inner' = t
    /\ UNCHANGED <<phase, at, refusal, srcJob, tgtType, tgtRef, freeSourceSlots, srcIn, tgtIn, tgtOut>>

LinkNext ==
    /\ In("link") /\ ToLink = {}
    /\ Advance(NumSources, "start")
    /\ UNCHANGED <<refusal, srcVars, tgtVars, channels>>

-----------------------------------------------------------------------------
(* The next two loops: start containers for the requests still unserved. *)

\* Target t starts a container for source s.  Port 3 asks for a worker: nobody
\* connects to it, so the request is refused as soon as the start is ordered.
StartFor(t, s) ==
    /\ HasRoom(tgtOut[t], SlotBuffer)
    /\ tgtState' = [tgtState EXCEPT ![t] = "Starting"]
    /\ tgtType' = [tgtType EXCEPT ![t] = SrcType(s)]
    /\ tgtAge' = [tgtAge EXCEPT ![t] = 0]
    /\ srcOpposite' = [srcOpposite EXCEPT ![s] = t]
    /\ tgtOut' = [tgtOut EXCEPT ![t] = Append(@, Start(srcJob[s]))]
    /\ IF srcJob[s] \in WorkerJobs
       THEN srcState' = [srcState EXCEPT ![s] = "Free"] /\ Refuse(s)
       ELSE UNCHANGED <<srcState, refusal>>
    /\ UNCHANGED <<srcJob, srcAge, tgtRef, freeSourceSlots, srcIn, srcOut, tgtIn>>

\* The oldest free target goes to the most requested type no target has.
StartContainer ==
    /\ In("start")
    /\ \E t \in Oldest(FreeTargets, tgtAge), type \in MostRequested :
        \E s \in First(WaitingFor(type)) : StartFor(t, s)
    /\ UNCHANGED <<phase, at, inner>>

StartNone ==
    /\ In("start") /\ (WaitOnlyTypes = {} \/ FreeTargets = {})
    /\ Goto("copy")
    /\ UNCHANGED <<refusal, srcVars, tgtVars, channels>>

\* Mutant: copies are started of y-type containers as well.
OldestUnservedAny == {s \in Oldest(Unserved, srcAge) : srcAge[s] > CopyAge}

\* The request that has waited long enough to be given another copy of a container.
OldestUnserved == {s \in Oldest({r \in Unserved : ~YType(SrcType(r))}, srcAge) : srcAge[s] > CopyAge}

\* The targets idle long enough to become a copy of another container.
OldestFree == {t \in Oldest(FreeTargets, tgtAge) : tgtAge[t] > CopyAge}

StartCopy ==
    /\ In("copy")
    /\ \E t \in OldestFree, s \in OldestUnserved : StartFor(t, s)
    /\ UNCHANGED <<phase, at, inner>>

CopyNone ==
    /\ In("copy") /\ (OldestUnserved = {} \/ OldestFree = {})
    /\ Goto("sweep")
    /\ UNCHANGED <<refusal, srcVars, tgtVars, channels>>

-----------------------------------------------------------------------------
(* The last two loops, and the sleep that ends an iteration. *)

\* Mutant: a y-type target is freed while sources still run on it.
UnusedAlways(t) == YType(tgtType[t]) /\ tgtState[t] = "Run"

Unused(t) ==
    /\ YType(tgtType[t]) /\ tgtState[t] = "Run"
    /\ ~ \E s \in Sources : srcState[s] = "Run" /\ SrcType(s) = tgtType[t]

\* Mutant: the condition the code has commented out, a start that takes too long.
OverdueStarting(t) ==
    tgtState[t] \in {"Run", "Starting"} /\ ~Unused(t) /\ tgtAge[t] > ReleaseTimeout

Overdue(t) == tgtState[t] = "Run" /\ ~Unused(t) /\ tgtAge[t] > ReleaseTimeout

\* Y-type containers nobody uses become free; a target too long in Run is taken
\* from the source that runs on it, which is not told.
Sweep ==
    /\ In("sweep")
    /\ tgtState' = [t \in Targets |-> IF Unused(t) \/ Overdue(t) THEN "Free" ELSE tgtState[t]]
    /\ tgtType' = [t \in Targets |-> IF Overdue(t) THEN NoType ELSE tgtType[t]]
    /\ tgtAge' = [t \in Targets |->
                    IF Unused(t) THEN 0 ELSE IF Overdue(t) THEN Since7 ELSE tgtAge[t]]
    /\ Goto("sleep")
    /\ UNCHANGED <<refusal, srcVars, tgtRef, channels>>

\* A target some source runs on.
InUse(t) == \E s \in Sources : srcState[s] = "Run" /\ srcOpposite[s] = t

\* The next iteration reads the clock d units later.  Of the sources, since is
\* read only of those that wait.
Sleep(d) ==
    /\ In("sleep")
    /\ "LongJobs" \in Env
       \/ \A t \in Targets : tgtState[t] = "Run" /\ InUse(t) => tgtAge[t] + d <= ReleaseTimeout
    /\ srcAge' = [s \in Sources |->
                    IF srcState[s] = "Wait" THEN Older(srcAge[s], d) ELSE srcAge[s]]
    /\ tgtAge' = [t \in Targets |-> Older(tgtAge[t], d)]
    /\ Goto("sources")
    /\ UNCHANGED <<refusal, srcState, srcJob, srcOpposite, tgtState, tgtType, tgtRef, channels>>

Run ==
    \/ QueueRefused \/ SendRefusal
    \/ SkipSource \/ HandleRelease \/ HandleAcquire
    \/ SkipTarget \/ HandleStarted \/ HandleFree \/ HandleError \/ RefuseWaiting \/ ClearFailed
    \/ Link \/ LinkNext
    \/ StartContainer \/ StartNone \/ StartCopy \/ CopyNone
    \/ Sweep \/ (\E d \in Elapse : Sleep(d))

-----------------------------------------------------------------------------
LoopTypeOK ==
    /\ phase \in Phases
    /\ at \in Nat \ {0} /\ at <= (IF phase \in {"targets", "refuse"} THEN NumTargets ELSE NumSources)
    /\ inner \in Nat
    /\ refusal \in {"none", "queue", "reply"} \X (Sources \cup {Nil})
    /\ refusal[1] # "none" => refusal[2] \in Sources

SrcTypeOK ==
    /\ srcState \in [Sources -> {"Free", "Wait", "Run"}]
    /\ srcJob \in [Sources -> Jobs \cup {NoJob}]
    /\ srcAge \in [Sources -> Ages]
    /\ srcOpposite \in [Sources -> Targets \cup {Nil}]
    /\ \A s \in Sources : srcState[s] = "Wait" => srcJob[s] \in Jobs

TgtTypeOK ==
    /\ tgtState \in [Targets -> {"Free", "Starting", "Run"}]
    /\ tgtType \in [Targets -> SlotTypes \cup {NoType}]
    /\ tgtAge \in [Targets -> Ages]
    /\ tgtRef \in [Targets -> Targets \cup {Nil}]

BrokerTypeOK == LoopTypeOK /\ SrcTypeOK /\ TgtTypeOK
=============================================================================
