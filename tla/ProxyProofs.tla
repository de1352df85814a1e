----------------------------- MODULE ProxyProofs -----------------------------
(***************************************************************************)
(* One connection, whatever its two ends and the scheduler do, and however *)
(* much they send: types, the parsers that agree, what is written after    *)
(* the close, and the slot that is given back once.                        *)
(***************************************************************************)
EXTENDS ProxyConnection, TLAPS

\* The first target is that of some resolver.
LEMMA SomeAnswer ==
  ASSUME NEW q, NEW granted, NEW hasRoot, Resolve(q, granted, hasRoot) # "none"
  PROVE  /\ Resolve(q, granted, hasRoot) \in
              {DockerResolver(q), HostResolver(q), BrokerResolver(q, granted),
               MonitorResolver(q), RootResolver(q, hasRoot)}
         /\ IsTarget(Resolve(q, granted, hasRoot))
<1> DEFINE answers == Chain(q, granted, hasRoot)
           found == {i \in DOMAIN answers : IsTarget(answers[i])}
<1>1. DOMAIN answers = 1..5 /\ \A i \in 1..5 : answers[i] \in
              {DockerResolver(q), HostResolver(q), BrokerResolver(q, granted),
               MonitorResolver(q), RootResolver(q, hasRoot)}
    BY DEF Chain
<1> HIDE DEF answers
<1>2. found # {}
    BY DEF Resolve, answers
<1>3. \E i \in found : \A j \in found : i <= j
    <2>1. found \subseteq 1..5
        BY <1>1
    <2> HIDE DEF found
    <2> SUFFICES ASSUME \A i \in found : \E j \in found : j < i
                 PROVE  FALSE
        BY <2>1
    <2>2. 1 \notin found
        BY <2>1
    <2>3. 2 \notin found
        BY <2>1, <2>2
    <2>4. 3 \notin found
        BY <2>1, <2>2, <2>3
    <2>5. 4 \notin found
        BY <2>1, <2>2, <2>3, <2>4
    <2>6. 5 \notin found
        BY <2>1, <2>2, <2>3, <2>4, <2>5
    <2>7. PICK i \in found : TRUE
        BY <1>2, Zenon
    <2>8. i \in 1..5
        BY <2>1
    <2> QED BY <2>2, <2>3, <2>4, <2>5, <2>6, <2>7, <2>8
<1>4. \E i \in found : Resolve(q, granted, hasRoot) = answers[i]
    BY <1>2, <1>3 DEF Resolve, answers
<1> QED
    BY <1>1, <1>4

\* The parser of the resolver that has found the target, and that of the target's
\* wrapper, agree on every request.
LEMMA ParsersAgree ==
  ASSUME NEW q \in Requests, NEW granted \in BOOLEAN, NEW hasRoot \in BOOLEAN,
         Resolve(q, granted, hasRoot) # "none"
  PROVE  LET t == Resolve(q, granted, hasRoot)
         IN t \in Targets /\ (t \in Wrapped => Rewrites(t, q))
<1> DEFINE t == Resolve(q, granted, hasRoot)
<1>1. q.path \in Paths /\ q.referer \in {"none", "page", "job", "badjob", "badenv"}
    BY DEF Requests, Paths
<1>2. IsTarget(t)
    BY SomeAnswer
<1>3. CASE t = DockerResolver(q)
    BY <1>2, <1>3 DEF DockerResolver, IsTarget, Targets, Wrapped, Rewrites
<1>4. CASE t = HostResolver(q)
    BY <1>2, <1>4 DEF HostResolver, IsTarget, Targets, Wrapped, Rewrites
<1>5. CASE t = BrokerResolver(q, granted)
    BY <1>1, <1>2, <1>5
       DEF BrokerResolver, AsksBroker, JobPath, IsTarget, Targets, Wrapped, Rewrites
<1>6. CASE t = MonitorResolver(q)
    BY <1>2, <1>6 DEF MonitorResolver, IsTarget, Targets, Wrapped
<1>7. CASE t = RootResolver(q, hasRoot)
    BY <1>2, <1>7 DEF RootResolver, IsTarget, Targets, Wrapped, Rewrites
<1> QED
    BY <1>3, <1>4, <1>5, <1>6, <1>7, SomeAnswer

-----------------------------------------------------------------------------
(* The inductive invariant. *)

\* Until the connection has a target only the forward goroutine runs, and nothing
\* has come from a target.
BeforeTarget ==
    /\ pc["forward"] \in {"head", "resolve", "dial"} =>
         pc["start"] = "wait" /\ pc["back"] = "none" /\ targetConn = "none"
    /\ pc["forward"] \in {"head", "resolve"} => resolved = "none"
    /\ pc["forward"] \in {"read", "write"} => resolved # "none" /\ targetConn # "none"
    /\ targetConn = "none" => outbox = 0 /\ sent["target"] = 0 /\ pc["back"] \in {"none", "done"}

\* A buffered request is one that the wrapper of its target can rewrite.
HeadFits ==
    pc["forward"] = "dial" =>
        \E q \in Requests : head = <<q>> /\ (resolved \in Wrapped => Rewrites(resolved, q))

\* Release is sent by Start, after the signal and for a slot.
ReleasedByStart ==
    /\ pc["start"] \in {"wait", "release"} => releases = 0
    /\ resolved # "slot" => releases = 0
    /\ pc["start"] \in {"close", "done"} /\ resolved = "slot" /\ ~crashed => releases = 1

\* When Start is done nothing is read from the client any more.
AfterStart ==
    /\ pc["start"] # "done" => afterClose = 0
    /\ pc["start"] = "done" => proxyOpen = FALSE /\ afterClose <= 1 /\ (pc["forward"] = "write" => afterClose = 0)

\* Nothing is in a buffer that was not sent, the monitor's response and echo apart.
Sent ==
    /\ inbox <= sent["client"]
    /\ resolved # "monitor" => outbox <= sent["target"]
    /\ resolved = "monitor" =>
         /\ sent["target"] = 0
         /\ outbox + inbox <= sent["client"] + (IF pc["forward"] = "write" THEN 1 ELSE 2)

\* When the program has ended none of its goroutines takes another step.
Ended == crashed => pc["start"] = "done" /\ pc["forward"] = "done" /\ pc["back"] = "done"

Inv == TypeOK /\ BeforeTarget /\ HeadFits /\ ReleasedByStart /\ AfterStart /\ Sent /\ Ended

\* The invariant holds when the connection is accepted.
LEMMA InitInv == Init => Inv
<1>1. <<>> \in Seq(Requests)
    OBVIOUS
<1>2. Init => TypeOK
    <2> SUFFICES ASSUME Init PROVE TypeOK
        OBVIOUS
    <2>1. pc \in [{"start"} \cup Copiers -> Labels]
        BY DEF Init, Copiers, Labels
    <2>2. sent \in [{"client", "target"} -> 0..MaxChunks]
        BY ProxyAssumption DEF Init
    <2>3. head \in Seq(Requests) /\ pc["forward"] # "dial"
        BY <1>1 DEF Init
    <2>4. resolved \in Targets \cup {"none"} /\ targetConn \in {"none", "open", "closed"}
        BY DEF Init
    <2>5. releases \in 0..1 /\ inbox \in 0..MaxChunks /\ outbox \in 0..MaxChunks + 2 /\ afterClose \in 0..MaxChunks
        BY ProxyAssumption DEF Init
    <2> QED BY <2>1, <2>2, <2>3, <2>4, <2>5 DEF Init, TypeOK
<1>3. Init => BeforeTarget /\ HeadFits /\ ReleasedByStart /\ AfterStart /\ Sent /\ Ended
    BY DEF Init, BeforeTarget, HeadFits, ReleasedByStart, AfterStart, Sent, Ended
<1> QED
    BY <1>2, <1>3 DEF Inv

\* The failure of a pipe.
LEMMA ErrStep ==
  ASSUME Inv, NEW g \in Copiers, Err(g)
  PROVE  Inv'
<1> USE DEF Copiers
<1>1. CASE CheckErred(g)
    BY <1>1
       DEF Inv, TypeOK, Labels, BeforeTarget, HeadFits, ReleasedByStart, AfterStart, Sent, Ended,
                CheckErred, Goto, target, ends
<1>2. CASE Signal(g)
    BY <1>2
       DEF Inv, TypeOK, Labels, BeforeTarget, HeadFits, ReleasedByStart, AfterStart, Sent, Ended,
                Signal, target, ends
<1>3. CASE MarkErred(g)
    BY <1>3
       DEF Inv, TypeOK, Labels, BeforeTarget, HeadFits, ReleasedByStart, AfterStart, Sent, Ended,
                MarkErred, Goto, target, ends
<1>4. CASE Return(g)
    BY <1>4
       DEF Inv, TypeOK, Labels, BeforeTarget, HeadFits, ReleasedByStart, AfterStart, Sent, Ended,
                Return, Goto, target, ends
<1> QED
    BY <1>1, <1>2, <1>3, <1>4 DEF Err

\* The target is found and dialled.
LEMMA TargetStep ==
  ASSUME Inv, ReadHead \/ ResolveTarget \/ Dial \/ DialMonitor
  PROVE  Inv'
<1> USE DEF Copiers
<1>1. CASE ReadHead
    BY <1>1, ProxyAssumption
       DEF Inv, TypeOK, Labels, BeforeTarget, HeadFits, ReleasedByStart, AfterStart, Sent, Ended,
                ReadHead, Goto, ReadFails, target, ends
<1>2. CASE ResolveTarget
    <2>1. CASE UNCHANGED <<resolved, head>>
        BY <1>2, <2>1, ProxyAssumption
           DEF Inv, TypeOK, Labels, BeforeTarget, HeadFits, ReleasedByStart, AfterStart, Sent,
               Ended,
                          ResolveTarget, Goto, ends
    <2>2. ASSUME NEW q \in Requests, NEW granted \in BOOLEAN, NEW hasRoot \in BOOLEAN,
                 resolved' = Resolve(q, granted, hasRoot),
                 IF resolved' = "none"
                 THEN Goto("forward", "check") /\ UNCHANGED head
                 ELSE Goto("forward", "dial") /\ head' = <<q>>
          PROVE  Inv'
        <3>1. resolved' # "none" => resolved' \in Targets /\ (resolved' \in Wrapped => Rewrites(resolved', q))
            BY <2>2, ParsersAgree
        <3>2. /\ pc["forward"] = "resolve" /\ pc["start"] = "wait" /\ pc["back"] = "none"
              /\ resolved = "none" /\ outbox = 0 /\ sent["target"] = 0 /\ targetConn = "none"
              /\ releases = 0 /\ afterClose = 0 /\ inbox <= sent["client"]
            BY <1>2 DEF Inv, BeforeTarget, ReleasedByStart, AfterStart, Sent, Ended, ResolveTarget
        <3>3. UNCHANGED <<erred, crashed, releases, afterClose, proxyOpen, targetConn, inbox, outbox, ends>>
            BY <1>2 DEF ResolveTarget
        <3>4. head' \in Seq(Requests) /\ (resolved' # "none" => head' # <<>>)
            <4>1. <<q>> \in Seq(Requests) /\ <<q>> # <<>>
                OBVIOUS
            <4> QED BY <2>2, <4>1, Zenon DEF Inv, TypeOK
        <3>5. TypeOK'
            BY <2>2, <3>1, <3>2, <3>3, <3>4, ProxyAssumption DEF Inv, TypeOK, Labels, Goto, ends
        <3>6. BeforeTarget' /\ ReleasedByStart' /\ AfterStart' /\ Sent' /\ Ended'
            BY <2>2, <3>2, <3>3, ProxyAssumption
               DEF Inv, TypeOK, BeforeTarget, ReleasedByStart, AfterStart, Sent, Ended, Goto, ends
        <3>7. HeadFits'
            BY <2>2, <3>1, <3>2 DEF Inv, TypeOK, HeadFits, Goto
        <3> QED BY <3>5, <3>6, <3>7 DEF Inv
    <2> QED BY <1>2, <2>1, <2>2 DEF ResolveTarget
<1>3. CASE Dial
    <2>1. <<>> \in Seq(Requests)
        OBVIOUS
    <2>2. TypeOK'
        BY <1>3, <2>1, ProxyAssumption DEF Inv, TypeOK, Labels, Dial, Goto, ends
    <2>3. BeforeTarget' /\ HeadFits' /\ ReleasedByStart' /\ AfterStart' /\ Sent' /\ Ended'
        BY <1>3, ProxyAssumption
           DEF Inv, TypeOK, BeforeTarget, HeadFits, ReleasedByStart, AfterStart, Sent, Ended,
               Dial, Goto, ends, Wrapped
    <2> QED BY <2>2, <2>3 DEF Inv
<1>4. CASE DialMonitor
    <2>1. <<>> \in Seq(Requests)
        OBVIOUS
    <2>2. TypeOK'
        BY <1>4, <2>1, ProxyAssumption DEF Inv, TypeOK, Labels, DialMonitor, ends
    <2>3. BeforeTarget' /\ HeadFits' /\ ReleasedByStart' /\ AfterStart' /\ Sent' /\ Ended'
        BY <1>4, ProxyAssumption
           DEF Inv, TypeOK, BeforeTarget, HeadFits, ReleasedByStart, AfterStart, Sent, Ended,
               DialMonitor, ends
    <2> QED BY <2>2, <2>3 DEF Inv
<1> QED
    BY <1>1, <1>2, <1>3, <1>4

\* A panic, wherever it comes.
LEMMA EndStep ==
  ASSUME Inv, ProgramEnds
  PROVE  Inv'
<1>1. proxyOpen' \in BOOLEAN /\ crashed' \in BOOLEAN
    BY Zenon DEF ProgramEnds
<1> QED
    BY <1>1, ProxyAssumption
    DEF Inv, TypeOK, Labels, BeforeTarget, HeadFits, ReleasedByStart, AfterStart, Sent, Ended,
        ProgramEnds, target, ends, Copiers

\* The two pipes.
LEMMA PipeStep ==
  ASSUME Inv, \/ ForwardReads \/ ForwardWrites \/ ForwardWritesMonitor
              \/ BackReads \/ BackReadsMonitor \/ BackWrites \/ BuffersCollide \/ Panics
  PROVE  Inv'
<1> USE DEF Copiers
<1>1. CASE ForwardReads
    <2>1. proxyOpen' \in BOOLEAN /\ (proxyOpen = FALSE => proxyOpen' = FALSE)
        BY <1>1, Zenon DEF Inv, TypeOK, ForwardReads
    <2>2. /\ pc["forward"] = "read" /\ UNCHANGED <<erred, crashed, target, releases, targetConn, outbox, ends>>
          /\ (inbox > 0 /\ inbox' = inbox - 1) \/ (inbox' = inbox /\ Goto("forward", "check"))
        BY <1>1 DEF ForwardReads
    <2>3. PICK label \in {"write", "check"} : Goto("forward", label)
        BY <1>1 DEF ForwardReads
    <2>4. proxyOpen = FALSE => label = "check"
        BY <1>1, <2>3 DEF ForwardReads, Goto, Inv, TypeOK
    <2>5. inbox' \in 0..MaxChunks
        BY <2>2, ProxyAssumption DEF Inv, TypeOK
    <2>6. TypeOK'
        BY <2>1, <2>2, <2>3, <2>5 DEF Inv, TypeOK, Labels, Goto, target, ends
    <2>7. BeforeTarget' /\ HeadFits' /\ ReleasedByStart' /\ Ended'
        BY <2>2, <2>3
           DEF Inv, TypeOK, BeforeTarget, HeadFits, ReleasedByStart, Ended, Goto, target, ends
    <2>8. Sent'
        BY <2>2, <2>3, ProxyAssumption DEF Inv, TypeOK, Sent, Goto, target, ends
    <2>9. AfterStart'
        BY <2>1, <2>2, <2>3, <2>4, ProxyAssumption DEF Inv, TypeOK, AfterStart, Goto, target
    <2> QED
        BY <2>6, <2>7, <2>8, <2>9 DEF Inv
<1>2. CASE ForwardWrites
    BY <1>2, ProxyAssumption
       DEF Inv, TypeOK, Labels, BeforeTarget, HeadFits, ReleasedByStart, AfterStart, Sent, Ended,
                ForwardWrites, Writes, Goto, ends, Wrapped
<1>3. CASE ForwardWritesMonitor
    BY <1>3, ProxyAssumption
       DEF Inv, TypeOK, Labels, BeforeTarget, HeadFits, ReleasedByStart, AfterStart, Sent, Ended,
                ForwardWritesMonitor, Writes, Goto, ends
<1>4. CASE BackReads
    BY <1>4, ProxyAssumption
       DEF Inv, TypeOK, Labels, BeforeTarget, HeadFits, ReleasedByStart, AfterStart, Sent, Ended,
                BackReads, Parsed, Goto, ReadFails, target, ends, Wrapped
<1>5. CASE BackReadsMonitor
    BY <1>5, ProxyAssumption
       DEF Inv, TypeOK, Labels, BeforeTarget, HeadFits, ReleasedByStart, AfterStart, Sent, Ended,
                BackReadsMonitor, Goto, target, ends
<1>6. CASE BackWrites
    BY <1>6, ProxyAssumption
       DEF Inv, TypeOK, Labels, BeforeTarget, HeadFits, ReleasedByStart, AfterStart, Sent, Ended,
                BackWrites, Writes, Goto, ends
<1>7. CASE BuffersCollide
    BY <1>7, EndStep DEF BuffersCollide
<1>8. CASE Panics
    BY <1>8, EndStep DEF Panics
<1> QED
    BY <1>1, <1>2, <1>3, <1>4, <1>5, <1>6, <1>7, <1>8

\* Start, and the two ends.
LEMMA OtherStep ==
  ASSUME Inv, Closed \/ CloseProxyConn \/ ClientSends \/ ClientCloses \/ TargetSends \/ TargetCloses
  PROVE  Inv'
<1> USE DEF Copiers
<1>1. CASE Closed
    BY <1>1, ProxyAssumption
       DEF Inv, TypeOK, Labels, BeforeTarget, HeadFits, ReleasedByStart, AfterStart, Sent, Ended,
                Closed, Goto, target, ends
<1>2. CASE CloseProxyConn
    <2>1. proxyOpen' \in BOOLEAN
        BY <1>2, Zenon DEF Inv, TypeOK, CloseProxyConn
    <2> QED
        BY <1>2, <2>1, ProxyAssumption
        DEF Inv, TypeOK, Labels, BeforeTarget, HeadFits, ReleasedByStart, AfterStart, Sent, Ended,
            CloseProxyConn, Goto, target, ends
<1>3. CASE ClientSends
    BY <1>3, ProxyAssumption
       DEF Inv, TypeOK, Labels, BeforeTarget, HeadFits, ReleasedByStart, AfterStart, Sent, Ended,
                ClientSends, target
<1>4. CASE ClientCloses
    <2>1. clientOpen' \in BOOLEAN
        BY <1>4, Zenon DEF Inv, TypeOK, ClientCloses
    <2> QED
        BY <1>4, <2>1, ProxyAssumption
        DEF Inv, TypeOK, Labels, BeforeTarget, HeadFits, ReleasedByStart, AfterStart, Sent, Ended,
            ClientCloses, target
<1>5. CASE TargetSends
    BY <1>5, ProxyAssumption
       DEF Inv, TypeOK, Labels, BeforeTarget, HeadFits, ReleasedByStart, AfterStart, Sent, Ended,
                TargetSends, target, Wrapped
<1>6. CASE TargetCloses
    <2>1. targetOpen' \in BOOLEAN
        BY <1>6, Zenon DEF Inv, TypeOK, TargetCloses
    <2> QED
        BY <1>6, <2>1, ProxyAssumption
        DEF Inv, TypeOK, Labels, BeforeTarget, HeadFits, ReleasedByStart, AfterStart, Sent, Ended,
            TargetCloses, target
<1> QED
    BY <1>1, <1>2, <1>3, <1>4, <1>5, <1>6

\* Every step of the three goroutines keeps it.
LEMMA Inductive == Inv /\ [Next]_vars => Inv'
<1> SUFFICES ASSUME Inv, [Next]_vars PROVE Inv'
    OBVIOUS
<1>1. CASE Next
    BY <1>1, TargetStep, PipeStep, OtherStep, ErrStep DEF Next, Forward, Back, Start, Copiers
<1>2. CASE UNCHANGED vars
    BY <1>2
       DEF vars, target, ends, Inv, TypeOK, BeforeTarget, HeadFits, ReleasedByStart, AfterStart,
           Sent, Ended
<1> QED
    BY <1>1, <1>2

-----------------------------------------------------------------------------
\* The variables keep their types: Release is sent at most once, and no buffer gets
\* more than was sent, but for the monitor's.
THEOREM ProxyTypeCorrect == Spec => []TypeOK
<1>1. Inv => TypeOK
    BY DEF Inv
<1> QED
    BY InitInv, Inductive, <1>1, PTL DEF Spec

\* However much the client sends, once its connection is closed at most one chunk more
\* is written to the container (proxy.go:119).  What is written between the Release
\* and the close is not bounded.
THEOREM AtMostOneAfterClose == Spec => []OneChunkAfterClose
<1>1. Inv => OneChunkAfterClose
    BY DEF Inv, TypeOK, AfterStart, OneChunkAfterClose
<1> QED
    BY InitInv, Inductive, <1>1, PTL DEF Spec

\* No connection is made to a target whose wrapper cannot rewrite the request.
THEOREM WrappersAgree == Spec => WrapperAgrees
<1>1. Inv /\ [Next]_vars
        => [targetConn = "none" /\ targetConn' = "open" => pc'["forward"] # "check"]_vars
    <2> SUFFICES ASSUME Inv, Next, targetConn = "none", targetConn' = "open"
                 PROVE  pc'["forward"] # "check"
        OBVIOUS
    <2>1. Dial \/ DialMonitor
        BY DEF Next, Forward, Back, Start, Err, CheckErred, Signal, MarkErred, Return, ReadHead,
               ResolveTarget, ForwardReads, ForwardWrites, ForwardWritesMonitor, Writes, BackReads,
               BackReadsMonitor, BackWrites, BuffersCollide, Panics, ProgramEnds, Closed,
               CloseProxyConn, ClientSends,
               ClientCloses, TargetSends, TargetCloses, target, ends
    <2>2. CASE Dial
        BY <2>2 DEF Inv, TypeOK, HeadFits, Dial, Goto, Copiers
    <2>3. CASE DialMonitor
        BY <2>3 DEF Inv, TypeOK, DialMonitor, Copiers
    <2> QED BY <2>1, <2>2, <2>3
<1> QED
    BY InitInv, Inductive, <1>1, PTL DEF Spec, WrapperAgrees

\* The steps after which the broker sees another connection than before.
LEMMA LifeStep ==
  ASSUME Inv, Next
  PROVE  Life!Next \/ UNCHANGED Life!lifeVars
<1> USE DEF Copiers
<1>1. CASE ReadHead
    BY <1>1 DEF Inv, TypeOK, BeforeTarget, ReleasedByStart, ReadHead, Goto, target, LifeSoFar,
                Life!Next, Life!Refused, Life!lifeVars
<1>2. CASE ResolveTarget
    <2>1. /\ pc["forward"] = "resolve" /\ resolved = "none" /\ releases = 0 /\ releases' = 0
          /\ \/ resolved' = "none" /\ pc'["forward"] \in {"head", "check"}
             \/ resolved' # "none" /\ pc'["forward"] = "dial"
        BY <1>2 DEF Inv, TypeOK, BeforeTarget, ReleasedByStart, ResolveTarget, Goto
    <2>2. ~crashed /\ crashed' = crashed
        BY <1>2 DEF Inv, Ended, ResolveTarget
    <2> QED
        BY <2>1, <2>2 DEF LifeSoFar, Life!Next, Life!Granted, Life!Refused, Life!lifeVars
<1>3. CASE Closed
    BY <1>3, ProxyAssumption
       DEF Inv, TypeOK, BeforeTarget, ReleasedByStart, Ended, Closed, Goto, target, LifeSoFar,
           Life!Next, Life!GivesBack, Life!lifeVars
<1>4. CASE BuffersCollide \/ Panics
    <2>1. ~crashed
        BY <1>4 DEF Inv, Ended, BuffersCollide, Panics
    <2>2. LifeSoFar # "ended"
        BY <2>1 DEF LifeSoFar
    <2>3. crashed' = TRUE /\ releases' = releases
        BY <1>4 DEF BuffersCollide, Panics, ProgramEnds
    <2>4. LifeSoFar' = "ended"
        BY <2>3, Zenon DEF LifeSoFar
    <2> QED
        BY <2>2, <2>3, <2>4 DEF Life!Next, Life!ProgramEnds
<1>5. CASE ~(ReadHead \/ ResolveTarget \/ Closed \/ BuffersCollide \/ Panics)
    <2>1. UNCHANGED <<resolved, releases, crashed>>
        BY <1>5 DEF Next, Forward, Back, Start, Err, CheckErred, Signal, MarkErred, Return, Dial,
                    DialMonitor, ForwardReads, ForwardWrites, ForwardWritesMonitor, Writes, BackReads,
                    BackReadsMonitor, BackWrites, CloseProxyConn, ClientSends,
                    ClientCloses, TargetSends, TargetCloses, target, ends
    <2>2. pc'["forward"] = pc["forward"] \/ {pc["forward"], pc'["forward"]} \cap {"head", "resolve"} = {}
        BY <1>5
           DEF Inv, TypeOK, Next, Forward, Back, Start, Err, CheckErred, Signal, MarkErred, Return,
                    Dial, DialMonitor, ForwardReads, ForwardWrites, ForwardWritesMonitor, Writes,
                    BackReads, BackReadsMonitor, BackWrites, CloseProxyConn, Goto,
                    ClientSends, ClientCloses, TargetSends, TargetCloses, target, ends
    <2> QED
        BY <2>1, <2>2 DEF LifeSoFar, Life!lifeVars
<1> QED
    BY <1>1, <1>2, <1>3, <1>4, <1>5

\* The part of GivesBackItsSlot that needs no fairness: no Release without a slot,
\* nor after the slot's connection is over.
THEOREM NoReleaseTwice == Spec => Life!Init /\ [][Life!Next]_(Life!lifeVars)
<1>1. Init => Life!Init
    BY DEF Init, Life!Init, LifeSoFar
<1>2. Inv /\ [Next]_vars => [Life!Next]_(Life!lifeVars)
    <2>1. UNCHANGED vars => UNCHANGED Life!lifeVars
        BY DEF vars, target, LifeSoFar, Life!lifeVars
    <2> QED BY <2>1, LifeStep
<1> QED
    BY InitInv, Inductive, <1>1, <1>2, PTL DEF Spec
=============================================================================
