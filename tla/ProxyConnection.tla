---------------------------- MODULE ProxyConnection ----------------------------
(***************************************************************************)
(* One client connection in detail (DynamicReverseProxy, proxy.go).  Three *)
(* goroutines serve it:                                                    *)
(*   "start"    Start: waits for errsig, calls Closed, closes the client's *)
(*              connection                                                 *)
(*   "forward"  proxySelectTargetAndSetupPipe: reads the head of the       *)
(*              request, resolves it, connects to the target and then      *)
(*              copies from the client to the target                       *)
(*   "back"     pipe: copies from the target to the client                 *)
(* BrokerResolver has all of it as the two steps ReadReply and Close; this *)
(* module shows what those steps stand for.  Data are chunks: what one     *)
(* read of a connection returns.  A wrapper may hand a chunk on in several *)
(* pieces, which are one write here (HTTPReader has them).  Where a        *)
(* request goes is in Resolvers.                                           *)
(***************************************************************************)
EXTENDS Resolvers

CONSTANTS
    Cors,            \* the -cors option is given
    MaxChunks        \* how many chunks each end sends at most

ASSUME ProxyAssumption == Cors \in BOOLEAN /\ MaxChunks \in Nat \ {0}

Copiers == {"forward", "back"}

VARIABLES
    pc,              \* pc[g]: where goroutine g is
    erred,           \* p.erred
    resolved,        \* p.resolvedTarget: one of Targets, or "none"
    head,            \* the request buffered before the client's connection, or <<>>
    releases,        \* Release messages sent to the broker
    proxyOpen,       \* the proxy has not closed the client's connection
    clientOpen,      \* the client has not closed it
    targetConn,      \* the proxy's connection to the target: "none", "open", "closed"
    targetOpen,      \* the target has not closed its end
    inbox,           \* chunks the client sent and the proxy has not read
    outbox,          \* chunks the target sent and the proxy has not read
    sent,            \* sent[e]: chunks end e of the connection has sent
    crashed,         \* a goroutine has panicked, which ends the program
    afterClose       \* chunks written to the target after Start has closed the
                     \* client's connection (history)

target == <<resolved, head, afterClose>>
ends == <<clientOpen, targetOpen, sent>>
vars == <<pc, erred, crashed, target, releases, proxyOpen, targetConn, inbox, outbox, ends>>

Init ==
    /\ pc = [start |-> "wait", forward |-> "head", back |-> "none"]
    /\ erred = FALSE /\ crashed = FALSE /\ resolved = "none" /\ head = <<>>
    /\ releases = 0 /\ afterClose = 0
    /\ proxyOpen = TRUE /\ clientOpen = TRUE
    /\ targetConn = "none" /\ targetOpen = TRUE
    /\ inbox = 0 /\ outbox = 0
    /\ sent = [client |-> 0, target |-> 0]

Goto(g, label) == pc' = [pc EXCEPT ![g] = label]

\* A panic of one goroutine ends the program, and with it every connection it has.
ProgramEnds ==
    /\ crashed' = TRUE
    /\ pc' = [g \in DOMAIN pc |-> "done"]
    /\ proxyOpen' = FALSE
    /\ targetConn' = IF targetConn = "open" THEN "closed" ELSE targetConn
    /\ UNCHANGED <<erred, target, releases, inbox, outbox, ends>>

\* A read fails when the connection is closed here, or there and drained.
ReadFails(open, peerOpen, chunks) == ~open \/ (~peerOpen /\ chunks = 0)

-----------------------------------------------------------------------------
(* p.err: the first failure is signalled, later ones are dropped.  Each line is *)
(* a step: erred is neither locked nor set before the signal is taken.          *)

\* Mutant: the end of a stream is not signalled, as it is not logged.
CheckErredQuietly(g) ==
    /\ pc[g] = "check"
    /\ Goto(g, "return")
    /\ UNCHANGED <<erred, crashed, target, releases, proxyOpen, targetConn, inbox, outbox, ends>>

CheckErred(g) ==
    /\ pc[g] = "check"
    /\ Goto(g, IF erred THEN "return" ELSE "signal")
    /\ UNCHANGED <<erred, crashed, target, releases, proxyOpen, targetConn, inbox, outbox, ends>>

\* errsig is unbuffered: the send completes when Start receives.
Signal(g) ==
    /\ pc[g] = "signal" /\ pc["start"] = "wait"
    /\ pc' = [pc EXCEPT ![g] = "mark", !["start"] = "release"]
    /\ UNCHANGED <<erred, crashed, target, releases, proxyOpen, targetConn, inbox, outbox, ends>>

MarkErred(g) ==
    /\ pc[g] = "mark"
    /\ erred' = TRUE
    /\ Goto(g, "return")
    /\ UNCHANGED <<crashed, target, releases, proxyOpen, targetConn, inbox, outbox, ends>>

\* Mutant: no defer conn.Close().
ReturnOnly(g) ==
    /\ pc[g] = "return"
    /\ Goto(g, "done")
    /\ UNCHANGED <<erred, crashed, target, releases, proxyOpen, targetConn, inbox, outbox, ends>>

\* The goroutine ends; the connection to the target is closed by the one that
\* opened it (defer conn.Close()).
Return(g) ==
    /\ pc[g] = "return"
    /\ targetConn' = IF g = "forward" /\ targetConn = "open" THEN "closed" ELSE targetConn
    /\ Goto(g, "done")
    /\ UNCHANGED <<erred, crashed, target, releases, proxyOpen, inbox, outbox, ends>>

-----------------------------------------------------------------------------
(* proxySelectTargetAndSetupPipe, up to the pipes. *)

\* Mutant: an empty read is not told from one that got data.
ReadHeadEmpty ==
    /\ pc["forward"] = "head"
    /\ \/ inbox' = inbox - 1 /\ Goto("forward", "resolve")
       \/ ReadFails(proxyOpen, clientOpen, inbox) /\ Goto("forward", "check") /\ UNCHANGED inbox
    /\ UNCHANGED <<erred, crashed, target, releases, proxyOpen, targetConn, outbox, ends>>

ReadHead ==
    /\ pc["forward"] = "head"
    /\ \/ inbox > 0 /\ inbox' = inbox - 1 /\ Goto("forward", "resolve")
       \/ ReadFails(proxyOpen, clientOpen, inbox) /\ Goto("forward", "check") /\ UNCHANGED inbox
    /\ UNCHANGED <<erred, crashed, target, releases, proxyOpen, targetConn, outbox, ends>>

\* The head may be incomplete or malformed.  A request no resolver has a target for
\* ends the connection.  What is malformed beyond an error is in Panics.
ResolveTarget ==
    /\ pc["forward"] = "resolve"
    /\ \/ (\E next \in {"head", "check"} : Goto("forward", next)) /\ UNCHANGED <<resolved, head>>
       \/ \E q \in Requests, granted, hasRoot \in BOOLEAN :
            /\ ~EndsProgram(q)
            /\ granted => ReachesBroker(q)
            /\ resolved' = Resolve(q, granted, hasRoot)
            /\ IF resolved' = "none"
               THEN Goto("forward", "check") /\ UNCHANGED head
               ELSE Goto("forward", "dial") /\ head' = <<q>>
    /\ UNCHANGED <<erred, crashed, releases, afterClose, proxyOpen, targetConn, inbox, outbox, ends>>

\* Connected, the reverse pipe starts, and the head already read is the first
\* chunk to write, unless the wrapper that rewrites it cannot.
Dial ==
    /\ pc["forward"] = "dial" /\ resolved \in Wrapped
    /\ \/ /\ targetOpen
          /\ targetConn' = "open"
          /\ pc' = [pc EXCEPT !["forward"] = IF Rewrites(resolved, Head(head)) THEN "write" ELSE "check",
                             !["back"] = "read"]
       \/ Goto("forward", "check") /\ UNCHANGED targetConn
    /\ head' = <<>>
    /\ UNCHANGED <<erred, crashed, resolved, releases, afterClose, proxyOpen, inbox, outbox, ends>>

\* The monitor's connection is a buffer with its response, to which the head of
\* the request is written, as to a target that is not wrapped.
DialMonitor ==
    /\ pc["forward"] = "dial" /\ resolved = "monitor"
    /\ targetConn' = "open" /\ head' = <<>> /\ outbox' = 2
    /\ pc' = [pc EXCEPT !["forward"] = "read", !["back"] = "read"]
    /\ UNCHANGED <<erred, crashed, resolved, releases, afterClose, proxyOpen, inbox, ends>>

-----------------------------------------------------------------------------
(* The two pipes. *)

\* What comes after the first request is more of its body, well formed or not,
\* or a second request: then the wrapper closes the client's connection and
\* reports EOF.  The malformed part may be what is left of a chunk before, with
\* nothing read.  Without a wrapper all is data.
ForwardReads ==
    /\ pc["forward"] = "read"
    /\ \/ /\ proxyOpen /\ inbox > 0
          /\ inbox' = inbox - 1
          /\ \/ Goto("forward", "write") /\ UNCHANGED proxyOpen
             \/ resolved \in Wrapped /\ Goto("forward", "check") /\ proxyOpen' \in {proxyOpen, FALSE}
       \/ resolved \in Wrapped /\ Goto("forward", "check") /\ UNCHANGED <<inbox, proxyOpen>>
       \/ /\ ReadFails(proxyOpen, clientOpen, inbox)
          /\ Goto("forward", "check")
          /\ UNCHANGED <<inbox, proxyOpen>>
    /\ UNCHANGED <<erred, crashed, target, releases, targetConn, outbox, ends>>

\* The responses of these are parsed, to be rewritten.
Parsed == Cors \/ resolved \in {"docker", "host", "root"}

\* A response that is parsed may be malformed, and a second one, or a chunk that
\* is taken for one, makes the wrapper close the target's connection.
BackReads ==
    /\ pc["back"] = "read" /\ resolved \in Wrapped
    /\ \/ /\ targetConn = "open" /\ outbox > 0
          /\ outbox' = outbox - 1
          /\ \/ Goto("back", "write") /\ UNCHANGED targetConn
             \/ Parsed /\ Goto("back", "check") /\ UNCHANGED targetConn
             \/ Parsed /\ outbox < sent["target"] /\ Goto("back", "check") /\ targetConn' = "closed"
       \/ Parsed /\ outbox < sent["target"] /\ Goto("back", "check") /\ UNCHANGED <<outbox, targetConn>>
       \/ /\ ReadFails(targetConn = "open", targetOpen, outbox)
          /\ Goto("back", "check") /\ UNCHANGED <<outbox, targetConn>>
    /\ UNCHANGED <<erred, crashed, target, releases, proxyOpen, inbox, ends>>

\* The monitor's buffer cannot be closed, and ends when it is empty.
BackReadsMonitor ==
    /\ pc["back"] = "read" /\ resolved = "monitor"
    /\ \/ /\ outbox > 0 /\ outbox' = outbox - 1
          /\ Goto("back", "write") \/ (Cors /\ Goto("back", "check"))
       \/ outbox = 0 /\ Goto("back", "check") /\ UNCHANGED outbox
    /\ UNCHANGED <<erred, crashed, target, releases, proxyOpen, targetConn, inbox, ends>>

\* A write to a connection the peer has closed may go unnoticed.
Writes(g, open, peerOpen) ==
    /\ pc[g] = "write"
    /\ \/ open /\ Goto(g, "read")
       \/ ~(open /\ peerOpen) /\ Goto(g, "check")
    /\ UNCHANGED <<erred, crashed, resolved, head, releases, proxyOpen, targetConn, inbox, ends>>

ForwardWrites ==
    /\ resolved \in Wrapped
    /\ Writes("forward", targetConn = "open", targetOpen)
    /\ afterClose' = IF pc["start"] = "done" /\ pc'["forward"] = "read" THEN afterClose + 1 ELSE afterClose
    /\ UNCHANGED outbox

\* What the client sends to the monitor comes back to it.
ForwardWritesMonitor ==
    /\ resolved = "monitor"
    /\ Writes("forward", TRUE, TRUE)
    /\ outbox' = outbox + 1
    /\ UNCHANGED afterClose

BackWrites == Writes("back", proxyOpen, clientOpen) /\ UNCHANGED <<outbox, afterClose>>

\* The two pipes use the monitor's buffer without a lock: a write to it while a read
\* finds it empty may be out of its bounds, which ends the program.
BuffersCollide ==
    /\ resolved = "monitor" /\ outbox = 0
    /\ pc["forward"] = "write" /\ pc["back"] = "read"
    /\ ProgramEnds

\* Where a goroutine may panic.  The parser of a head reports a header line without
\* a colon and then takes the second part of it; that of a job's element does so
\* with a definition without "="; and a body of a negative length is cut out of
\* the buffer.  The first head may be any; later it is what a wrapper parses, a
\* chunk just read or what is left of one.
Panics ==
    /\ \/ pc["forward"] = "resolve"
       \/ pc["forward"] = "read" /\ resolved \in Wrapped
       \/ /\ pc["back"] = "read" /\ resolved \in Wrapped /\ Parsed
          /\ \/ targetConn = "open" /\ outbox > 0
             \/ outbox < sent["target"]
    /\ ProgramEnds

-----------------------------------------------------------------------------
(* Start, once signalled. *)

\* Closed sends Release for a broker target and does nothing for another one.
Closed ==
    /\ pc["start"] = "release"
    /\ releases' = IF resolved = "slot" THEN releases + 1 ELSE releases
    /\ Goto("start", "close")
    /\ UNCHANGED <<erred, crashed, target, proxyOpen, targetConn, inbox, outbox, ends>>

\* Mutant: no defer p.proxyConn.Close().
CloseProxyConnNot ==
    /\ pc["start"] = "close"
    /\ Goto("start", "done")
    /\ UNCHANGED <<erred, crashed, target, releases, proxyOpen, targetConn, inbox, outbox, ends>>

CloseProxyConn ==
    /\ pc["start"] = "close"
    /\ proxyOpen' = FALSE
    /\ Goto("start", "done")
    /\ UNCHANGED <<erred, crashed, target, releases, targetConn, inbox, outbox, ends>>

-----------------------------------------------------------------------------
(* The two ends. *)

ClientSends ==
    /\ clientOpen /\ proxyOpen /\ sent["client"] < MaxChunks
    /\ inbox' = inbox + 1
    /\ sent' = [sent EXCEPT !["client"] = @ + 1]
    /\ UNCHANGED <<pc, erred, crashed, target, releases, proxyOpen, targetConn, outbox, clientOpen, targetOpen>>

ClientCloses ==
    /\ clientOpen
    /\ clientOpen' = FALSE
    /\ UNCHANGED <<pc, erred, crashed, target, releases, proxyOpen, targetConn, inbox, outbox, targetOpen, sent>>

TargetSends ==
    /\ targetOpen /\ targetConn = "open" /\ resolved \in Wrapped /\ sent["target"] < MaxChunks
    /\ outbox' = outbox + 1
    /\ sent' = [sent EXCEPT !["target"] = @ + 1]
    /\ UNCHANGED <<pc, erred, crashed, target, releases, proxyOpen, targetConn, inbox, clientOpen, targetOpen>>

TargetCloses ==
    /\ targetOpen
    /\ targetOpen' = FALSE
    /\ UNCHANGED <<pc, erred, crashed, target, releases, proxyOpen, targetConn, inbox, outbox, clientOpen, sent>>

-----------------------------------------------------------------------------
Err(g) == CheckErred(g) \/ Signal(g) \/ MarkErred(g) \/ Return(g)

Forward ==
    \/ ReadHead \/ ResolveTarget \/ Dial \/ DialMonitor
    \/ ForwardReads \/ ForwardWrites \/ ForwardWritesMonitor
    \/ Err("forward")

Back == BackReads \/ BackReadsMonitor \/ BackWrites \/ Err("back")

Start == Closed \/ CloseProxyConn

Next ==
    \/ Forward \/ Back \/ Start \/ BuffersCollide \/ Panics
    \/ ClientSends \/ ClientCloses \/ TargetSends \/ TargetCloses

Spec == Init /\ [][Next]_vars

\* The scheduler runs every goroutine that can run; a client leaves at some
\* point (main sets no timeout on its connection).
Fairness == WF_vars(Forward) /\ WF_vars(Back) /\ WF_vars(Start) /\ WF_vars(ClientCloses)

FairSpec == Spec /\ Fairness

-----------------------------------------------------------------------------
Labels == {"none", "wait", "release", "close", "head", "resolve", "dial", "read", "write",
           "check", "signal", "mark", "return", "done"}

\* Every variable has its type.
TypeOK ==
    /\ pc \in [{"start"} \cup Copiers -> Labels]
    /\ erred \in BOOLEAN /\ crashed \in BOOLEAN
    /\ proxyOpen \in BOOLEAN /\ clientOpen \in BOOLEAN /\ targetOpen \in BOOLEAN
    /\ resolved \in Targets \cup {"none"}
    /\ head \in Seq(Requests)
    /\ pc["forward"] = "dial" => resolved # "none" /\ head # <<>>
    /\ releases \in 0..1
    /\ targetConn \in {"none", "open", "closed"}
    /\ inbox \in 0..MaxChunks /\ outbox \in 0..MaxChunks + 2
    /\ afterClose \in 0..MaxChunks
    /\ sent \in [{"client", "target"} -> 0..MaxChunks]

\* The connection as the broker sees it.  It is over when its slot is given back,
\* or when it failed, or went elsewhere, without having one.
LifeSoFar ==
    IF crashed THEN "ended"
    ELSE IF resolved = "slot" /\ releases = 0 THEN "linked"
    ELSE IF resolved = "none" /\ pc["forward"] \in {"head", "resolve"} THEN "asking" ELSE "over"

Life == INSTANCE ConnectionLife WITH life <- LifeSoFar

\* Whoever fails first, at whatever point, and whichever goroutine's signal is
\* lost: as long as the program does not end, a connection that holds a slot gives
\* it back, and gives it back once (proxy.go:118-135).
GivesBackItsSlot == Life!Spec

\* A request that has found a target is one the target's wrapper can rewrite: the
\* parser of the resolver and that of the wrapper, written apart, agree
\* (host-resolver.go:20, 128; docker-resolver.go:13, 72).
WrapperAgrees ==
    [][targetConn = "none" /\ targetConn' = "open" => pc'["forward"] # "check"]_vars

\* Start gives the slot back before it closes the client's connection, and what is
\* written to the container in between is not bounded (proxy.go:119, 131).  Once it
\* has closed it, no more is written than the chunk that had been read by then.
OneChunkAfterClose == afterClose <= 1

\* Once Start is done the other goroutines end and the connection to the target is
\* closed, except for a goroutine that found erred unset after the other one had
\* signalled: nobody receives its signal, and what it holds open stays open.
GoroutinesEnd ==
    pc["start"] = "done" ~> \A g \in Copiers : pc[g] \in {"none", "signal", "done"}
=============================================================================
