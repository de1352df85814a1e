---------------------------- MODULE BrokerResolver ----------------------------
(***************************************************************************)
(* The client side of the broker: BrokerTargetResolver.ResolveHTTPRequest  *)
(* (broker-resolver.go), run by the goroutine of one connection, and the   *)
(* end of that connection in DynamicReverseProxy.Start (proxy.go).         *)
(***************************************************************************)
EXTENDS Slots

CONSTANT Conns       \* connections that ask for a container

VARIABLES
    conn,            \* conn[c]: what connection c does
    connJob,         \* the job c asks for
    connSlot,        \* the source slot c holds
    connAddress,     \* the container c is connected to
    readers          \* readers[s]: the connections inside slot s's Read

connVars == <<conn, connJob, connSlot, connAddress, readers>>

ConnStates == {"idle", "sent", "reading", "open", "closed"}

ResolverInit ==
    /\ conn = [c \in Conns |-> "idle"]
    /\ connJob = [c \in Conns |-> NoJob]
    /\ connSlot = [c \in Conns |-> Nil]
    /\ connAddress = [c \in Conns |-> Nil]
    /\ readers = [s \in Sources |-> <<>>]

\* GetSourceSlot, then Send(Acquire): between the two only c knows the slot.
\* Without "LateRead" c is already inside Read when the broker can answer.
RequestSlot(c) ==
    /\ conn[c] = "idle" /\ freeSourceSlots # <<>>
    /\ \E j \in Jobs :
        LET s == Head(freeSourceSlots)
        IN /\ HasRoom(srcIn[s], SlotBuffer)
           /\ freeSourceSlots' = Tail(freeSourceSlots)
           /\ srcIn' = [srcIn EXCEPT ![s] = Append(@, Acquire(j))]
           /\ connJob' = [connJob EXCEPT ![c] = j]
           /\ connSlot' = [connSlot EXCEPT ![c] = s]
           /\ IF "LateRead" \in Env
              THEN /\ conn' = [conn EXCEPT ![c] = "sent"]
                   /\ UNCHANGED readers
              ELSE /\ conn' = [conn EXCEPT ![c] = "reading"]
                   /\ readers' = [readers EXCEPT ![s] = Append(@, c)]
    /\ UNCHANGED <<connAddress, srcOut, tgtIn, tgtOut>>

\* c enters Read.  A Go channel serves its receivers in the order they came.
CallRead(c) ==
    /\ conn[c] = "sent"
    /\ conn' = [conn EXCEPT ![c] = "reading"]
    /\ readers' = [readers EXCEPT ![connSlot[c]] = Append(@, c)]
    /\ UNCHANGED <<connJob, connSlot, connAddress, channels>>

\* Mutant: the release the code has commented out (broker-resolver.go:218).
ReadReplyReleases(c) ==
    /\ conn[c] = "reading"
    /\ readers[connSlot[c]] # <<>> /\ Head(readers[connSlot[c]]) = c
    /\ srcOut[connSlot[c]] # <<>>
    /\ LET s == connSlot[c]
           reply == Head(srcOut[s])
       IN /\ srcOut' = [srcOut EXCEPT ![s] = Tail(@)]
          /\ readers' = [readers EXCEPT ![s] = Tail(@)]
          /\ conn' = [conn EXCEPT ![c] = IF reply.type = "Acquired" THEN "open" ELSE "closed"]
          /\ connAddress' = [connAddress EXCEPT ![c] = reply.address]
          /\ srcIn' = IF reply.type = "Acquired" THEN srcIn
                      ELSE [srcIn EXCEPT ![s] = Append(@, Release(FALSE))]
    /\ UNCHANGED <<connJob, connSlot, freeSourceSlots, tgtIn, tgtOut>>

\* The first receiver of a slot gets its first message.  An error ends the
\* connection, and the slot is not released: the broker has already taken it back.
ReadReply(c) ==
    /\ conn[c] = "reading"
    /\ readers[connSlot[c]] # <<>> /\ Head(readers[connSlot[c]]) = c
    /\ srcOut[connSlot[c]] # <<>>
    /\ LET s == connSlot[c]
           reply == Head(srcOut[s])
       IN /\ srcOut' = [srcOut EXCEPT ![s] = Tail(@)]
          /\ readers' = [readers EXCEPT ![s] = Tail(@)]
          /\ conn' = [conn EXCEPT ![c] = IF reply.type = "Acquired" THEN "open" ELSE "closed"]
          /\ connAddress' = [connAddress EXCEPT ![c] = reply.address]
    /\ UNCHANGED <<connJob, connSlot, freeSourceSlots, srcIn, tgtIn, tgtOut>>

\* Either end closes the connection, or it never reached the container: Start
\* then calls Closed, which sends the release.
Close(c) ==
    /\ conn[c] = "open"
    /\ HasRoom(srcIn[connSlot[c]], SlotBuffer)
    /\ srcIn' = [srcIn EXCEPT ![connSlot[c]] = Append(@, Release(FALSE))]
    /\ conn' = [conn EXCEPT ![c] = "closed"]
    /\ connAddress' = [connAddress EXCEPT ![c] = Nil]
    /\ UNCHANGED <<connJob, connSlot, readers, freeSourceSlots, srcOut, tgtIn, tgtOut>>

\* The listener accepts another connection.
Accept(c) ==
    /\ "Reconnect" \in Env
    /\ conn[c] = "closed"
    /\ conn' = [conn EXCEPT ![c] = "idle"]
    /\ connJob' = [connJob EXCEPT ![c] = NoJob]
    /\ connSlot' = [connSlot EXCEPT ![c] = Nil]
    /\ UNCHANGED <<connAddress, readers, channels>>

ResolverTypeOK ==
    /\ conn \in [Conns -> ConnStates]
    /\ connJob \in [Conns -> Jobs \cup {NoJob}]
    /\ connSlot \in [Conns -> Sources \cup {Nil}]
    /\ connAddress \in [Conns -> Targets \cup {Nil}]
    /\ readers \in [Sources -> Seq(Conns)]
    /\ \A c \in Conns : conn[c] \in {"sent", "reading", "open"} => connSlot[c] \in Sources
=============================================================================
