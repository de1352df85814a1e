----------------------------- MODULE DockerService -----------------------------
(* The program shown to implement the service it promises. *)
EXTENDS DockerSpaces

\* What a client sees of its connection: slots, messages and the broker are hidden.
Seen == [c \in Conns |->
    CASE conn[c] = "idle" -> "idle"
      [] conn[c] \in {"sent", "reading"} -> "waiting"
      [] conn[c] = "open" -> "served"
      [] conn[c] = "closed" -> "gone"]

Service == INSTANCE ContainerService WITH
    Clients <- Conns, Places <- Targets,
    Types <- SlotTypes, Type <- TypeOf, SharedTypes <- YTypes, NoPlace <- Nil,
    client <- Seen,
    job <- connJob,
    place <- [c \in Conns |-> IF conn[c] = "open" THEN connAddress[c] ELSE Nil],
    image <- [t \in Targets |-> SlotTypeOf(container[t])]

\* Clients are connected to containers as the README promises, and everybody who
\* asks is answered: through whatever the broker, the runners and the engine do, with
\* starts that fail, workers, and containers that exit.
ImplementsService == Service!Spec
=============================================================================
