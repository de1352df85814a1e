----------------------------- MODULE ServiceProofs -----------------------------
(***************************************************************************)
(* The service ContainerService specifies is the one README.md promises.   *)
(***************************************************************************)
EXTENDS ContainerService, TLAPS

\* The invariant of the proof: ServedWell needs the types of what a Grant and a
\* Replace leave behind.
Inv == TypeOK /\ ServedWell

\* Nobody is served at first.
LEMMA InitInv == Init => Inv
  BY DEF Init, Inv, TypeOK, ServedWell, Users

\* A client's own steps.
LEMMA ClientStep ==
  ASSUME Inv, NEW c \in Clients, Ask(c) \/ Grant(c) \/ TurnAway(c) \/ Leave(c) \/ Return(c)
  PROVE  Inv'
<1>1. CASE Ask(c)
  BY <1>1 DEF Inv, TypeOK, ServedWell, Users, Ask
<1>2. CASE Grant(c)
  <2>1. PICK p \in Places : MayUse(c, p) /\ place' = [place EXCEPT ![c] = p]
    BY <1>2 DEF Grant
  <2>2. TypeOK'
    BY <1>2, <2>1 DEF Inv, TypeOK, Grant
  <2>3. \A q \in Places : Users(q)' = IF q = p THEN Users(q) \cup {c} ELSE Users(q)
    BY <1>2, <2>1 DEF Inv, TypeOK, Grant, Users
  <2>4. ServedWell'
    BY <1>2, <2>1, <2>3 DEF Inv, ServedWell, MayUse, Grant
  <2> QED BY <2>2, <2>4 DEF Inv
<1>3. CASE TurnAway(c)
  BY <1>3 DEF Inv, TypeOK, ServedWell, Users, TurnAway
<1>4. CASE Leave(c)
  BY <1>4 DEF Inv, TypeOK, ServedWell, Users, Leave
<1>5. CASE Return(c)
  BY <1>5 DEF Inv, TypeOK, ServedWell, Users, Return
<1> QED BY <1>1, <1>2, <1>3, <1>4, <1>5

\* What happens to the containers.
LEMMA PlaceStep ==
  ASSUME Inv, NEW p \in Places, Replace(p) \/ Vanish(p)
  PROVE  Inv'
<1>1. CASE Replace(p)
  BY <1>1 DEF Inv, TypeOK, ServedWell, Users, Replace
<1>2. CASE Vanish(p)
  BY <1>2 DEF Inv, TypeOK, ServedWell, Users, Vanish
<1> QED BY <1>1, <1>2

\* Whoever implements the service, as the broker, the runners and the engine do
\* together (DockerService!ImplementsService), never has two clients in one container
\* unless its image is shared, connects nobody to a container of another image while
\* it is there, and nobody to a worker.
THEOREM ServedAsPromised == Spec => []ServedWell
<1>1. Inv /\ [Next]_serviceVars => Inv'
  <2> SUFFICES ASSUME Inv, [Next]_serviceVars PROVE Inv'
    OBVIOUS
  <2>1. CASE Next
    BY <2>1, ClientStep, PlaceStep DEF Next
  <2>2. CASE UNCHANGED serviceVars
    BY <2>2 DEF serviceVars, Inv, TypeOK, ServedWell, Users
  <2> QED BY <2>1, <2>2
<1>2. Inv => ServedWell
  BY DEF Inv
<1> QED BY InitInv, <1>1, <1>2, PTL DEF Spec
=============================================================================
