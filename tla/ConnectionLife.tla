---------------------------- MODULE ConnectionLife ----------------------------
(***************************************************************************)
(* What the broker relies on of a connection that asked it for a container *)
(* (BrokerResolver): it gets a container or does not, and one that got it  *)
(* gives its slot back, exactly once, unless the program ends.             *)
(***************************************************************************)
EXTENDS Naturals

VARIABLES
    life,            \* "asking", "linked" to a container, "over", or "ended" with the program
    releases         \* how many times it sent Release

lifeVars == <<life, releases>>

Init == life = "asking" /\ releases = 0

Granted == life = "asking" /\ life' = "linked" /\ UNCHANGED releases

Refused == life = "asking" /\ life' = "over" /\ UNCHANGED releases

GivesBack == life = "linked" /\ life' = "over" /\ releases' = releases + 1

ProgramEnds == life # "ended" /\ life' = "ended" /\ UNCHANGED releases

Next == Granted \/ Refused \/ GivesBack \/ ProgramEnds

Spec == Init /\ [][Next]_lifeVars /\ WF_lifeVars(GivesBack)
=============================================================================
