---------------------------- MODULE MCDockerSpaces ----------------------------
(* Instances of DockerSpaces for TLC. *)
EXTENDS DockerService, TLC

\* Two queued images and two shared ones; a worker job of the first.
MCTypes == {"x:a", "x:b", "y:c", "y:d"}
MCTypeOf ==
    [j \in Jobs |-> CASE j \in {"a", "a3"} -> "x:a" [] j \in {"b", "b3"} -> "x:b"
                      [] j = "c" -> "y:c" [] j = "d" -> "y:d"]
MCYTypes == {"y:c", "y:d"}

\* Nothing tells one connection from another.
ConnSymmetry == Permutations(Conns)
=============================================================================
