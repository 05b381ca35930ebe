--------------------------- MODULE MCDockerDeploy ---------------------------
(***************************************************************************)
(* Finite instances of DockerDeploy.                                       *)
(***************************************************************************)
EXTENDS DockerDeploy

CONSTANTS v1, c1, u1

\* A stateless web service, one with a writable volume and a config, and a worker
\* that has a config and no URL.
Stateless == [exclusive |-> FALSE, volumes |-> {}, configs |-> {}, urls |-> {u1}]
Stateful == [exclusive |-> TRUE, volumes |-> {v1}, configs |-> {c1}, urls |-> {u1}]
Worker == [exclusive |-> FALSE, volumes |-> {}, configs |-> {c1}, urls |-> {}]

JustStateless == {Stateless}
JustStateful == {Stateful}
BothKinds == {Stateless, Stateful}
AllKinds == {Stateless, Stateful, Worker}
=============================================================================
