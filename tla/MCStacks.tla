------------------------------ MODULE MCStacks ------------------------------
\* A stack, and the list of routes that stacks share with services and registries.  The
\* two meet in the activities of the stack, which are steps of the first and whole
\* requests of the second: a behaviour is one of one of them.
EXTENDS ComposeStackDeploy, CaddyProxy

CONSTANTS u1, u2, u3

\* One URL that every deployment has, and one that each of them drops or adds.
TwoUrls == <<{u1, u2}, {u1, u3}>>

VARIABLE part

Init == part \in {"stack", "proxy"} /\ StackInit /\ ProxyInit

Next ==
  \/ part = "stack" /\ StackNext /\ UNCHANGED <<proxyVars, part>>
  \/ part = "proxy" /\ ProxyNext /\ UNCHANGED <<stackVars, part>>

Spec == Init /\ [][Next]_<<stackVars, proxyVars, part>> /\ StackFairness
=============================================================================
