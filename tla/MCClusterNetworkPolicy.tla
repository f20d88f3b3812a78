----------------------- MODULE MCClusterNetworkPolicy -----------------------
(* ClusterNetworkPolicy for TLC: the rules a policy is written with.         *)
EXTENDS ClusterNetworkPolicy, TLC

CONSTANTS a, b

Froms ==
    LET notIn(S) == [shape |-> "notIn", matches |-> S]
        other(S) == [shape |-> "other", matches |-> S]
        none == [shape |-> "none", matches |-> {}]
    IN  {<<>>, <<notIn({a})>>, <<notIn({b})>>, <<other({a})>>, <<none>>,
         <<other({a}), none>>, <<notIn({a}), notIn({b})>>}

\* Both ends of the range, neighbours, a port twice, another protocol.
PortLists ==
    {<<<<"TCP", 1>>>>, <<<<"TCP", 2>>>>, <<<<"TCP", 4>>>>, <<<<"UDP", 3>>>>,
     <<<<"SCTP", 2>>>>, <<<<"TCP", 2>>, <<"TCP", 1>>>>, <<<<"TCP", 4>>, <<"UDP", 1>>>>,
     <<<<"TCP", 2>>, <<"TCP", 2>>>>, <<<<"TCP", 3>>, <<"SCTP", 3>>>>}

\* Every Deny rule names its ports.
NamedPorts ==
    [action : {"Deny"}, from : Froms, ports : PortLists]
    \cup [action : {"Allow"}, from : Froms, ports : PortLists \cup {<<>>}]

\* "ports omitted matches every port"
OmittedPorts == NamedPorts \cup [action : {"Deny"}, from : Froms, ports : {<<>>}]
=============================================================================
