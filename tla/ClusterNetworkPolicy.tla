------------------------ MODULE ClusterNetworkPolicy ------------------------
(***************************************************************************)
(* TranslateClusterNetworkPolicy (internal/agent/clusternetworkpolicy.go): *)
(* the translation of one ClusterNetworkPolicy, which has Deny rules, into *)
(* a standard NetworkPolicy, which can only allow.  The translation is a   *)
(* pure function; the behaviours of this module are the rule lists a       *)
(* policy can be written with, rule by rule.                               *)
(*                                                                         *)
(* A namespace selector is represented by the set of namespaces it matches *)
(* and by the shape the translation asks for: one NotIn expression, or     *)
(* anything else.  In(X) is the complement of NotIn(X), for namespaces     *)
(* without the label too.                                                  *)
(***************************************************************************)
EXTENDS Integers, FiniteSets, SequencesExt

CONSTANTS
    Sources,      \* namespaces traffic comes from, and Outside
    Outside,      \* traffic that comes from no pod of the cluster
    Protocols,    \* "TCP", "UDP" and others
    MinPort, MaxPort,
    RuleChoices,  \* the rules a policy is written with
    MaxRules      \* bound: rules of a policy

ASSUME PortAssumption == MinPort \in Nat /\ MaxPort \in Nat /\ MinPort <= MaxPort

\* What a namespace selector may match: pods only.
InCluster == Sources \ {Outside}

\* A rule: action, a sequence of peers, a sequence of <<protocol, port>>.
\* A peer: the shape of its namespace selector and the namespaces it matches.
Peer == [shape : {"notIn", "other"}, matches : SUBSET InCluster]
            \cup [shape : {"none"}, matches : {{}}]
Port == Protocols \X (MinPort..MaxPort)
Rule == [action : {"Allow", "Deny"}, from : Seq(Peer), ports : Seq(Port)]
ASSUME RuleAssumption == RuleChoices \subseteq Rule

VARIABLE ingress      \* the policy's spec.ingress

\* An ingress rule of a NetworkPolicy: the sources it admits, and the
\* protocol and port range of each of its ports.
Everyone == Sources
EveryPort == {[protocol |-> p, start |-> MinPort, end |-> MaxPort] : p \in Protocols}
-----------------------------------------------------------------------------
\* isTranslatableProtocol.
Translatable == {"TCP", "UDP"}
ASSUME ProtocolAssumption == Translatable \subseteq Protocols

\* translatePeers: peers without a namespace selector are dropped.  No peers
\* are left: a nil from, which admits every source.
AdmittedBy(peers) ==
    LET kept == {i \in DOMAIN peers : peers[i].shape # "none"} IN
    IF kept = {} THEN Everyone ELSE UNION {peers[i].matches : i \in kept}

\* translatePorts: no ports are every port.
PortsOf(ports) ==
    IF ports = <<>> THEN EveryPort
    ELSE {[protocol |-> ports[i][1], start |-> ports[i][2], end |-> ports[i][2]] :
             i \in DOMAIN ports}

\* translateAllowRule
AllowRule(rule) == [from |-> AdmittedBy(rule.from), ports |-> PortsOf(rule.ports)]

\* denyAllowedPeer: the shapes of from whose complement can be expressed.
DenySupported(rule) ==
    \/ rule.from = <<>>
    \/ Len(rule.from) = 1 /\ rule.from[1].shape = "notIn"

\* ... and the peer still allowed, if any: the namespaces NotIn excludes.
DenyAllowed(rule) ==
    {InCluster \ rule.from[i].matches : i \in DOMAIN rule.from}

\* The ports of supported Deny rules, as <<rule, index>>.
DeniedPorts(rules) ==
    UNION {{<<i, j>> : j \in DOMAIN rules[i].ports} :
              i \in {i \in DOMAIN rules : rules[i].action = "Deny" /\ DenySupported(rules[i])}}

Named(rules, u) == rules[u[1]].ports[u[2]]

\* restrictedPorts: every translatable <<protocol, port>> that is named once,
\* with the peer it still admits.
Restrictions(rules) ==
    {[port |-> Named(rules, u), allowed |-> DenyAllowed(rules[u[1]])] :
        u \in {u \in DeniedPorts(rules) :
                  /\ Named(rules, u)[1] \in Translatable
                  /\ \A v \in DeniedPorts(rules) :
                        Named(rules, v) = Named(rules, u) => v = u}}

\* The rules that are reported: Deny rules left out, and Allow rules that lost
\* a peer.
UnsupportedRules(rules) ==
    {i \in DOMAIN rules :
        \/ rules[i].action = "Deny" /\ ~DenySupported(rules[i])
        \/ /\ rules[i].action = "Allow"
           /\ \E j \in DOMAIN rules[i].from : rules[i].from[j].shape = "none"}

\* The ports that are reported: another protocol, or named more than once.
UnsupportedPorts(rules) ==
    {Named(rules, u) : u \in DeniedPorts(rules)} \ {r.port : r \in Restrictions(rules)}

\* openRule: the empty namespace selector, which is every pod of every namespace.
OpenRule(protocol, start, end) ==
    [from |-> InCluster, ports |-> {[protocol |-> protocol, start |-> start, end |-> end]}]

\* Mutant: the next gap starts at the restricted port.
NextGap_OffByOne(port) == port

NextGap(port) == port + 1

\* The loop of complementRulesForProtocol goes through the restricted ports in
\* order: next, when it comes to a port, or past the last one, to MaxPort + 1.
NextAt(ports, port) ==
    LET before == {q \in ports : q < port} IN
    IF before = {} THEN MinPort ELSE NextGap(Max(before))

\* complementRulesForProtocol: the gap before each restricted port, unless it is
\* empty, and the one after the last.
ComplementFor(protocol, ports) ==
    {OpenRule(protocol, NextAt(ports, port), port - 1) :
        port \in {port \in ports : port > NextAt(ports, port)}}
    \cup {OpenRule(protocol, next, MaxPort) :
        next \in {next \in {NextAt(ports, MaxPort + 1)} : next <= MaxPort}}

\* complementRules: nothing to complement without a restriction, or else all
\* the translatable protocols, restricted or not.
ComplementRules(rs) ==
    IF rs = {} THEN {}
    ELSE UNION {ComplementFor(p, {r.port[2] : r \in {r \in rs : r.port[1] = p}}) :
                   p \in Translatable}

\* restrictedAllowRules: "P is allowed only from X".
RestrictedAllowRules(rs) ==
    UNION {{[from |-> x,
             ports |-> {[protocol |-> r.port[1], start |-> r.port[2], end |-> r.port[2]]}] :
                x \in r.allowed} : r \in rs}

\* Mutant: only the protocols with a restriction are complemented.
Translate_NoOtherProtocol(rules) ==
    LET rs == Restrictions(rules) IN
    {AllowRule(rules[i]) : i \in {i \in DOMAIN rules : rules[i].action = "Allow"}}
        \cup RestrictedAllowRules(rs)
        \cup UNION {ComplementFor(p, {r.port[2] : r \in {r \in rs : r.port[1] = p}}) :
                       p \in {r.port[1] : r \in rs}}

\* TranslateClusterNetworkPolicy: the ingress rules; {} is no NetworkPolicy.
Translate(rules) ==
    LET rs == Restrictions(rules) IN
    {AllowRule(rules[i]) : i \in {i \in DOMAIN rules : rules[i].action = "Allow"}}
        \cup RestrictedAllowRules(rs) \cup ComplementRules(rs)

TranslationInit == ingress = <<>>

AddRule ==
    /\ Len(ingress) < MaxRules
    /\ \E r \in RuleChoices : ingress' = Append(ingress, r)

TranslationNext == AddRule

TranslationSpec == TranslationInit /\ [][TranslationNext]_ingress
-----------------------------------------------------------------------------
(* What the rules mean, said without the translation.                       *)

\* A namespace without a NetworkPolicy is open; one with a NetworkPolicy
\* admits what some rule of it admits.
Admits(rules, src, protocol, port) ==
    \/ rules = {}
    \/ \E r \in rules : /\ src \in r.from
                        /\ \E q \in r.ports : q.protocol = protocol
                                              /\ port \in q.start..q.end

Matches(rule, src, port) ==
    /\ rule.from = <<>> \/ \E j \in DOMAIN rule.from : src \in rule.from[j].matches
    /\ rule.ports = <<>> \/ port \in ToSet(rule.ports)

SomeRule(action, src, port) ==
    \E i \in DOMAIN ingress : ingress[i].action = action /\ Matches(ingress[i], src, port)

Reported(i, port) ==
    i \in UnsupportedRules(ingress) \/ port \in UnsupportedPorts(ingress)

DenyOnly == \A i \in DOMAIN ingress : ingress[i].action = "Deny"

\* The NetworkPolicy is one the API server accepts: ports in range and ranges
\* not empty.
TranslationTypeOK ==
    /\ ingress \in Seq(Rule)
    /\ \A r \in Translate(ingress) : \A q \in r.ports :
          MinPort <= q.start /\ q.start <= q.end /\ q.end <= MaxPort

\* "Each is reported as an Unsupported entry rather than silently enforced or
\* ignored": traffic that a Deny rule matches is refused, or that rule is
\* reported for it, or an Allow rule, translated or reported, admits it.
EnforcedOrReported ==
    \A i \in DOMAIN ingress : ingress[i].action = "Deny" =>
        \A src \in Sources, port \in Port :
            Matches(ingress[i], src, port) =>
                \/ ~Admits(Translate(ingress), src, port[1], port[2])
                \/ Reported(i, port)
                \/ SomeRule("Allow", src, port)
                \/ \E a \in UnsupportedRules(ingress) : ingress[a].action = "Allow"

StaysOpen(src) ==
    DenyOnly => \A port \in Port :
        port[1] \in Translatable /\ ~SomeRule("Deny", src, port) =>
            Admits(Translate(ingress), src, port[1], port[2])

\* No NetworkPolicy "would newly deny every port and protocol the
\* ClusterNetworkPolicy never mentioned": TCP or UDP traffic of a pod that no Deny
\* rule matches stays open under a policy of Deny rules.
OthersStayOpen == \A src \in InCluster : StaysOpen(src)

\* The same of the "allow-everyone rule" for traffic from outside the cluster, of
\* a load balancer or a node.  It does not hold: the rule's peer is a namespace
\* selector, so the first restricted port closes all the others to it.
OutsideStaysOpen == Outside \in Sources => StaysOpen(Outside)

\* "a Deny rule restricting any other protocol (e.g. SCTP) is reported
\* Unsupported and left unrestricted": under Deny rules, so does every
\* protocol the translation does not know.
OtherProtocolsUntouched ==
    DenyOnly => \A src \in Sources, port \in Port :
        port[1] \notin Translatable => Admits(Translate(ingress), src, port[1], port[2])

\* "CNP and standard NetworkPolicy agree on Allow semantics": the rule an Allow
\* rule becomes admits only what a peer of that Allow rule matches.
AllowNeverWidens ==
    \A i \in DOMAIN ingress : ingress[i].action = "Allow" =>
        \A src \in AllowRule(ingress[i]).from :
            ingress[i].from = <<>> \/ \E j \in DOMAIN ingress[i].from :
                                          src \in ingress[i].from[j].matches
=============================================================================
