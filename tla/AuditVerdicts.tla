---------------------------- MODULE AuditVerdicts ----------------------------
(***************************************************************************)
(* The verdicts of the policy-backed audits (audits/policy_backed.py) and  *)
(* of mangle_queue_correlation: what each finds in the tables it has read. *)
(* The text of a finding is left out; it is told apart by its status, what *)
(* it is about and, for a trunk, the port.                                 *)
(*                                                                         *)
(* A policy is a record in which a section the file leaves out is empty;   *)
(* no policy file and an empty one are the same to every audit.  A field   *)
(* vlan_ids is a set of parts, and a part is the set of VLANs it stands    *)
(* for: "10" is {10}, "10-12" is 10..12.  A version "7.17" is the sequence *)
(* of its components, each a sequence of digits: <<<<7>>, <<1, 7>>>>.      *)
(***************************************************************************)
EXTENDS Naturals, FiniteSets, Sequences, SequencesExt

Found(status, about, on) == [status |-> status, about |-> about, on |-> on]
Only(status, about) == {Found(status, about, "")}
NoPolicy == Only("unknown", "policy")

GatewayRoles == {"gateway", "edge"}

-----------------------------------------------------------------------------
(* firmware_drift, stp_edge, route_ownership, snmp_scope.                  *)

\* str.startswith on dotted versions: the last component may go on.
StartsWith(current, expected) ==
  LET last == Len(expected)
  IN /\ last <= Len(current)
     /\ \A i \in 1..last - 1 : current[i] = expected[i]
     /\ last > 0 => IsPrefix(expected[last], current[last])

FirmwareDrift(policy, current) ==
  CASE policy.version = <<>> -> NoPolicy
    [] policy.version # <<>> /\ StartsWith(current, policy.version) -> Only("pass", "version")
    [] OTHER -> Only("fail", "version")

\* A wrong variant (these show that a property can fail): ports beside the
\* expected ones are a failure, too.
StpEdgeExact(policy, ports) ==
  CASE policy.edge = {} -> NoPolicy
    [] policy.edge # {} /\ policy.edge = {p.interface : p \in ports} -> Only("pass", "edge")
    [] OTHER -> Only("fail", "edge")

StpEdge(policy, ports) ==
  CASE policy.edge = {} -> NoPolicy
    [] policy.edge # {} /\ policy.edge \subseteq {p.interface : p \in ports} -> Only("pass", "edge")
    [] OTHER -> Only("fail", "edge")

\* A wrong variant: no prefix owned is a policy, too.
RouteOwnershipAlways(policy, routes) ==
  IF policy.owned \subseteq {r.dst : r \in routes} THEN Only("pass", "owned")
                                                ELSE Only("fail", "owned")

RouteOwnership(policy, routes) ==
  CASE policy.owned = {} -> NoPolicy
    [] policy.owned # {} /\ policy.owned \subseteq {r.dst : r \in routes} -> Only("pass", "owned")
    [] OTHER -> Only("fail", "owned")

\* The scope of access; left out when the policy does not state it.
SnmpAccess(policy, snmp) ==
  IF policy.access = {} THEN {}
  ELSE Only(IF snmp.addresses \subseteq policy.access THEN "pass" ELSE "fail", "access")

SnmpCommunity(policy, snmp) ==
  Only(CASE policy.communities = {} ->
              IF policy.communityPolicy = "secret_store" THEN "pass" ELSE "unknown"
         [] OTHER -> IF snmp.community \in policy.communities THEN "pass" ELSE "fail",
       "community")

NoSnmpPolicy(policy) ==
  policy.access = {} /\ policy.communities = {} /\ policy.communityPolicy = ""

SnmpScope(policy, snmp) ==
  CASE NoSnmpPolicy(policy) -> NoPolicy
    [] ~NoSnmpPolicy(policy) /\ ~snmp.there -> Only("unknown", "data")
    [] OTHER -> SnmpAccess(policy, snmp) \cup SnmpCommunity(policy, snmp)

-----------------------------------------------------------------------------
(* vlan_consistency and trunk_vlan_sanity.                                 *)

\* int(part) of every part; a part that is not a number is dropped.
ParseVlanIds(parts) == UNION {part \in parts : Cardinality(part) = 1}

\* Dynamic rows, and VLAN 1, count only if the policy names VLAN 1.
CountedVlans(policy, rows) ==
  LET named == 1 \in policy.vlans
      counted == {r \in rows : ~r.dynamic \/ named}
  IN {v \in UNION {ParseVlanIds(r.ids) : r \in counted} : v # 1 \/ named}

VlanConsistency(policy, rows) ==
  LET actual == CountedVlans(policy, rows)
  IN CASE policy.vlans = {} -> NoPolicy
       [] policy.vlans # {} /\ ~(policy.vlans \subseteq actual) -> Only("fail", "missing")
       [] policy.vlans # {} /\ policy.vlans = actual -> Only("pass", "vlans")
       [] OTHER -> Only("warn", "extra")

\* A wrong variant: disabled rows count as well.
TaggedOnAny(rows, port) ==
  UNION {ParseVlanIds(r.ids) : r \in {r \in rows : port \in r.tagged}}

\* The VLANs that enabled rows carry tagged on a port.
TaggedOn(rows, port) ==
  UNION {ParseVlanIds(r.ids) : r \in {r \in rows : ~r.disabled /\ port \in r.tagged}}

DefaultPvid(row) == row.pvid = 1 \/ row.frames = "admit-only-vlan-tagged"

\* The finding about one expected trunk: the first that applies, if any does.
TrunkFindings(policy, ports, rows, port) ==
  LET here == {p \in ports : p.interface = port}
  IN CASE here = {} -> {Found("fail", "port", port)}
       [] here # {} /\ ~(policy.trunks[port] \subseteq TaggedOn(rows, port)) ->
            {Found("fail", "tagged", port)}
       [] OTHER -> IF \A p \in here : DefaultPvid(p) THEN {}
                   ELSE {Found("warn", "pvid", port)}

\* A wrong variant: an audit that finds nothing says nothing.
TrunkVlanSanityMute(policy, ports, rows) ==
  IF DOMAIN policy.trunks = {} THEN NoPolicy
  ELSE UNION {TrunkFindings(policy, ports, rows, port) : port \in DOMAIN policy.trunks}

TrunkVlanSanity(policy, ports, rows) ==
  LET findings == UNION {TrunkFindings(policy, ports, rows, port) :
                           port \in DOMAIN policy.trunks}
  IN CASE DOMAIN policy.trunks = {} -> NoPolicy
       [] DOMAIN policy.trunks # {} /\ findings # {} -> findings
       [] OTHER -> Only("pass", "trunks")

-----------------------------------------------------------------------------
(* default_route_sanity and wan_failover_state.                            *)

Defaults(routes) == {r \in routes : r.dst = "default"}
ActiveDefaults(routes) == {r \in Defaults(routes) : ~r.disabled}

DefaultRouteSanity(role, dualWan, routes) ==
  LET gateway == role \in GatewayRoles
      active == Cardinality(ActiveDefaults(routes))
  IN CASE Defaults(routes) = {} -> Only(IF gateway THEN "fail" ELSE "warn", "default")
       [] Defaults(routes) # {} /\ gateway ->
            IF active < 2 /\ dualWan THEN Only("warn", "second") ELSE Only("pass", "default")
       [] OTHER -> Only(IF active = 1 THEN "pass" ELSE "warn", "default")

WanFailoverState(policy, role, routes) ==
  CASE role \notin GatewayRoles -> Only("skip", "role")
    [] role \in GatewayRoles /\ ~policy.primary -> NoPolicy
    [] role \in GatewayRoles /\ policy.primary /\ Defaults(routes) = {} ->
         Only("fail", "default")
    [] OTHER -> IF Cardinality(Defaults(routes)) < 2 /\ policy.secondary
                THEN Only("warn", "second") ELSE Only("pass", "default")

-----------------------------------------------------------------------------
(* mangle_queue_correlation.  The mark "" is a rule or queue without one.  *)

Producers(rules, mark) == {r \in rules : r.mark = mark}
Enabled(items) == {x \in items : ~x.disabled}
Marks(items) == {x.mark : x \in items} \ {""}

Misaligned(rules, queues) ==
  \/ \E q \in queues : q.disabled \/ q.invalid
  \/ \E mark \in Marks(queues) : Enabled(Producers(rules, mark)) = {}
  \/ ~(Marks(rules) \subseteq Marks(queues))
  \/ \E r \in rules : r.disabled /\ r.mark \in Marks(queues)

MangleQueueCorrelation(role, rules, queues) ==
  CASE rules = {} /\ queues = {} ->
         Only(IF role \in GatewayRoles THEN "unknown" ELSE "pass", "data")
    [] ~(rules = {} /\ queues = {}) /\ Misaligned(rules, queues) -> Only("warn", "marks")
    [] OTHER -> Only("pass", "marks")

==============================================================================
