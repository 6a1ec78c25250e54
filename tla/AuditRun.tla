------------------------------- MODULE AuditRun -------------------------------
(***************************************************************************)
(* One audit of one device, by the functions of AuditVerdicts and          *)
(* RuleVerdicts: it reads its tables one after the other, each over a       *)
(* connection of its own (live) or from the file at that moment (fixture),  *)
(* and then judges what it has read.  Meanwhile the device may be           *)
(* reconfigured, or the fixture captured anew, between any two reads.       *)
(*                                                                         *)
(* What an audit reads is not quite what is there: the service redacts     *)
(* public addresses, and the live backend leaves RouterOS's own field      *)
(* names ("vlan-ids"), where the audits look for those of the fixtures     *)
(* ("vlan_ids") and find nothing.                                          *)
(***************************************************************************)
EXTENDS RuleVerdicts

CONSTANTS Policies,   \* policies the server may be started with
          Contents,   \* Contents[table]: what a table may hold
          Places,     \* roles and tags of the device, as <<role, dual-wan>>
          MaxChanges  \* bound: how often the device is changed

Audits == {"firmware_drift", "stp_edge", "route_ownership", "snmp_scope",
           "vlan_consistency", "trunk_vlan_sanity", "default_route_sanity",
           "wan_failover_state", "mangle_queue_correlation", "dscp_policy",
           "dead_mangle_rules", "qos_state", "encrypted_dns", "backup_retention"}
Tables == {"version", "ports", "routes", "snmp", "vlans", "mangle", "tree", "simple",
           "rules", "dns", "backups"}

\* A row of each table, and what a table is.
PortType == [interface : STRING, pvid : Nat, frames : STRING]
VlanType == [ids : SUBSET SUBSET Nat, tagged : SUBSET STRING, disabled : BOOLEAN,
             dynamic : BOOLEAN]
RouteType == [dst : STRING, gateway : STRING, disabled : BOOLEAN]
MarkType == [mark : STRING, disabled : BOOLEAN, leftover : BOOLEAN]
QueueType == [mark : STRING, disabled : BOOLEAN, invalid : BOOLEAN, limit : STRING]
RuleType == [chain : STRING, action : STRING, input : STRING, output : STRING,
             comment : SUBSET STRING, dscp : 0..OddDscp, newDscp : 0..OddDscp, mark : STRING,
             newMark : STRING, disabled : BOOLEAN]
BackupType == [name : STRING, date : STRING]
TableTypes ==
  [version |-> Seq(Seq(Nat)), ports |-> SUBSET PortType, routes |-> SUBSET RouteType,
   vlans |-> SUBSET VlanType, mangle |-> SUBSET MarkType, tree |-> SUBSET QueueType,
   simple |-> SUBSET QueueType, rules |-> Seq(RuleType), backups |-> SUBSET BackupType,
   snmp |-> [there : BOOLEAN, addresses : SUBSET STRING, community : STRING],
   dns |-> [there : BOOLEAN, servers : BOOLEAN, doh : BOOLEAN, dnssec : BOOLEAN]]

\* An interface is a port of one bridge only.
OneRowEach(ports) == \A p, q \in ports : p.interface = q.interface => p = q

\* A policy names addresses, never what redaction puts in the place of one.
ASSUME AuditRunAssumption ==
  /\ DOMAIN Contents = Tables
  /\ \A t \in Tables : Contents[t] \subseteq TableTypes[t]
  /\ \A rows \in Contents["ports"] : OneRowEach(rows)
  /\ \A p \in Policies : /\ p.version \in Seq(Seq(Nat))
                         /\ "redacted" \notin p.owned \cup p.access
  /\ Places \subseteq STRING \X BOOLEAN
  /\ MaxChanges \in Nat

VARIABLES audit, backend, policy, role, dualWan,  \* fixed when it starts
          device,   \* device[table]: what the device holds now
          pc,       \* "run", "done" or "failed"
          got,      \* the tables read so far, in order, with what was read
          verdict,  \* the findings
          during,   \* history: the states the device was in since the start
          changes

setting == <<audit, backend, policy, role, dualWan>>
vars == <<setting, device, pc, got, verdict, during, changes>>

-----------------------------------------------------------------------------
(* What a read returns.                                                    *)

\* redact: globally routable addresses are blanked out.
Redacted(address) == IF address = "public" THEN "redacted" ELSE address

\* A field with a dash in its RouterOS name is not there under its fixture
\* name: row.get falls back to "" or None.
Field(value, absent) == IF backend = "fixture" THEN value ELSE absent

ReadPort(p) == [p EXCEPT !.frames = Field(@, "")]
ReadVlan(r) == [r EXCEPT !.ids = Field(@, {})]
ReadRoute(r) == [r EXCEPT !.dst = Field(Redacted(@), "")]
ReadMark(x) == [x EXCEPT !.mark = Field(@, "")]
ReadQueue(q) == [q EXCEPT !.mark = Field(@, ""), !.limit = Field(@, "none")]
ReadRule(r) == [r EXCEPT !.input = Field(@, ""), !.output = Field(@, ""),
                         !.newDscp = Field(@, NoDscp),
                         !.mark = Field(@, ""), !.newMark = Field(@, "")]
ReadDns(d) == [d EXCEPT !.servers = Field(@, FALSE), !.doh = Field(@, FALSE),
                        !.dnssec = Field(@, FALSE)]
ReadBackup(b) == [b EXCEPT !.date = Field(@, "none")]
\* Live, the communities are always there, an empty list at least.
ReadSnmp(s) == [s EXCEPT !.there = Field(@, TRUE),
                         !.addresses = Field({Redacted(a) : a \in @}, {}),
                         !.community = Field(@, "")]

\* A table of a device in state s.
Read(s, table) ==
  LET there == s[table]
  IN CASE table = "version" -> there
       [] table = "snmp" -> ReadSnmp(there)
       [] table = "ports" -> {ReadPort(p) : p \in there}
       [] table = "vlans" -> {ReadVlan(r) : r \in there}
       [] table = "routes" -> {ReadRoute(r) : r \in there}
       [] table = "mangle" -> {ReadMark(x) : x \in there}
       [] table = "rules" -> [i \in DOMAIN there |-> ReadRule(there[i])]
       [] table = "dns" -> ReadDns(there)
       [] table = "backups" -> {ReadBackup(b) : b \in there}
       [] OTHER -> {ReadQueue(q) : q \in there}

\* An audit that needed no reading judges an empty table.
Seen(table) == IF table \in DOMAIN got THEN got[table] ELSE {}

\* get_queue_tree(...) or get_qos_queues(...)
Queues == IF Seen("tree") # {} THEN Seen("tree") ELSE Seen("simple")

\* What the audits of a file of their own read.
DscpReads == <<"rules">>
DeadMangleReads == <<"mangle">>
QosReads == <<"simple">>
DnsReads == <<"dns">>
BackupReads == <<"backups">>
MarkReads == IF "tree" \in DOMAIN got /\ Seen("tree") = {} THEN <<"mangle", "tree", "simple">>
                                                           ELSE <<"mangle", "tree">>

\* What the policy-backed audits read: most return early on a silent policy.
PolicyReads ==
  CASE audit = "firmware_drift" -> <<"version">>
    [] audit = "snmp_scope" -> <<"snmp">>
    [] audit = "default_route_sanity" -> <<"routes">>
    [] audit = "stp_edge" -> IF policy.edge = {} THEN <<>> ELSE <<"ports">>
    [] audit = "route_ownership" -> IF policy.owned = {} THEN <<>> ELSE <<"routes">>
    [] audit = "vlan_consistency" -> IF policy.vlans = {} THEN <<>> ELSE <<"vlans">>
    [] audit = "wan_failover_state" ->
         IF role \notin GatewayRoles \/ ~policy.primary THEN <<>> ELSE <<"routes">>
    [] audit = "trunk_vlan_sanity" ->
         IF DOMAIN policy.trunks = {} THEN <<>> ELSE <<"ports", "vlans">>

\* The tables the audit reads, as far as it knows by now.
Plan == CASE audit = "dscp_policy" -> DscpReads
          [] audit = "dead_mangle_rules" -> DeadMangleReads
          [] audit = "qos_state" -> QosReads
          [] audit = "encrypted_dns" -> DnsReads
          [] audit = "backup_retention" -> BackupReads
          [] audit = "mangle_queue_correlation" -> MarkReads
          [] OTHER -> PolicyReads

Judgement ==
  CASE audit = "firmware_drift" -> FirmwareDrift(policy, Seen("version"))
    [] audit = "snmp_scope" -> SnmpScope(policy, Seen("snmp"))
    [] audit = "default_route_sanity" -> DefaultRouteSanity(role, dualWan, Seen("routes"))
    [] audit = "stp_edge" -> StpEdge(policy, Seen("ports"))
    [] audit = "route_ownership" -> RouteOwnership(policy, Seen("routes"))
    [] audit = "vlan_consistency" -> VlanConsistency(policy, Seen("vlans"))
    [] audit = "wan_failover_state" -> WanFailoverState(policy, role, Seen("routes"))
    [] audit = "trunk_vlan_sanity" -> TrunkVlanSanity(policy, Seen("ports"), Seen("vlans"))
    [] audit = "mangle_queue_correlation" ->
         MangleQueueCorrelation(role, Seen("mangle"), Queues)
    [] audit = "dscp_policy" -> DscpPolicy(role, Seen("rules"))
    [] audit = "dead_mangle_rules" -> DeadMangleRules(role, Seen("mangle"))
    [] audit = "qos_state" -> QosState(Seen("simple"))
    [] audit = "encrypted_dns" -> EncryptedDns(policy, Seen("dns"))
    [] audit = "backup_retention" -> BackupRetention(Seen("backups"))

-----------------------------------------------------------------------------
\* The tables audit a may read at all: the others are left out of the state.
TablesOf(a) == CASE a = "firmware_drift" -> {"version"}
                 [] a = "snmp_scope" -> {"snmp"}
                 [] a = "stp_edge" -> {"ports"}
                 [] a = "vlan_consistency" -> {"vlans"}
                 [] a = "trunk_vlan_sanity" -> {"ports", "vlans"}
                 [] a = "mangle_queue_correlation" -> {"mangle", "tree", "simple"}
                 [] a = "dscp_policy" -> {"rules"}
                 [] a = "dead_mangle_rules" -> {"mangle"}
                 [] a = "qos_state" -> {"simple"}
                 [] a = "encrypted_dns" -> {"dns"}
                 [] a = "backup_retention" -> {"backups"}
                 [] OTHER -> {"routes"}

\* All ways to fill the tables ts.
Fillings(ts) == {f \in [ts -> UNION {Contents[t] : t \in ts}] : \A t \in ts : f[t] \in Contents[t]}

Init == /\ audit \in Audits
        /\ backend \in {"fixture", "api"}
        /\ policy \in Policies
        /\ \E place \in Places : role = place[1] /\ dualWan = place[2]
        /\ device \in Fillings(TablesOf(audit))
        /\ pc = "run"
        /\ got = <<>>
        /\ verdict = {}
        /\ during = {device}
        /\ changes = 0

Unread == {i \in DOMAIN Plan : Plan[i] \notin DOMAIN got}

\* A collector returns: the next table is read as it is now.
ReadTable == /\ pc = "run"
             /\ Unread # {}
             /\ LET table == Plan[CHOOSE i \in Unread : \A j \in Unread : i <= j]
                IN got' = [t \in DOMAIN got \cup {table} |->
                             IF t = table THEN Read(device, t) ELSE got[t]]
             /\ UNCHANGED <<setting, device, pc, verdict, during, changes>>

\* A collector raises ServiceError: the audit ends without a verdict.
ReadFails == /\ pc = "run"
             /\ Unread # {}
             /\ pc' = "failed"
             /\ UNCHANGED <<setting, device, got, verdict, during, changes>>

\* Everything is read: the AuditResult is returned.
Judge == /\ pc = "run"
         /\ Unread = {}
         /\ pc' = "done"
         /\ verdict' = Judgement
         /\ UNCHANGED <<setting, device, got, during, changes>>

\* The operator changes a table of the device, or captures the fixture again.
Change == /\ pc = "run"
          /\ changes < MaxChanges
          /\ changes' = changes + 1
          /\ \E t \in DOMAIN device : \E rows \in Contents[t] \ {device[t]} :
               device' = [device EXCEPT ![t] = rows]
          /\ during' = during \cup {device'}
          /\ UNCHANGED <<setting, pc, got, verdict>>

Next == ReadTable \/ ReadFails \/ Judge \/ Change

Spec == Init /\ [][Next]_vars

-----------------------------------------------------------------------------
(* What is wrong with a device, said of the device itself.                 *)

Fault(about, on, what) == [about |-> about, on |-> on, what |-> what]

Vlans(rows) == UNION {UNION r.ids : r \in rows}
FaultyTrunk(s, port) ==
  (IF \E r \in s.ports : r.interface = port THEN {} ELSE {Fault("port", port, 0)})
  \cup {Fault("tagged", port, v) : v \in {v \in policy.trunks[port] :
          \A r \in s.vlans : port \in r.tagged /\ v \in UNION r.ids => r.disabled}}
  \cup {Fault("pvid", port, 0) : r \in {r \in s.ports : r.interface = port /\ ~DefaultPvid(r)}}

\* Two versions with the same major and minor component.
SameMinor(current, expected) ==
  Len(current) >= Len(expected) /\ SubSeq(current, 1, Len(expected)) = expected

VlanNamed(v) == v # 1 \/ 1 \in policy.vlans
StaticVlans(rows) == Vlans({r \in rows : ~r.dynamic \/ 1 \in policy.vlans})

\* A fault of the marks is one with the queue tree or with the simple queues,
\* whichever are in use.
MarkFaults(s) ==
  LET inUse == IF s.tree # {} THEN "tree" ELSE "simple"
      queues == s[inUse]
  IN {Fault("marks", inUse, <<"queue", q>>) : q \in {q \in queues : q.disabled \/ q.invalid}}
     \cup {Fault("marks", inUse, <<"consumed", m>>) : m \in {m \in Marks(queues) :
             \A r \in s.mangle : r.mark = m => r.disabled}}
     \cup {Fault("marks", inUse, <<"produced", m>>) : m \in {m \in Marks(s.mangle) :
             \A q \in queues : q.mark # m}}

\* The rule sees what comes in on the WAN, before it is routed (RouterOS takes no
\* output interface there).
FromWan(rule) == ~rule.disabled /\ rule.chain = "prerouting"
                   /\ rule.input \in {"", "wan", "!iot"}

\* The rule sets the DSCP value of such a packet with value d and mark m to 0.
WashesPacket(rule, d, m) == /\ FromWan(rule)
                            /\ rule.action = "change-dscp" /\ rule.newDscp = 0
                            /\ rule.dscp \in {NoDscp, d} /\ rule.mark \in {"", m}

\* Some packet that comes in on the WAN with DSCP value d is accepted as it is:
\* a trust rule lets it through, by its value or whatever its value, and no
\* rule before has washed it.
Leaks(rules, d) ==
  \E i \in DOMAIN rules :
    /\ FromWan(rules[i]) /\ Trusts(rules[i]) /\ rules[i].dscp \in {d, NoDscp, OddDscp}
    /\ \A j \in 1..i - 1 : ~WashesPacket(rules[j], d, rules[i].mark)

RuleFaults(rules) ==
  {Fault("order", "", d) : d \in {d \in 1..63 : Leaks(rules, d)}}
  \cup {Fault("trust", "", i) : i \in {i \in DOMAIN rules :
          /\ ~rules[i].disabled /\ rules[i].action = "accept" /\ "trust" \in rules[i].comment
          /\ rules[i].dscp \notin 0..63}}
  \cup {Fault("orphaned", "", i) : i \in {i \in DOMAIN rules :
          /\ ~rules[i].disabled /\ rules[i].action = "change-dscp" /\ rules[i].mark # ""
          /\ \A j \in DOMAIN rules : rules[j].newMark = rules[i].mark => rules[j].disabled}}

Faults(s) ==
  CASE audit = "trunk_vlan_sanity" -> UNION {FaultyTrunk(s, p) : p \in DOMAIN policy.trunks}
    [] audit = "vlan_consistency" -> IF policy.vlans = {} THEN {} ELSE
         {Fault("missing", "", v) : v \in policy.vlans \ StaticVlans(s.vlans)}
         \cup {Fault("extra", "", v) : v \in {v \in StaticVlans(s.vlans) :
                                                v \notin policy.vlans /\ VlanNamed(v)}}
    [] audit = "stp_edge" ->
         {Fault("edge", "", p) : p \in {p \in policy.edge : \A r \in s.ports : r.interface # p}}
    [] audit = "route_ownership" ->
         {Fault("owned", "", d) : d \in {d \in policy.owned : \A r \in s.routes : r.dst # d}}
    [] audit = "firmware_drift" ->
         IF policy.version = <<>> \/ SameMinor(s.version, policy.version) THEN {}
         ELSE {Fault("version", "", s.version)}
    [] audit = "snmp_scope" ->
         (IF policy.access = {} THEN {}
          ELSE {Fault("access", "", a) : a \in s.snmp.addresses \ policy.access})
         \cup {Fault("community", "", c) : c \in IF policy.communities = {} THEN {}
                                                 ELSE {s.snmp.community} \ policy.communities}
    [] audit = "mangle_queue_correlation" -> MarkFaults(s)
    [] audit = "dscp_policy" -> RuleFaults(s.rules)
    [] audit = "dead_mangle_rules" ->
         {Fault("dead", "", r) : r \in {r \in s.mangle : r.disabled \/ r.leftover}}
    [] audit = "qos_state" -> IF \E q \in s.simple : q.limit # "none" THEN {}
         ELSE {Fault(IF s.simple = {} THEN "queues" ELSE "limit", "", 0)}
    [] audit = "encrypted_dns" ->
         IF ~policy.encrypted \/ (s.dns.there /\ s.dns.servers /\ (s.dns.doh \/ s.dns.dnssec))
         THEN {} ELSE {Fault("dns", "", 0)}
    [] audit = "backup_retention" ->
         IF Cardinality(s.backups) >= 2 /\ \E b \in s.backups : b.date = "recent"
         THEN {} ELSE {Fault("backups", "", 0)}
    [] OTHER -> \* the two audits of default routes
         IF \E r \in s.routes : r.dst = "default" THEN {} ELSE {Fault("default", "", 0)}

-----------------------------------------------------------------------------
(* Where what the audit reads can be compared with the policy at all; the  *)
(* README says what happens elsewhere.                                     *)

\* The fields the audit looks at are there under the names it uses.
KeysSurvive ==
  backend = "fixture" \/ audit \in {"firmware_drift", "stp_edge", "dead_mangle_rules"}

\* No VLAN range, no wash rule whose interface or comment names the WAN and
\* that does not match all its packets, and nothing in the policy that redaction
\* would change.
Comparable(s) == /\ "vlans" \in DOMAIN s =>
                      \A r \in s.vlans : \A part \in r.ids : Cardinality(part) = 1
                 /\ "public" \notin policy.owned \cup policy.access
                 /\ ("version" \in DOMAIN s /\ StartsWith(s.version, policy.version))
                      => SameMinor(s.version, policy.version)
                 /\ "rules" \in DOMAIN s =>
                      \A w \in WanWashes(s.rules) :
                        /\ FromWan(s.rules[w])
                        /\ s.rules[w].dscp = NoDscp /\ s.rules[w].mark = ""

Faithful == KeysSurvive /\ \A s \in during : Comparable(s)

-----------------------------------------------------------------------------
Finding == [status : {"pass", "warn", "fail", "unknown", "skip"},
            about : {"policy", "data", "role", "version", "edge", "owned", "access",
                     "community", "missing", "extra", "vlans", "port", "tagged", "pvid",
                     "trunks", "default", "second", "marks", "rules", "trust", "wash",
                     "order", "sets", "values", "orphaned", "disabled", "dead", "queues",
                     "limit", "dns", "encryption", "dates", "backups"},
            on : {""} \cup UNION {DOMAIN p.trunks : p \in Policies}]

TypeOK == /\ audit \in Audits /\ backend \in {"fixture", "api"} /\ policy \in Policies
          /\ <<role, dualWan>> \in Places
          /\ device \in Fillings(TablesOf(audit))
          /\ pc \in {"run", "done", "failed"}
          /\ DOMAIN got \subseteq TablesOf(audit)
          /\ verdict \subseteq Finding
          /\ (pc = "done") = (verdict # {})
          /\ device \in during
          /\ changes \in 0..MaxChanges

\* What stays wrong with a device from the start of an audit to its end is
\* reported, although the tables are read at different times and anything else
\* may change between the reads: a pass never hides a lasting fault.
LastingFaultIsReported ==
  (pc = "done" /\ Faithful) =>
    \A f \in Faults(CHOOSE s \in during : TRUE) :
      (\A s \in during : f \in Faults(s)) => \E v \in verdict : v.status # "pass"

\* A failure is never put together from two moments: each fail is about
\* something that was wrong with the device, and that port, at some one moment
\* of the audit.
FailureWasThere ==
  (pc = "done" /\ Faithful) =>
    \A v \in verdict : v.status = "fail" =>
      \E s \in during : \E f \in Faults(s) : f.about = v.about /\ f.on = v.on

\* Where the policy is silent the verdict is "unknown" (or "skip", for a device
\* the audit is not meant for), whatever the device holds and the audit read.
Silent == \/ audit = "firmware_drift" /\ policy.version = <<>>
          \/ audit = "stp_edge" /\ policy.edge = {}
          \/ audit = "route_ownership" /\ policy.owned = {}
          \/ audit = "vlan_consistency" /\ policy.vlans = {}
          \/ audit = "trunk_vlan_sanity" /\ DOMAIN policy.trunks = {}
          \/ audit = "wan_failover_state" /\ ~policy.primary
          \/ audit = "snmp_scope" /\ NoSnmpPolicy(policy)
SilentPolicyIsUnknown ==
  (pc = "done" /\ Silent) => \A v \in verdict : v.status \in {"unknown", "skip"}

\* Where dscp_policy finds the WAN wash in order before the trust rules, and
\* nothing fails, no packet keeps the DSCP value it brought from the WAN because
\* a trust rule accepts it first: wherever the rules are, whichever are disabled
\* or negated, and whether the trust rule asks for a value or for none.
OrderPassed == /\ pc = "done" /\ audit = "dscp_policy" /\ Faithful
               /\ Found("pass", "order", "") \in verdict
CleanOrderMeansWashed ==
  (OrderPassed /\ \A v \in verdict : v.status # "fail")
    => \E s \in during : \A d \in 1..63 : ~Leaks(s.rules, d)

-----------------------------------------------------------------------------
(* What the documentation says and the code does not do.                   *)

\* audits/base.py:4: "Missing policy or evidence yields unknown".  Rows in
\* which no field has the name the audit looks for are no evidence.
EvidenceMissing ==
  \/ Seen("vlans") # {} /\ \A r \in Seen("vlans") : r.ids = {}
  \/ Seen("routes") # {} /\ \A r \in Seen("routes") : r.dst = ""
MissingEvidenceIsUnknown ==
  (pc = "done" /\ EvidenceMissing) => \A v \in verdict : v.status \in {"unknown", "skip"}

\* audits/dscp.py:232: the finding says "WAN DSCP wash is ordered before broad
\* trust exceptions".  A trust rule that asks for no value is the broadest.
OrderPassMeansWashed ==
  OrderPassed => \E s \in during : \A d \in 1..63 : ~Leaks(s.rules, d)

\* audits/policy_backed.py:533: route_ownership checks "that device routes
\* match policy-owned prefixes".  It fails only if a prefix is not routed.
OwnedRouteIsFound ==
  (pc = "done" /\ audit = "route_ownership" /\ backend = "fixture"
     /\ \E v \in verdict : v.status = "fail") => \E s \in during : Faults(s) # {}

==============================================================================
