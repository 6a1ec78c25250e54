---------------------------- MODULE AuditRunProofs ----------------------------
(***************************************************************************)
(* Proofs about AuditRun, for any policies, tables, roles and number of     *)
(* changes: every audit ends with findings, a silent policy is never a pass *)
(* or a failure, a pass never hides a lasting fault, a failure is never put *)
(* together from two moments, and what dscp_policy says of the order of its *)
(* rules holds of a moment of the device.                                  *)
(*                                                                         *)
(* All of them rest on one invariant, WasRead: each table an audit has read *)
(* is as the device held it at some moment of the audit, and the verdict is *)
(* the judgement of those tables.  What is left is then about the audits as *)
(* functions: for the twelve that read one table the verdict Agrees with    *)
(* the faults of the moment it was read.                                   *)
(***************************************************************************)
EXTENDS AuditRun, SequenceTheorems, TLAPS

-----------------------------------------------------------------------------
(* What an audit judges: each table as it was at a moment of its run.       *)

WasRead ==
  /\ audit \in Audits /\ backend \in {"fixture", "api"} /\ policy \in Policies
  /\ <<role, dualWan>> \in Places
  /\ device \in during /\ during \subseteq Fillings(TablesOf(audit))
  /\ pc \in {"run", "done", "failed"}
  /\ DOMAIN got \subseteq TablesOf(audit)
  /\ \A t \in DOMAIN got : \E s \in during : got[t] = Read(s, t)
  /\ IF pc = "done" THEN Unread = {} /\ verdict = Judgement ELSE verdict = {}
  /\ changes \in 0..MaxChanges

\* The audit reads tables of its own only, and the next one is one of them.
LEMMA PlanIsOfAudit ==
  ASSUME audit \in Audits
  PROVE  /\ DOMAIN Plan \subseteq 1..3
         /\ \A i \in DOMAIN Plan : Plan[i] \in TablesOf(audit)
<1>1. CASE audit \in {"firmware_drift", "snmp_scope", "default_route_sanity", "dscp_policy"}
  BY <1>1 DEF Plan, PolicyReads, DscpReads, TablesOf
<1>2. CASE audit \in {"dead_mangle_rules", "qos_state", "encrypted_dns", "backup_retention"}
  BY <1>2 DEF Plan, DeadMangleReads, QosReads, DnsReads, BackupReads, TablesOf
<1>3. CASE audit \in {"stp_edge", "route_ownership", "vlan_consistency", "wan_failover_state"}
  BY <1>3 DEF Plan, PolicyReads, TablesOf
<1>4. CASE audit \in {"trunk_vlan_sanity", "mangle_queue_correlation"}
  BY <1>4 DEF Plan, PolicyReads, MarkReads, TablesOf
<1> QED
  BY <1>1, <1>2, <1>3, <1>4 DEF Audits

LEMMA NextIsOfAudit ==
  ASSUME audit \in Audits, Unread # {}
  PROVE  Plan[CHOOSE i \in Unread : \A j \in Unread : i <= j] \in TablesOf(audit)
<1>1. Unread \subseteq 1..3 /\ Unread \subseteq DOMAIN Plan
  BY PlanIsOfAudit DEF Unread
<1>2. \E i \in Unread : \A j \in Unread : i <= j
  <2>1. Unread \subseteq {1, 2, 3}
    BY <1>1
  <2>2. CASE 1 \in Unread
    BY <2>1, <2>2
  <2>3. CASE 1 \notin Unread /\ 2 \in Unread
    BY <2>1, <2>3
  <2>4. CASE 1 \notin Unread /\ 2 \notin Unread
    <3>1. Unread = {3}
      BY <2>1, <2>4
    <3> QED
      BY <3>1
  <2> QED
    BY <2>2, <2>3, <2>4
<1> QED
  BY <1>1, <1>2, PlanIsOfAudit

\* What a read returns, and what an audit plans and judges, hangs on its
\* setting and on what it has read.
LEMMA SameSetting ==
  ASSUME UNCHANGED setting
  PROVE  /\ \A s, t : Read(s, t)' = Read(s, t)
         /\ Fillings(TablesOf(audit))' = Fillings(TablesOf(audit))
         /\ TablesOf(audit)' = TablesOf(audit)
         /\ UNCHANGED got => Unread' = Unread /\ Judgement' = Judgement
<1>1. \A s, t : Read(s, t)' = Read(s, t)
  BY DEF setting, Read, ReadPort, ReadVlan, ReadRoute, ReadMark, ReadQueue, ReadRule, ReadDns,
         ReadBackup, ReadSnmp, Field
<1>2. UNCHANGED got => Unread' = Unread /\ Judgement' = Judgement
  BY DEF setting, Unread, Plan, PolicyReads, DscpReads, DeadMangleReads, QosReads, DnsReads,
         BackupReads, MarkReads, Judgement, Seen, Queues
<1> QED
  BY <1>1, <1>2 DEF setting, TablesOf

LEMMA SettingIsFixed == ASSUME [Next]_vars PROVE UNCHANGED setting
<1>1. CASE ReadTable \/ ReadFails \/ Judge \/ Change
  BY <1>1 DEF ReadTable, ReadFails, Judge, Change
<1>2. CASE UNCHANGED vars
  BY <1>2 DEF vars
<1> QED
  BY <1>1, <1>2 DEF Next

\* A device of which one table is changed is still a device.
LEMMA ChangeFills ==
  ASSUME NEW ts, NEW s \in Fillings(ts), NEW t \in DOMAIN s, NEW rows \in Contents[t]
  PROVE  [s EXCEPT ![t] = rows] \in Fillings(ts)
BY DEF Fillings

LEMMA WasReadInvariant == ASSUME AuditRunAssumption PROVE Spec => []WasRead
<1>1. Init => WasRead
  <2> SUFFICES ASSUME Init PROVE WasRead
    OBVIOUS
  <2>1. <<role, dualWan>> \in Places
    <3>1. PICK place \in Places : role = place[1] /\ dualWan = place[2]
      BY DEF Init
    <3>2. place = <<place[1], place[2]>>
      BY DEF AuditRunAssumption
    <3> QED
      BY <3>1, <3>2
  <2>2. DOMAIN got = {}
    BY DEF Init
  <2>3. changes \in 0..MaxChanges
    BY DEF Init, AuditRunAssumption
  <2> QED
    BY <2>1, <2>2, <2>3 DEF Init, WasRead
<1>2. WasRead /\ [Next]_vars => WasRead'
  <2> SUFFICES ASSUME WasRead, [Next]_vars PROVE WasRead'
    OBVIOUS
  <2> UNCHANGED setting
    BY SettingIsFixed
  <2>1. /\ \A s, t : Read(s, t)' = Read(s, t)
        /\ Fillings(TablesOf(audit))' = Fillings(TablesOf(audit))
        /\ TablesOf(audit)' = TablesOf(audit)
        /\ UNCHANGED got => Unread' = Unread /\ Judgement' = Judgement
    BY SameSetting
  <2>2. UNCHANGED <<audit, backend, policy, role, dualWan>>
    BY DEF setting
  <2>3. CASE ReadTable
    <3> DEFINE table == Plan[CHOOSE i \in Unread : \A j \in Unread : i <= j]
    <3>1. table \in TablesOf(audit)
      BY <2>3, NextIsOfAudit DEF ReadTable, WasRead
    <3>2. got' = [t \in DOMAIN got \cup {table} |-> IF t = table THEN Read(device, t) ELSE got[t]]
      BY <2>3 DEF ReadTable
    <3>3. UNCHANGED <<device, pc, verdict, during, changes>> /\ pc = "run"
      BY <2>3 DEF ReadTable
    <3> HIDE DEF table
    <3>4. \A t \in DOMAIN got' : \E s \in during : got'[t] = Read(s, t)
      BY <3>2 DEF WasRead
    <3>5. DOMAIN got' \subseteq TablesOf(audit)
      BY <3>1, <3>2 DEF WasRead
    <3> QED
      BY <2>1, <2>2, <3>3, <3>4, <3>5 DEF WasRead
  <2>4. CASE ReadFails
    BY <2>1, <2>2, <2>4 DEF ReadFails, WasRead
  <2>5. CASE Judge
    BY <2>1, <2>2, <2>5 DEF Judge, WasRead
  <2>6. CASE Change
    <3>1. PICK t \in DOMAIN device : \E rows \in Contents[t] : device' = [device EXCEPT ![t] = rows]
      BY <2>6 DEF Change
    <3>2. device' \in Fillings(TablesOf(audit))
      <4>1. PICK rows \in Contents[t] : device' = [device EXCEPT ![t] = rows]
        BY <3>1
      <4>2. device \in Fillings(TablesOf(audit))
        BY DEF WasRead
      <4> QED
        BY <4>1, <4>2, ChangeFills
    <3>3. changes' \in 0..MaxChanges
      BY <2>6 DEF Change, WasRead, AuditRunAssumption
    <3>4. during' = during \cup {device'} /\ UNCHANGED <<pc, got, verdict>> /\ pc = "run"
      BY <2>6 DEF Change
    <3>5. \A u \in DOMAIN got' : \E s \in during' : got'[u] = Read(s, u)
      BY <3>4 DEF WasRead
    <3> QED
      BY <2>1, <2>2, <3>2, <3>3, <3>4, <3>5 DEF WasRead
  <2>7. CASE UNCHANGED vars
    BY <2>1, <2>2, <2>7 DEF vars, WasRead
  <2> QED
    BY <2>3, <2>4, <2>5, <2>6, <2>7 DEF Next
<1> QED
  BY <1>1, <1>2, PTL DEF Spec

-----------------------------------------------------------------------------
(* Where the policy is silent.                                             *)

\* An audit with one finding.
LEMMA OnlyFields ==
  ASSUME NEW st, NEW ab, NEW v \in Only(st, ab)
  PROVE  v.status = st /\ v.about = ab /\ v.on = ""
<1>1. v = [status |-> st, about |-> ab, on |-> ""]
  BY DEF Only, Found
<1> QED
  BY <1>1

LEMMA OnlyNeither ==
  ASSUME NEW st, NEW ab, NEW x, st # x
  PROVE  \E v \in Only(st, ab) : v.status # x
<1>1. Found(st, ab, "") \in Only(st, ab)
  BY DEF Only
<1>2. Found(st, ab, "").status = st
  BY DEF Found
<1> QED
  BY <1>1, <1>2

LEMMA SilentJudgement ==
  ASSUME Silent PROVE \A v \in Judgement : v.status \in {"unknown", "skip"}
<1>1. \A v \in NoPolicy \cup Only("skip", "role") : v.status \in {"unknown", "skip"}
  BY OnlyFields DEF NoPolicy
<1>2. CASE audit = "firmware_drift" /\ policy.version = <<>>
  BY <1>1, <1>2 DEF Judgement, FirmwareDrift
<1>3. CASE audit = "stp_edge" /\ policy.edge = {}
  BY <1>1, <1>3 DEF Judgement, StpEdge
<1>4. CASE audit = "route_ownership" /\ policy.owned = {}
  BY <1>1, <1>4 DEF Judgement, RouteOwnership
<1>5. CASE audit = "vlan_consistency" /\ policy.vlans = {}
  BY <1>1, <1>5 DEF Judgement, VlanConsistency
<1>6. CASE audit = "trunk_vlan_sanity" /\ DOMAIN policy.trunks = {}
  BY <1>1, <1>6 DEF Judgement, TrunkVlanSanity
<1>7. CASE audit = "wan_failover_state" /\ ~policy.primary
  BY <1>1, <1>7 DEF Judgement, WanFailoverState
<1>8. CASE audit = "snmp_scope" /\ NoSnmpPolicy(policy)
  BY <1>1, <1>8 DEF Judgement, SnmpScope
<1> QED
  BY <1>2, <1>3, <1>4, <1>5, <1>6, <1>7, <1>8 DEF Silent

\* A policy that says nothing makes no audit pass or fail a device, whatever was
\* read of it, and whatever changed meanwhile.
THEOREM SilenceIsUnknown == ASSUME AuditRunAssumption PROVE Spec => []SilentPolicyIsUnknown
<1>1. WasRead => SilentPolicyIsUnknown
  BY SilentJudgement DEF WasRead, SilentPolicyIsUnknown
<1> QED
  BY <1>1, WasReadInvariant, PTL

-----------------------------------------------------------------------------
(* The order of the wash and the trust rules.                              *)

\* What is called a wash of the WAN washes all that comes in there.
WashesMatch(rules) == \A w \in WanWashes(rules) :
                        FromWan(rules[w]) /\ rules[w].dscp = NoDscp /\ rules[w].mark = ""

\* Trust rule i lets through a packet with value d that no rule has washed.
LetsThrough(rules, d, i) ==
  /\ FromWan(rules[i]) /\ Trusts(rules[i])
  /\ \A j \in 1..i - 1 : ~WashesPacket(rules[j], d, rules[i].mark)

\* An order found to be right is right: a trust rule that accepts a WAN packet by
\* its value comes after a rule that washes it.
LEMMA OrderIsRight ==
  ASSUME NEW rules \in Seq(RuleType), OrderFindings(rules) = Only("pass", "order"),
         WashesMatch(rules), NEW d \in 1..63, NEW i \in DOMAIN rules, rules[i].dscp = d
  PROVE  ~LetsThrough(rules, d, i)
<1> SUFFICES ASSUME FromWan(rules[i]), Trusts(rules[i]),
                    \A j \in 1..i - 1 : ~WashesPacket(rules[j], d, rules[i].mark)
             PROVE  FALSE
  BY DEF LetsThrough
<1> DEFINE early == {k \in EnabledAt(rules) : /\ Trusts(rules[k]) /\ rules[k].dscp # NoDscp
                                             /\ TrustMayIncludeWan(rules[k])
                                             /\ \A w \in WanWashes(rules) : k < w}
<1>1. DOMAIN rules = 1..Len(rules) /\ Len(rules) \in Nat
  OBVIOUS
<1>2. OrderFindings(rules) = IF WanWashes(rules) = {} THEN {}
                             ELSE Only(IF early # {} THEN "warn" ELSE "pass", "order")
  BY DEF OrderFindings
<1>3. WanWashes(rules) # {} /\ early = {}
  <2>1. Found("warn", "order", "") # Found("pass", "order", "")
    BY DEF Found
  <2> QED
    BY <1>2, <2>1 DEF Only
<1>4. i \in EnabledAt(rules) /\ rules[i].dscp # NoDscp /\ TrustMayIncludeWan(rules[i])
  <2>1. i \in EnabledAt(rules)
    BY DEF EnabledAt, FromWan
  <2>2. rules[i].dscp # NoDscp
    <3>1. d # 64
      OBVIOUS
    <3> QED
      BY <3>1 DEF NoDscp
  <2>3. TrustMayIncludeWan(rules[i])
    BY DEF FromWan, TrustMayIncludeWan, MatchesWan
  <2> QED
    BY <2>1, <2>2, <2>3
<1>5. PICK w \in WanWashes(rules) : ~(i < w)
  BY <1>3, <1>4
<1>6. /\ w \in 1..Len(rules) /\ rules[w] \in RuleType
      /\ rules[w].action = "change-dscp" /\ DscpValue(rules[w].newDscp) = 0
  BY <1>1, <1>5 DEF WanWashes, EnabledAt, Washes
<1>7. rules[w].newDscp = 0
  BY <1>6 DEF DscpValue, NoDscp, OddDscp, RuleType
<1>8. w # i
  BY <1>6 DEF Trusts
<1>9. w \in 1..i - 1
  BY <1>1, <1>5, <1>6, <1>8
<1>10. WashesPacket(rules[w], d, rules[i].mark)
  BY <1>5, <1>6, <1>7 DEF WashesMatch, WashesPacket
<1> QED
  BY <1>9, <1>10

\* Only OrderFindings speaks of the order, and then TrustFindings is heard, too.
LEMMA OrderFromOrder ==
  ASSUME NEW rules, Found("pass", "order", "") \in DscpPolicy(role, rules)
  PROVE  /\ OrderFindings(rules) = Only("pass", "order") /\ WanWashes(rules) # {}
         /\ TrustFindings(rules) \subseteq DscpPolicy(role, rules)
<1> DEFINE order == Found("pass", "order", "")
<1>1. \A status, about : about # "order" => order \notin Only(status, about)
  BY DEF Only, Found
<1>2. order \notin TrustFindings(rules)
  BY <1>1 DEF TrustFindings
<1>3. order \notin WashFindings(rules)
  BY <1>1 DEF WashFindings
<1>4. order \notin SetFindings(rules)
  BY <1>1 DEF SetFindings
<1>5. order \in OrderFindings(rules)
  BY <1>1, <1>2, <1>3, <1>4 DEF DscpPolicy
<1>6. OrderFindings(rules) = Only("pass", "order") /\ WanWashes(rules) # {}
  BY <1>5 DEF OrderFindings, Only, Found
<1>7. TrustFindings(rules) \subseteq DscpPolicy(role, rules)
  BY <1>1 DEF DscpPolicy
<1> QED
  BY <1>6, <1>7

\* Each table the audit planned to read was read at some moment.
LEMMA SeenThen ==
  ASSUME WasRead, pc = "done", NEW i \in DOMAIN Plan
  PROVE  \E s \in during : Seen(Plan[i]) = Read(s, Plan[i])
BY DEF WasRead, Unread, Seen

LEMMA SeenOnly ==
  ASSUME WasRead, pc = "done", NEW t, Plan = <<t>>
  PROVE  \E s \in during : Seen(t) = Read(s, t)
<1>1. 1 \in DOMAIN <<t>>
  OBVIOUS
<1>2. <<t>>[1] = t
  OBVIOUS
<1> QED
  BY <1>1, <1>2, SeenThen

\* A fixture's fields have the names the audits look for: what they read is what
\* is there, but for the addresses.
LEMMA RowsAreRead ==
  ASSUME backend = "fixture"
  PROVE  /\ \A p \in PortType : ReadPort(p) = p
         /\ \A r \in VlanType : ReadVlan(r) = r
         /\ \A x \in MarkType : ReadMark(x) = x
         /\ \A q \in QueueType : ReadQueue(q) = q
         /\ \A rule \in RuleType : ReadRule(rule) = rule
         /\ \A d \in TableTypes.dns : ReadDns(d) = d
         /\ \A b \in BackupType : ReadBackup(b) = b
<1>1. \A value, absent : Field(value, absent) = value
  BY DEF Field
<1>2. \A p \in PortType : ReadPort(p) = p
  BY <1>1 DEF PortType, ReadPort
<1>3. \A r \in VlanType : ReadVlan(r) = r
  BY <1>1 DEF VlanType, ReadVlan
<1>4. \A x \in MarkType : ReadMark(x) = x
  BY <1>1 DEF MarkType, ReadMark
<1>5. \A q \in QueueType : ReadQueue(q) = q
  BY <1>1 DEF QueueType, ReadQueue
<1>6. \A rule \in RuleType : ReadRule(rule) = rule
  BY <1>1 DEF RuleType, ReadRule
<1>7. \A d \in TableTypes.dns : ReadDns(d) = d
  <2>1. TableTypes.dns = [there : BOOLEAN, servers : BOOLEAN, doh : BOOLEAN, dnssec : BOOLEAN]
    BY DEF TableTypes
  <2>2. SUFFICES ASSUME NEW d \in TableTypes.dns PROVE ReadDns(d) = d
      OBVIOUS
  <2>3. d = [there |-> d.there, servers |-> d.servers, doh |-> d.doh, dnssec |-> d.dnssec]
      BY <2>1
  <2>4. /\ Field(d.servers, FALSE) = d.servers /\ Field(d.doh, FALSE) = d.doh
          /\ Field(d.dnssec, FALSE) = d.dnssec
      BY DEF Field
  <2> QED
    BY <2>3, <2>4, Zenon DEF ReadDns
<1>8. \A b \in BackupType : ReadBackup(b) = b
  BY <1>1 DEF BackupType, ReadBackup
<1> QED
  BY <1>2, <1>3, <1>4, <1>5, <1>6, <1>7, <1>8

\* What a device holds is of the table's type.
LEMMA FillingTypes ==
  ASSUME AuditRunAssumption, NEW ts, NEW s \in Fillings(ts), NEW t \in ts, ts \subseteq Tables
  PROVE  s[t] \in TableTypes[t] /\ DOMAIN s = ts
BY DEF AuditRunAssumption, Fillings

LEMMA FixtureIsRead ==
  ASSUME AuditRunAssumption, backend = "fixture", NEW ts, NEW s \in Fillings(ts), ts \subseteq Tables,
         NEW t \in ts, t \notin {"routes", "snmp"}
  PROVE  Read(s, t) = s[t]
<1>1. s[t] \in TableTypes[t]
  BY FillingTypes
<1>2. CASE t = "version"
  BY <1>2 DEF Read
<1>3. CASE t = "ports"
  BY <1>1, <1>3, RowsAreRead DEF Read, TableTypes
<1>4. CASE t = "vlans"
  BY <1>1, <1>4, RowsAreRead DEF Read, TableTypes
<1>5. CASE t = "mangle"
  BY <1>1, <1>5, RowsAreRead DEF Read, TableTypes
<1>6. CASE t \in {"tree", "simple"}
  <2>1. TableTypes[t] = SUBSET QueueType
    BY <1>6 DEF TableTypes
  <2>2. Read(s, t) = {ReadQueue(q) : q \in s[t]}
    BY <1>6 DEF Read
  <2> QED
    BY <1>1, <2>1, <2>2, RowsAreRead
<1>7. CASE t = "rules"
  <2>1. s[t] \in Seq(RuleType)
    BY <1>1, <1>7 DEF TableTypes
  <2>2. s[t] \in [1..Len(s[t]) -> RuleType]
    BY <2>1, LenProperties
  <2>3. /\ \A i \in DOMAIN s[t] : s[t][i] \in RuleType
        /\ s[t] = [i \in DOMAIN s[t] |-> s[t][i]]
    BY <2>2
  <2> QED
    BY <1>7, <2>3, RowsAreRead DEF Read
<1>8. CASE t = "dns"
  BY <1>1, <1>8, RowsAreRead DEF Read
<1>9. CASE t = "backups"
  BY <1>1, <1>9, RowsAreRead DEF Read, TableTypes
<1> QED
  BY <1>2, <1>3, <1>4, <1>5, <1>6, <1>7, <1>8, <1>9 DEF Tables

LEMMA TablesOfAudit == ASSUME audit \in Audits PROVE TablesOf(audit) \subseteq Tables
BY DEF Audits, TablesOf, Tables

-----------------------------------------------------------------------------
(* Verdicts and faults.  An audit of one table judges one moment, and its     *)
(* verdict agrees with what was wrong with the device at that moment.         *)

Speaks(found) == \E v \in found : v.status # "pass"
Failures(found) == {v \in found : v.status = "fail"}
Names(v, f) == f.about = v.about /\ f.on = v.on

Reports(s, found) == Faults(s) # {} => Speaks(found)
Justified(s, found) == \A v \in Failures(found) : \E f \in Faults(s) : Names(v, f)
Agrees(s, found) == Reports(s, found) /\ Justified(s, found)

LEMMA FaultFields ==
  \A about, on, what : Fault(about, on, what).about = about /\ Fault(about, on, what).on = on
BY DEF Fault

LEMMA FoundFields ==
  \A status, about, on : /\ Found(status, about, on).status = status
                         /\ Found(status, about, on).about = about
                         /\ Found(status, about, on).on = on
BY DEF Found

LEMMA OnlySpeaks ==
  ASSUME NEW st, NEW ab, st # "pass"
  PROVE  Speaks(Only(st, ab))
BY OnlyNeither DEF Speaks

LEMMA MoreSpeaks ==
  ASSUME NEW A, NEW B, A \subseteq B, Speaks(A)
  PROVE  Speaks(B)
BY DEF Speaks

LEMMA OnlyFails ==
  ASSUME NEW st, NEW ab, st # "fail"
  PROVE  Failures(Only(st, ab)) = {}
<1>1. ASSUME NEW v \in Only(st, ab) PROVE v.status = st
  BY OnlyFields
<1> QED
  BY <1>1 DEF Failures

LEMMA UnionFails ==
  ASSUME NEW A, NEW B
  PROVE  Failures(A \cup B) = Failures(A) \cup Failures(B) /\ Failures(A) \subseteq A
BY DEF Failures

LEMMA OnlyNames ==
  ASSUME NEW st, NEW ab, NEW what, NEW v \in Only(st, ab)
  PROVE  Names(v, Fault(ab, "", what))
<1>1. v.about = ab /\ v.on = ""
  BY OnlyFields
<1>2. Fault(ab, "", what).about = ab /\ Fault(ab, "", what).on = ""
  BY FaultFields
<1> QED
  BY <1>1, <1>2 DEF Names

LEMMA PassAgrees ==
  ASSUME NEW s, NEW about, Faults(s) = {}
  PROVE  Agrees(s, Only("pass", about))
BY OnlyFields DEF Agrees, Reports, Justified, Speaks, Failures, Names

LEMMA FailAgrees ==
  ASSUME NEW s, NEW about, NEW what, Fault(about, "", what) \in Faults(s)
  PROVE  Agrees(s, Only("fail", about))
<1>1. Speaks(Only("fail", about))
  BY OnlySpeaks
<1>2. \A v \in Only("fail", about) : Names(v, Fault(about, "", what))
  BY OnlyNames
<1> QED
  BY <1>1, <1>2 DEF Agrees, Reports, Justified, Failures

\* A verdict that neither passes nor fails.
LEMMA NeitherAgrees ==
  ASSUME NEW s, NEW status \in {"unknown", "skip", "warn"}, NEW about
  PROVE  Agrees(s, Only(status, about))
<1>1. status # "pass" /\ status # "fail"
  OBVIOUS
<1> QED
  BY <1>1, OnlySpeaks, OnlyFails DEF Agrees, Reports, Justified

\* Findings put together are as good as one of them, if the others are justified.
LEMMA UnionAgrees ==
  ASSUME NEW s, NEW A, NEW B, Agrees(s, A), Justified(s, B)
  PROVE  Agrees(s, A \cup B) /\ Agrees(s, B \cup A)
BY DEF Agrees, Reports, Justified, Speaks, Failures, Names

\* A version that begins as the policy says has the minor version it says, and,
\* where the two can be compared, the other way round.
LEMMA MinorStarts ==
  ASSUME NEW current, NEW expected \in Seq(Seq(Nat)), SameMinor(current, expected),
         current \in Seq(Seq(Nat))
  PROVE  StartsWith(current, expected)
<1> DEFINE n == Len(expected)
<1>1. n \in Nat /\ n <= Len(current) /\ SubSeq(current, 1, n) = expected
  BY DEF SameMinor
<1>2. \A i \in 1..n : current[i] = expected[i]
  <2>1. ASSUME NEW i \in 1..n PROVE SubSeq(current, 1, n)[i] = current[i]
    BY <1>1
  <2> QED
    BY <1>1, <2>1
<1>3. ASSUME n > 0 PROVE IsPrefix(expected[n], current[n])
  <2>1. expected[n] \in Seq(Nat) /\ current[n] = expected[n]
    BY <1>1, <1>2, <1>3
  <2> QED
    BY <2>1 DEF IsPrefix
<1>4. \A i \in 1..n - 1 : current[i] = expected[i]
  BY <1>1, <1>2
<1> QED
  BY <1>1, <1>3, <1>4 DEF StartsWith

LEMMA FirmwareAgrees ==
  ASSUME AuditRunAssumption, audit = "firmware_drift", policy \in Policies,
         NEW s \in Fillings({"version"}), Comparable(s), Seen("version") = s.version
  PROVE  Agrees(s, Judgement)
<1>1. s.version \in Seq(Seq(Nat)) /\ DOMAIN s = {"version"}
  BY FillingTypes DEF Tables, TableTypes
<1>2. policy.version \in Seq(Seq(Nat))
  BY DEF AuditRunAssumption
<1>3. Judgement = FirmwareDrift(policy, s.version)
  BY DEF Judgement
<1>4. Faults(s) = IF policy.version = <<>> \/ SameMinor(s.version, policy.version) THEN {}
                  ELSE {Fault("version", "", s.version)}
  BY DEF Faults
<1>5. CASE policy.version = <<>>
  BY <1>3, <1>5, NeitherAgrees DEF FirmwareDrift, NoPolicy
<1>6. CASE policy.version # <<>> /\ StartsWith(s.version, policy.version)
  <2>1. Faults(s) = {}
    BY <1>1, <1>4, <1>6 DEF Comparable
  <2> QED
    BY <1>3, <1>6, <2>1, PassAgrees DEF FirmwareDrift
<1>7. CASE policy.version # <<>> /\ ~StartsWith(s.version, policy.version)
  <2>1. Faults(s) = {Fault("version", "", s.version)}
    BY <1>1, <1>2, <1>4, <1>7, MinorStarts
  <2> QED
    BY <1>3, <1>7, <2>1, FailAgrees DEF FirmwareDrift
<1> QED
  BY <1>5, <1>6, <1>7

\* Of a port only its name is looked at, which every backend gives alike.
LEMMA EdgeAgrees ==
  ASSUME audit = "stp_edge", NEW s, Seen("ports") = Read(s, "ports"), policy.edge # {},
         s.ports \subseteq PortType
  PROVE  Agrees(s, Judgement)
<1> DEFINE names == {p.interface : p \in s.ports}
<1>1. {p.interface : p \in Seen("ports")} = names
  <2>1. Seen("ports") = {ReadPort(p) : p \in s.ports}
    BY DEF Read
  <2>2. \A p \in s.ports : ReadPort(p).interface = p.interface
    BY DEF ReadPort, PortType
  <2> QED
    BY <2>1, <2>2
<1>2. Judgement = IF policy.edge \subseteq names THEN Only("pass", "edge") ELSE Only("fail", "edge")
  BY <1>1 DEF Judgement, StpEdge
<1>3. Faults(s) = {Fault("edge", "", p) : p \in policy.edge \ names}
  BY DEF Faults
<1>4. CASE policy.edge \subseteq names
  BY <1>2, <1>3, <1>4, PassAgrees
<1>5. CASE ~(policy.edge \subseteq names)
  <2>1. PICK p \in policy.edge \ names : TRUE
    BY <1>5
  <2>2. Fault("edge", "", p) \in Faults(s)
    BY <1>3, <2>1
  <2> QED
    BY <1>2, <1>5, <2>2, FailAgrees
<1> QED
  BY <1>4, <1>5

\* Of the routes and of the SNMP settings the addresses are redacted.
Dsts(routes) == {r.dst : r \in routes}

LEMMA RoutesAreRead ==
  ASSUME backend = "fixture", NEW s, s.routes \subseteq RouteType
  PROVE  Dsts(Read(s, "routes")) = {Redacted(d) : d \in Dsts(s.routes)}
<1>1. Read(s, "routes") = {ReadRoute(r) : r \in s.routes}
  BY DEF Read
<1>2. \A r \in s.routes : ReadRoute(r).dst = Redacted(r.dst)
  BY DEF ReadRoute, Field, RouteType
<1> QED
  BY <1>1, <1>2 DEF Dsts

LEMMA RedactedNames ==
  ASSUME NEW D, NEW name, name \notin {"public", "redacted"}
  PROVE  name \in {Redacted(d) : d \in D} <=> name \in D
<1>1. \A d : Redacted(d) = name <=> d = name
  BY DEF Redacted
<1> QED
  BY <1>1

LEMMA OwnedAgrees ==
  ASSUME AuditRunAssumption, audit = "route_ownership", policy \in Policies, backend = "fixture",
         NEW s, s.routes \subseteq RouteType, Comparable(s), Seen("routes") = Read(s, "routes"),
         policy.owned # {}
  PROVE  Agrees(s, Judgement)
<1> DEFINE there == Dsts(s.routes)
<1>1. "public" \notin policy.owned /\ "redacted" \notin policy.owned
  BY DEF AuditRunAssumption, Comparable
<1>2. ASSUME NEW d \in policy.owned PROVE d \in Dsts(Seen("routes")) <=> d \in there
  <2>1. d \notin {"public", "redacted"}
    BY <1>1
  <2>2. Dsts(Seen("routes")) = {Redacted(x) : x \in there}
    BY RoutesAreRead
  <2> QED
    BY <2>1, <2>2, RedactedNames
<1>3. Judgement = IF policy.owned \subseteq Dsts(Seen("routes")) THEN Only("pass", "owned")
                                                              ELSE Only("fail", "owned")
  BY DEF Judgement, RouteOwnership, Dsts
<1>4. Faults(s) = {Fault("owned", "", d) : d \in policy.owned \ there}
  BY DEF Faults, Dsts
<1> HIDE DEF there
<1>5. CASE policy.owned \subseteq there
  BY <1>2, <1>3, <1>4, <1>5, PassAgrees
<1>6. CASE ~(policy.owned \subseteq there)
  <2>1. PICK d \in policy.owned \ there : TRUE
    BY <1>6
  <2>2. Fault("owned", "", d) \in Faults(s)
    BY <1>4, <2>1
  <2>3. ~(policy.owned \subseteq Dsts(Seen("routes")))
    BY <1>2, <2>1
  <2> QED
    BY <1>3, <2>2, <2>3, FailAgrees
<1> QED
  BY <1>5, <1>6

\* There is a default route in what was read just if there is one.
LEMMA DefaultIsRead ==
  ASSUME backend = "fixture", NEW s, s.routes \subseteq RouteType, Seen("routes") = Read(s, "routes")
  PROVE  Defaults(Seen("routes")) = {} <=> ~\E r \in s.routes : r.dst = "default"
<1>1. "default" \in Dsts(Seen("routes")) <=> "default" \in Dsts(s.routes)
  <2>1. "default" \notin {"public", "redacted"}
    OBVIOUS
  <2>2. Dsts(Seen("routes")) = {Redacted(d) : d \in Dsts(s.routes)}
    BY RoutesAreRead
  <2> QED
    BY <2>1, <2>2, RedactedNames
<1> QED
  BY <1>1 DEF Dsts, Defaults

LEMMA DefaultAgrees ==
  ASSUME audit = "default_route_sanity", backend = "fixture", NEW s, s.routes \subseteq RouteType,
         Seen("routes") = Read(s, "routes")
  PROVE  Agrees(s, Judgement)
<1> DEFINE routes == Seen("routes")
<1>1. Judgement = DefaultRouteSanity(role, dualWan, routes)
  BY DEF Judgement
<1>2. Faults(s) = IF Defaults(routes) = {} THEN {Fault("default", "", 0)} ELSE {}
  BY DefaultIsRead DEF Faults
<1> HIDE DEF routes
<1>3. CASE Defaults(routes) = {}
  <2>1. Judgement = Only(IF role \in GatewayRoles THEN "fail" ELSE "warn", "default")
    BY <1>1, <1>3 DEF DefaultRouteSanity
  <2> QED
    BY <1>2, <1>3, <2>1, FailAgrees, NeitherAgrees
<1>4. CASE Defaults(routes) # {}
  <2>1. \/ Judgement = Only("warn", "second") \/ Judgement = Only("pass", "default")
        \/ Judgement = Only("warn", "default")
    BY <1>1, <1>4 DEF DefaultRouteSanity
  <2> QED
    BY <1>2, <1>4, <2>1, PassAgrees, NeitherAgrees
<1> QED
  BY <1>3, <1>4

LEMMA FailoverAgrees ==
  ASSUME audit = "wan_failover_state", backend = "fixture", NEW s, s.routes \subseteq RouteType,
         Seen("routes") = Read(s, "routes"), role \in GatewayRoles, policy.primary
  PROVE  Agrees(s, Judgement)
<1> DEFINE routes == Seen("routes")
<1>1. Judgement = WanFailoverState(policy, role, routes)
  BY DEF Judgement
<1>2. Faults(s) = IF Defaults(routes) = {} THEN {Fault("default", "", 0)} ELSE {}
  BY DefaultIsRead DEF Faults
<1> HIDE DEF routes
<1>3. CASE Defaults(routes) = {}
  <2>1. Judgement = Only("fail", "default")
    BY <1>1, <1>3 DEF WanFailoverState
  <2> QED
    BY <1>2, <1>3, <2>1, FailAgrees
<1>4. CASE Defaults(routes) # {}
  <2>1. Judgement = Only("warn", "second") \/ Judgement = Only("pass", "default")
    BY <1>1, <1>4 DEF WanFailoverState
  <2> QED
    BY <1>2, <1>4, <2>1, PassAgrees, NeitherAgrees
<1> QED
  BY <1>3, <1>4

LEMMA SnmpAgrees ==
  ASSUME AuditRunAssumption, audit = "snmp_scope", policy \in Policies, backend = "fixture",
         NEW s, s.snmp \in TableTypes.snmp, Comparable(s), Seen("snmp") = Read(s, "snmp"),
         ~NoSnmpPolicy(policy)
  PROVE  Agrees(s, Judgement)
<1> DEFINE seen == Seen("snmp")
           missing == IF policy.access = {} THEN {} ELSE s.snmp.addresses \ policy.access
           wrong == IF policy.communities = {} THEN {} ELSE {s.snmp.community} \ policy.communities
<1>1. /\ seen.there = s.snmp.there /\ seen.community = s.snmp.community
      /\ seen.addresses = {Redacted(a) : a \in s.snmp.addresses}
  <2>1. s.snmp \in [there : BOOLEAN, addresses : SUBSET STRING, community : STRING]
    BY DEF TableTypes
  <2>2. seen = [s.snmp EXCEPT !.there = Field(@, TRUE),
                              !.addresses = Field({Redacted(a) : a \in @}, {}),
                              !.community = Field(@, "")]
    BY DEF Read, ReadSnmp
  <2> QED
    BY <2>1, <2>2 DEF Field
<1>2. "public" \notin policy.access /\ "redacted" \notin policy.access
  BY DEF AuditRunAssumption, Comparable
<1>3. seen.addresses \subseteq policy.access <=> s.snmp.addresses \subseteq policy.access
  BY <1>1, <1>2 DEF Redacted
<1>4. Judgement = IF ~s.snmp.there THEN Only("unknown", "data")
                  ELSE SnmpAccess(policy, seen) \cup SnmpCommunity(policy, seen)
  BY <1>1 DEF Judgement, SnmpScope
<1>5. /\ \A a \in missing : Fault("access", "", a) \in Faults(s)
      /\ \A c \in wrong : Fault("community", "", c) \in Faults(s)
      /\ missing = {} /\ wrong = {} => Faults(s) = {}
  BY DEF Faults
<1>6. SnmpAccess(policy, seen) = IF policy.access = {} THEN {}
                                 ELSE Only(IF missing = {} THEN "pass" ELSE "fail", "access")
  BY <1>3 DEF SnmpAccess
<1>7. /\ wrong # {} => SnmpCommunity(policy, seen) = Only("fail", "community")
      /\ wrong = {} => \/ SnmpCommunity(policy, seen) = Only("pass", "community")
                       \/ SnmpCommunity(policy, seen) = Only("unknown", "community")
  <2>1. seen.community \in policy.communities <=> s.snmp.community \in policy.communities
    BY <1>1
  <2> QED
    BY <2>1 DEF SnmpCommunity
<1> HIDE DEF seen, missing, wrong
<1>8. Justified(s, SnmpAccess(policy, seen)) /\ Justified(s, SnmpCommunity(policy, seen))
  <2>1. \A about : Justified(s, {}) /\ Justified(s, Only("pass", about))
    BY OnlyFields DEF Justified, Failures
  <2>2. \A a \in missing : Agrees(s, Only("fail", "access"))
    BY <1>5, FailAgrees
  <2>3. \A c \in wrong : Agrees(s, Only("fail", "community"))
    BY <1>5, FailAgrees
  <2>4. Agrees(s, Only("unknown", "community"))
    BY NeitherAgrees
  <2> QED
    BY <1>6, <1>7, <2>1, <2>2, <2>3, <2>4 DEF Agrees
<1>9. CASE missing # {}
  <2>1. PICK a \in missing : Fault("access", "", a) \in Faults(s)
    BY <1>5, <1>9
  <2>2. SnmpAccess(policy, seen) = Only("fail", "access")
    BY <1>6, <1>9 DEF missing
  <2>3. Agrees(s, SnmpAccess(policy, seen))
    BY <2>1, <2>2, FailAgrees
  <2> QED
    BY <1>4, <1>8, <2>3, NeitherAgrees, UnionAgrees
<1>10. CASE wrong # {}
  <2>1. Agrees(s, SnmpCommunity(policy, seen))
    <3>1. PICK c \in wrong : Fault("community", "", c) \in Faults(s)
      BY <1>5, <1>10
    <3>2. SnmpCommunity(policy, seen) = Only("fail", "community")
      BY <1>7, <1>10
    <3>3. Agrees(s, Only("fail", "community"))
      BY <3>1, FailAgrees
    <3> QED
      BY <3>2, <3>3
  <2> QED
    BY <1>4, <1>8, <2>1, NeitherAgrees, UnionAgrees
<1>11. CASE missing = {} /\ wrong = {}
  <2>1. Faults(s) = {}
    BY <1>5, <1>11
  <2>2. Agrees(s, SnmpAccess(policy, seen) \cup SnmpCommunity(policy, seen))
    BY <1>8, <2>1 DEF Agrees, Reports, Justified, Speaks, Failures, Names
  <2> QED
    BY <1>4, <2>2, NeitherAgrees
<1> QED
  BY <1>9, <1>10, <1>11

\* Where every part of a VLAN list is one VLAN, the parts are the VLANs.
LEMMA ParsedVlans ==
  ASSUME NEW parts, \A part \in parts : Cardinality(part) = 1
  PROVE  ParseVlanIds(parts) = UNION parts
BY DEF ParseVlanIds

LEMMA VlansAgree ==
  ASSUME audit = "vlan_consistency", NEW s, "vlans" \in DOMAIN s, Comparable(s),
         Seen("vlans") = s.vlans, policy.vlans # {}
  PROVE  Agrees(s, Judgement)
<1> DEFINE actual == CountedVlans(policy, s.vlans)
           missing == policy.vlans \ actual
           extra == actual \ policy.vlans
<1>1. \A r \in s.vlans : ParseVlanIds(r.ids) = UNION r.ids
  BY ParsedVlans DEF Comparable
<1>2. actual = {v \in StaticVlans(s.vlans) : VlanNamed(v)}
  BY <1>1 DEF CountedVlans, StaticVlans, Vlans, VlanNamed
<1>3. Judgement = IF ~(policy.vlans \subseteq actual) THEN Only("fail", "missing")
                  ELSE IF policy.vlans = actual THEN Only("pass", "vlans") ELSE Only("warn", "extra")
  BY DEF Judgement, VlanConsistency
<1>4. Faults(s) = {Fault("missing", "", v) : v \in policy.vlans \ StaticVlans(s.vlans)}
                  \cup {Fault("extra", "", v) : v \in {v \in StaticVlans(s.vlans) :
                                                          v \notin policy.vlans /\ VlanNamed(v)}}
  BY DEF Faults
<1>5. policy.vlans \ StaticVlans(s.vlans) = missing
  BY <1>2 DEF VlanNamed
<1>6. {v \in StaticVlans(s.vlans) : v \notin policy.vlans /\ VlanNamed(v)} = extra
  BY <1>2
<1>7. Faults(s) = {Fault("missing", "", v) : v \in missing} \cup {Fault("extra", "", v) : v \in extra}
  BY <1>4, <1>5, <1>6
<1> HIDE DEF actual
<1>8. CASE missing # {}
  <2>1. PICK v \in missing : TRUE
    BY <1>8
  <2>2. Fault("missing", "", v) \in Faults(s)
    BY <1>7, <2>1
  <2> QED
    BY <1>3, <1>8, <2>2, FailAgrees
<1>9. CASE missing = {} /\ extra # {}
  BY <1>3, <1>9, NeitherAgrees
<1>10. CASE missing = {} /\ extra = {}
  BY <1>3, <1>7, <1>10, PassAgrees
<1> QED
  BY <1>8, <1>9, <1>10

\* Of a mangle rule only whether it is disabled, or left over, is looked at.
LEMMA DeadAgrees ==
  ASSUME audit = "dead_mangle_rules", NEW s, Seen("mangle") = Read(s, "mangle"),
         s.mangle \subseteq MarkType
  PROVE  Agrees(s, Judgement)
<1> DEFINE seen == Seen("mangle")
<1>1. seen = {ReadMark(x) : x \in s.mangle}
  BY DEF Read
<1>2. \A x \in s.mangle : /\ ReadMark(x).disabled = x.disabled /\ ReadMark(x).leftover = x.leftover
                           /\ x.disabled \in BOOLEAN /\ x.leftover \in BOOLEAN
  BY DEF ReadMark, MarkType
<1>3. Suspicious(seen) = {} => Suspicious(s.mangle) = {}
  <2>1. ASSUME NEW x \in s.mangle, x.disabled \/ x.leftover
        PROVE  ReadMark(x) \in seen /\ (ReadMark(x).disabled \/ ReadMark(x).leftover)
    BY <1>1, <1>2, <2>1
  <2> QED
    BY <2>1 DEF Suspicious
<1>4. Faults(s) = {Fault("dead", "", r) : r \in Suspicious(s.mangle)}
  BY DEF Faults, Suspicious
<1>5. Judgement = IF seen = {} THEN Only(IF role \in GatewayRoles THEN "unknown" ELSE "pass", "data")
                  ELSE IF Suspicious(seen) # {} THEN Only("warn", "dead") ELSE Only("pass", "dead")
  BY DEF Judgement, DeadMangleRules
<1> HIDE DEF seen
<1>6. CASE Suspicious(seen) # {}
  <2>1. seen # {}
    BY <1>6 DEF Suspicious
  <2> QED
    BY <1>5, <1>6, <2>1, NeitherAgrees
<1>7. CASE Suspicious(seen) = {}
  <2>1. Faults(s) = {}
    BY <1>3, <1>4, <1>7
  <2> QED
    BY <1>5, <1>7, <2>1, PassAgrees, NeitherAgrees
<1> QED
  BY <1>6, <1>7

LEMMA QosAgrees ==
  ASSUME audit = "qos_state", NEW s, Seen("simple") = s.simple
  PROVE  Agrees(s, Judgement)
<1>1. Judgement = QosState(s.simple)
  BY DEF Judgement
<1>2. Faults(s) = IF \E q \in s.simple : q.limit # "none" THEN {}
                  ELSE {Fault(IF s.simple = {} THEN "queues" ELSE "limit", "", 0)}
  BY DEF Faults
<1>3. CASE s.simple = {}
  BY <1>1, <1>2, <1>3, FailAgrees DEF QosState
<1>4. CASE s.simple # {} /\ \A q \in s.simple : q.limit = "none"
  BY <1>1, <1>4, NeitherAgrees DEF QosState
<1>5. CASE \E q \in s.simple : q.limit # "none"
  BY <1>1, <1>2, <1>5, PassAgrees DEF QosState
<1> QED
  BY <1>3, <1>4, <1>5

LEMMA DnsAgrees ==
  ASSUME audit = "encrypted_dns", NEW s, Seen("dns") = s.dns
  PROVE  Agrees(s, Judgement)
<1> DEFINE dns == s.dns
<1>1. Judgement = EncryptedDns(policy, dns)
  BY DEF Judgement
<1>2. Faults(s) = IF ~policy.encrypted \/ (dns.there /\ dns.servers /\ (dns.doh \/ dns.dnssec))
                  THEN {} ELSE {Fault("dns", "", 0)}
  BY DEF Faults
<1> HIDE DEF dns
<1>3. CASE ~policy.encrypted
  BY <1>1, <1>2, <1>3, PassAgrees DEF EncryptedDns
<1>4. CASE policy.encrypted /\ ~dns.there
  BY <1>1, <1>4, NeitherAgrees DEF EncryptedDns
<1>5. CASE policy.encrypted /\ dns.there /\ ~dns.servers
  BY <1>1, <1>2, <1>5, FailAgrees DEF EncryptedDns
<1>6. CASE policy.encrypted /\ dns.there /\ dns.servers /\ (dns.doh \/ dns.dnssec)
  BY <1>1, <1>2, <1>6, PassAgrees DEF EncryptedDns
<1>7. CASE policy.encrypted /\ dns.there /\ dns.servers /\ ~(dns.doh \/ dns.dnssec)
  BY <1>1, <1>7, NeitherAgrees DEF EncryptedDns
<1> QED
  BY <1>3, <1>4, <1>5, <1>6, <1>7

LEMMA BackupsAgree ==
  ASSUME audit = "backup_retention", NEW s, Seen("backups") = s.backups
  PROVE  Agrees(s, Judgement)
<1> DEFINE kept == Cardinality(s.backups) >= 2 /\ \E b \in s.backups : b.date = "recent"
<1>1. \/ Judgement = Only("unknown", "data") \/ Judgement = Only("warn", "dates")
      \/ Judgement = Only("warn", "backups")
      \/ Judgement = Only("pass", "backups") /\ kept
  BY DEF Judgement, BackupRetention
<1>2. kept => Faults(s) = {}
  BY DEF Faults
<1> QED
  BY <1>1, <1>2, PassAgrees, NeitherAgrees

\* A packet from the WAN that a trust rule accepts, a trust rule without a DSCP
\* value and a rule that sets DSCP for a mark nobody makes each are found.
Untrusted(rules, i) == ~rules[i].disabled /\ Trusts(rules[i]) /\ rules[i].dscp \notin 0..63
Orphaned(rules, i) ==
  /\ ~rules[i].disabled /\ rules[i].action = "change-dscp" /\ rules[i].mark # ""
  /\ \A j \in DOMAIN rules : rules[j].newMark = rules[i].mark => rules[j].disabled

LEMMA NoValue ==
  ASSUME NEW rule \in RuleType
  PROVE  DscpValue(rule.dscp) = NoDscp <=> rule.dscp \notin 0..63
<1> DEFINE d == rule.dscp
<1>1. d \in 0..65
  BY DEF RuleType, OddDscp
<1> HIDE DEF d
<1>2. (IF d = 65 THEN 64 ELSE d) = 64 <=> d \notin 0..63
  BY <1>1
<1>3. DscpValue(d) = IF d = 65 THEN 64 ELSE d
  BY DEF DscpValue, NoDscp, OddDscp
<1> QED
  BY <1>2, <1>3 DEF NoDscp, d

LEMMA TrustIsFound ==
  ASSUME NEW rules \in Seq(RuleType)
  PROVE  /\ \A i \in DOMAIN rules : Untrusted(rules, i) => TrustFindings(rules) = Only("fail", "trust")
         /\ \/ TrustFindings(rules) = {} \/ TrustFindings(rules) = Only("pass", "trust")
            \/ /\ TrustFindings(rules) = Only("fail", "trust")
               /\ \E i \in DOMAIN rules : Untrusted(rules, i)
<1> DEFINE trusting == {i \in EnabledAt(rules) : Trusts(rules[i])}
           odd == {i \in trusting : DscpValue(rules[i].dscp) = NoDscp}
<1>1. \A i \in DOMAIN rules : rules[i] \in RuleType
  OBVIOUS
<1>2. \A i \in DOMAIN rules : i \in odd <=> Untrusted(rules, i)
  BY <1>1, NoValue DEF Untrusted, EnabledAt
<1>3. TrustFindings(rules) = IF trusting = {} THEN {} ELSE IF odd # {} THEN Only("fail", "trust")
                                                           ELSE Only("pass", "trust")
  BY DEF TrustFindings
<1>4. odd \subseteq DOMAIN rules /\ odd \subseteq trusting
  BY DEF EnabledAt
<1> HIDE DEF odd, trusting
<1> QED
  BY <1>2, <1>3, <1>4

LEMMA LeakIsFound ==
  ASSUME NEW rules \in Seq(RuleType), NEW d \in 1..63, Leaks(rules, d), WashesMatch(rules)
  PROVE  \/ TrustFindings(rules) = Only("fail", "trust")
         \/ WanWashes(rules) = {} /\ WashFindings(rules) = Only("warn", "wash")
         \/ OrderFindings(rules) = Only("warn", "order")
<1>1. PICK i \in DOMAIN rules : /\ LetsThrough(rules, d, i)
                                /\ rules[i].dscp \in {d, NoDscp, OddDscp}
  BY DEF Leaks, LetsThrough
<1>2. CASE rules[i].dscp = d
  <2>1. CASE WanWashes(rules) = {}
    BY <2>1 DEF WashFindings
  <2>2. CASE WanWashes(rules) # {}
    <3>1. OrderFindings(rules) # Only("pass", "order")
      BY <1>1, <1>2, OrderIsRight
    <3> QED
      BY <2>2, <3>1 DEF OrderFindings
  <2> QED
    BY <2>1, <2>2
<1>3. CASE rules[i].dscp \in {NoDscp, OddDscp}
  <2>1. NoDscp \notin 0..63 /\ OddDscp \notin 0..63
    BY DEF NoDscp, OddDscp
  <2>2. Untrusted(rules, i)
    BY <1>1, <1>3, <2>1 DEF Untrusted, LetsThrough, FromWan
  <2> QED
    BY <2>2, TrustIsFound
<1> QED
  BY <1>1, <1>2, <1>3

LEMMA OrphanIsFound ==
  ASSUME NEW rules, NEW i \in DOMAIN rules, Orphaned(rules, i)
  PROVE  Speaks(SetFindings(rules))
<1>1. i \in EnabledAt(rules)
  BY DEF EnabledAt, Orphaned
<1>2. rules[i].mark \notin {rules[j].newMark : j \in EnabledAt(rules)}
  BY DEF EnabledAt, Orphaned
<1>3. Only("warn", "orphaned") \subseteq SetFindings(rules)
  BY <1>1, <1>2 DEF SetFindings, Orphaned
<1> QED
  BY <1>3, OnlySpeaks, MoreSpeaks

\* What else dscp_policy has to say: one finding, or those of its parts.
LEMMA DscpParts ==
  ASSUME NEW rules
  PROVE  \/ \E st \in {"unknown", "skip", "warn"} : \E ab \in {"data", "rules"} :
              DscpPolicy(role, rules) = Only(st, ab)
         \/ \E off \in {{}, Only("warn", "disabled")} :
              DscpPolicy(role, rules) = TrustFindings(rules) \cup WashFindings(rules)
                \cup OrderFindings(rules) \cup SetFindings(rules) \cup off
BY DEF DscpPolicy

\* The one failure of dscp_policy is a trust rule without a DSCP value.
LEMMA DscpFails ==
  ASSUME NEW rules
  PROVE  Failures(DscpPolicy(role, rules)) \subseteq TrustFindings(rules)
<1>1. /\ Failures(Only("warn", "wash")) = {} /\ Failures(Only("pass", "wash")) = {}
      /\ Failures(Only("warn", "order")) = {} /\ Failures(Only("pass", "order")) = {}
      /\ Failures(Only("warn", "sets")) = {} /\ Failures(Only("pass", "sets")) = {}
      /\ Failures(Only("warn", "values")) = {} /\ Failures(Only("warn", "orphaned")) = {}
      /\ Failures(Only("warn", "disabled")) = {} /\ Failures({}) = {}
  BY OnlyFails DEF Failures
<1>2. Failures(WashFindings(rules)) = {}
  BY <1>1 DEF WashFindings
<1>3. Failures(OrderFindings(rules)) = {}
  BY <1>1 DEF OrderFindings
<1>4. Failures(SetFindings(rules)) = {}
  <2>1. PICK a \in {{}, Only("warn", "values")}, b \in {{}, Only("warn", "orphaned")},
             c \in {{}, Only("pass", "sets")} :
          SetFindings(rules) \in {Only("warn", "sets"), (a \cup b) \cup c}
    BY DEF SetFindings
  <2>2. Failures(a) = {} /\ Failures(b) = {} /\ Failures(c) = {}
    BY <1>1
  <2>3. Failures(a \cup b) = {}
    BY <2>2, UnionFails
  <2>4. Failures((a \cup b) \cup c) = {}
    BY <2>2, <2>3, UnionFails
  <2> QED
    BY <1>1, <2>1, <2>4
<1>5. ASSUME NEW st \in {"unknown", "skip", "warn"}, NEW ab PROVE Failures(Only(st, ab)) = {}
  BY OnlyFails
<1>6. CASE \E st \in {"unknown", "skip", "warn"} : \E ab \in {"data", "rules"} :
            DscpPolicy(role, rules) = Only(st, ab)
  BY <1>5, <1>6
<1>7. ASSUME NEW off \in {{}, Only("warn", "disabled")},
             DscpPolicy(role, rules) = TrustFindings(rules) \cup WashFindings(rules)
                \cup OrderFindings(rules) \cup SetFindings(rules) \cup off
      PROVE  Failures(DscpPolicy(role, rules)) \subseteq TrustFindings(rules)
  <2>1. Failures(off) = {}
    BY <1>1
  <2>2. Failures(TrustFindings(rules) \cup WashFindings(rules)) \subseteq TrustFindings(rules)
    BY <1>2, UnionFails
  <2>3. Failures(TrustFindings(rules) \cup WashFindings(rules) \cup OrderFindings(rules))
          \subseteq TrustFindings(rules)
    BY <1>3, <2>2, UnionFails
  <2>4. Failures(TrustFindings(rules) \cup WashFindings(rules) \cup OrderFindings(rules)
                  \cup SetFindings(rules)) \subseteq TrustFindings(rules)
    BY <1>4, <2>3, UnionFails
  <2> QED
    BY <1>7, <2>1, <2>4, UnionFails
<1> QED
  BY <1>6, <1>7, DscpParts

LEMMA DscpSpeaks ==
  ASSUME NEW rules,
         \/ Speaks(TrustFindings(rules)) \/ Speaks(WashFindings(rules))
         \/ Speaks(OrderFindings(rules)) \/ Speaks(SetFindings(rules))
  PROVE  Speaks(DscpPolicy(role, rules))
<1>1. ASSUME NEW st \in {"unknown", "skip", "warn"}, NEW ab PROVE Speaks(Only(st, ab))
  BY OnlySpeaks
<1> QED
  BY <1>1, MoreSpeaks, DscpParts

LEMMA DscpAgrees ==
  ASSUME audit = "dscp_policy", NEW s, s.rules \in Seq(RuleType), "rules" \in DOMAIN s,
         Comparable(s), Seen("rules") = s.rules
  PROVE  Agrees(s, Judgement)
<1> DEFINE rules == s.rules
<1>1. Judgement = DscpPolicy(role, rules)
  BY DEF Judgement
<1>2. Faults(s) = RuleFaults(rules)
  BY DEF Faults
<1>3. WashesMatch(rules)
  BY DEF Comparable, WashesMatch
<1> HIDE DEF rules
<1>4. rules \in Seq(RuleType)
  BY DEF rules
<1>5. RuleFaults(rules) = {Fault("order", "", d) : d \in {d \in 1..63 : Leaks(rules, d)}}
        \cup {Fault("trust", "", i) : i \in {i \in DOMAIN rules : Untrusted(rules, i)}}
        \cup {Fault("orphaned", "", i) : i \in {i \in DOMAIN rules : Orphaned(rules, i)}}
  BY DEF RuleFaults, Untrusted, Orphaned, Trusts
<1>6. ASSUME NEW f \in RuleFaults(rules) PROVE Speaks(DscpPolicy(role, rules))
  <2>1. CASE \E d \in 1..63 : Leaks(rules, d)
    <3>1. \/ TrustFindings(rules) = Only("fail", "trust")
          \/ WashFindings(rules) = Only("warn", "wash")
          \/ OrderFindings(rules) = Only("warn", "order")
      BY <1>3, <1>4, <2>1, LeakIsFound
    <3> QED
      BY <3>1, OnlySpeaks, DscpSpeaks
  <2>2. CASE \E i \in DOMAIN rules : Untrusted(rules, i)
    <3>1. TrustFindings(rules) = Only("fail", "trust")
      BY <1>4, <2>2, TrustIsFound
    <3> QED
      BY <3>1, OnlySpeaks, DscpSpeaks
  <2>3. CASE \E i \in DOMAIN rules : Orphaned(rules, i)
    BY <2>3, OrphanIsFound, DscpSpeaks
  <2> QED
    BY <1>5, <1>6, <2>1, <2>2, <2>3
<1>7. Reports(s, Judgement)
  BY <1>1, <1>2, <1>6 DEF Reports
<1>8. ASSUME NEW v \in Failures(Judgement) PROVE \E f \in Faults(s) : Names(v, f)
  <2>1. v \in TrustFindings(rules)
    BY <1>1, <1>8, DscpFails
  <2>2. v \notin Only("pass", "trust")
    <3>1. Failures(Only("pass", "trust")) = {}
      BY OnlyFails
    <3> QED
      BY <1>8, <3>1 DEF Failures
  <2>3. v \in Only("fail", "trust") /\ \E i \in DOMAIN rules : Untrusted(rules, i)
    BY <1>4, <2>1, <2>2, TrustIsFound
  <2>4. PICK i \in DOMAIN rules : Fault("trust", "", i) \in Faults(s)
    BY <1>2, <1>5, <2>3
  <2>5. Names(v, Fault("trust", "", i))
    BY <2>3, OnlyNames
  <2> QED
    BY <2>4, <2>5
<1> QED
  BY <1>7, <1>8 DEF Agrees, Justified

-----------------------------------------------------------------------------
(* The two audits of several tables, each table as it was at a moment of its  *)
(* own: what is wrong at all of them is found, and a failure is about one.     *)

InUse(s) == IF s.tree # {} THEN "tree" ELSE "simple"
QueueFault(s, q) == q \in s[InUse(s)] /\ (q.disabled \/ q.invalid)
NotProduced(s, m) == m \in Marks(s[InUse(s)]) /\ \A r \in s.mangle : r.mark = m => r.disabled
NotConsumed(s, m) == m \in Marks(s.mangle) /\ \A q \in s[InUse(s)] : q.mark # m
MarkFault(s, kind, x) == \/ kind = "queue" /\ QueueFault(s, x)
                         \/ kind = "consumed" /\ NotProduced(s, x)
                         \/ kind = "produced" /\ NotConsumed(s, x)

LEMMA MarkFaultsAre ==
  ASSUME NEW s, NEW f \in MarkFaults(s)
  PROVE  f.on = InUse(s) /\ MarkFault(s, f.what[1], f.what[2])
<1>1. MarkFaults(s) =
        {Fault("marks", InUse(s), <<"queue", q>>) : q \in {q \in s[InUse(s)] : q.disabled \/ q.invalid}}
        \cup {Fault("marks", InUse(s), <<"consumed", m>>) : m \in {m \in Marks(s[InUse(s)]) :
                \A r \in s.mangle : r.mark = m => r.disabled}}
        \cup {Fault("marks", InUse(s), <<"produced", m>>) : m \in {m \in Marks(s.mangle) :
                \A q \in s[InUse(s)] : q.mark # m}}
  BY DEF MarkFaults, InUse
<1>2. PICK kind, x : MarkFault(s, kind, x) /\ f = Fault("marks", InUse(s), <<kind, x>>)
  BY <1>1 DEF MarkFault, QueueFault, NotProduced, NotConsumed
<1>3. f = [about |-> "marks", on |-> InUse(s), what |-> <<kind, x>>]
  BY <1>2 DEF Fault
<1>4. f.on = InUse(s) /\ f.what = <<kind, x>>
  BY <1>3
<1>5. <<kind, x>>[1] = kind /\ <<kind, x>>[2] = x
  OBVIOUS
<1> QED
  BY <1>2, <1>4, <1>5

\* Rules of one moment and queues of another: a fault there at both is found.
LEMMA MarkFaultIsFound ==
  ASSUME NEW s, NEW t, NEW kind, NEW x, MarkFault(s, kind, x), MarkFault(t, kind, x)
  PROVE  MangleQueueCorrelation(role, s.mangle, t[InUse(t)]) = Only("warn", "marks")
<1> DEFINE queues == t[InUse(t)]
<1>1. CASE kind = "queue"
  <2>1. x \in queues /\ (x.disabled \/ x.invalid)
    BY <1>1 DEF MarkFault, QueueFault
  <2> QED
    BY <2>1 DEF MangleQueueCorrelation, Misaligned
<1>2. CASE kind = "consumed"
  <2>1. x \in Marks(queues) /\ \A r \in s.mangle : r.mark = x => r.disabled
    BY <1>2 DEF MarkFault, NotProduced
  <2>2. queues # {} /\ Enabled(Producers(s.mangle, x)) = {}
    BY <2>1 DEF Marks, Enabled, Producers
  <2> QED
    BY <2>1, <2>2 DEF MangleQueueCorrelation, Misaligned
<1>3. CASE kind = "produced"
  <2>1. x \in Marks(s.mangle) /\ \A q \in queues : q.mark # x
    BY <1>3 DEF MarkFault, NotConsumed
  <2>2. s.mangle # {} /\ x \notin Marks(queues)
    BY <2>1 DEF Marks
  <2> QED
    BY <2>1, <2>2 DEF MangleQueueCorrelation, Misaligned
<1> QED
  BY <1>1, <1>2, <1>3 DEF MarkFault

\* The rules, the queue tree and, if that was empty, the simple queues.
LEMMA LastingMarkFault ==
  ASSUME audit = "mangle_queue_correlation", NEW s, NEW t, NEW u,
         Seen("mangle") = s.mangle, Seen("tree") = t.tree, t.tree = {} => Seen("simple") = u.simple,
         NEW f, f \in Faults(s), f \in Faults(t), f \in Faults(u)
  PROVE  Judgement = Only("warn", "marks")
<1>1. \A x : Faults(x) = MarkFaults(x)
  BY DEF Faults
<1>2. Judgement = MangleQueueCorrelation(role, s.mangle, Queues)
  BY DEF Judgement
<1>3. /\ f.on = InUse(s) /\ MarkFault(s, f.what[1], f.what[2])
      /\ f.on = InUse(t) /\ MarkFault(t, f.what[1], f.what[2])
      /\ f.on = InUse(u) /\ MarkFault(u, f.what[1], f.what[2])
  BY <1>1, MarkFaultsAre
<1>4. CASE t.tree # {}
  <2>1. Queues = t[InUse(t)]
    BY <1>4 DEF Queues, InUse
  <2> QED
    BY <1>2, <1>3, <2>1, MarkFaultIsFound
<1>5. CASE t.tree = {}
  <2>1. InUse(u) = "simple"
    BY <1>3, <1>5 DEF InUse
  <2>2. Queues = u[InUse(u)]
    BY <1>5, <2>1 DEF Queues
  <2> QED
    BY <1>2, <1>3, <2>2, MarkFaultIsFound
<1> QED
  BY <1>4, <1>5

LEMMA MarksNeverFail ==
  ASSUME audit = "mangle_queue_correlation"
  PROVE  Failures(Judgement) = {}
<1>1. \E st \in {"unknown", "pass", "warn"}, ab \in {"data", "marks"} : Judgement = Only(st, ab)
  BY DEF Judgement, MangleQueueCorrelation
<1>2. PICK st \in {"unknown", "pass", "warn"}, ab \in {"data", "marks"} : Judgement = Only(st, ab)
  BY <1>1
<1>3. st # "fail"
  OBVIOUS
<1> QED
  BY <1>2, <1>3, OnlyFails

NoPort(s, port) == ~\E r \in s.ports : r.interface = port
Untagged(s, port, v) == v \in policy.trunks[port] /\ \A r \in s.vlans :
                          port \in r.tagged /\ v \in UNION r.ids => r.disabled
WrongPvid(s, port) == \E r \in s.ports : r.interface = port /\ ~DefaultPvid(r)

\* What is wrong with a trunk.
TrunkFault(s, port, what, v) == \/ what = "port" /\ NoPort(s, port)
                                \/ what = "tagged" /\ Untagged(s, port, v)
                                \/ what = "pvid" /\ WrongPvid(s, port)

LEMMA TrunkFaultsAre ==
  ASSUME NEW s, NEW port
  PROVE  /\ NoPort(s, port) => Fault("port", port, 0) \in FaultyTrunk(s, port)
         /\ \A v : Untagged(s, port, v) => Fault("tagged", port, v) \in FaultyTrunk(s, port)
         /\ \A f \in FaultyTrunk(s, port) : f.on = port /\ TrunkFault(s, port, f.about, f.what)
<1> DEFINE lost == IF NoPort(s, port) THEN {Fault("port", port, 0)} ELSE {}
           untagged == {Fault("tagged", port, v) : v \in {v \in policy.trunks[port] : Untagged(s, port, v)}}
           pvids == {Fault("pvid", port, 0) : r \in {r \in s.ports : r.interface = port /\ ~DefaultPvid(r)}}
<1>1. FaultyTrunk(s, port) = lost \cup untagged \cup pvids
  BY DEF FaultyTrunk, NoPort, Untagged
<1>2. \A v : Untagged(s, port, v) => Fault("tagged", port, v) \in untagged
  BY DEF Untagged
<1>3. ASSUME NEW f \in FaultyTrunk(s, port)
      PROVE  f.on = port /\ TrunkFault(s, port, f.about, f.what)
  <2>1. PICK what, v : f = Fault(what, port, v) /\ TrunkFault(s, port, what, v)
    <3>1. CASE f \in lost
      BY <3>1 DEF TrunkFault
    <3>2. CASE f \in untagged
      BY <3>2 DEF TrunkFault
    <3>3. CASE f \in pvids
      BY <3>3 DEF TrunkFault, WrongPvid
    <3> QED
      BY <1>1, <1>3, <3>1, <3>2, <3>3
  <2>2. f = [about |-> what, on |-> port, what |-> v]
    BY <2>1 DEF Fault
  <2>3. f.about = what /\ f.on = port /\ f.what = v
    BY <2>2
  <2> QED
    BY <2>1, <2>3
<1> QED
  BY <1>1, <1>2, <1>3

\* A VLAN the trunk should carry is found tagged on it just if it is.
LEMMA TaggedIsRead ==
  ASSUME NEW s, "vlans" \in DOMAIN s, Comparable(s), NEW port, NEW v \in policy.trunks[port]
  PROVE  v \in TaggedOn(s.vlans, port) <=> ~Untagged(s, port, v)
<1>1. \A r \in s.vlans : ParseVlanIds(r.ids) = UNION r.ids
  BY ParsedVlans DEF Comparable
<1> QED
  BY <1>1 DEF TaggedOn, Untagged

\* The ports of one moment, the VLANs of another.
LEMMA TrunkFindingsAre ==
  ASSUME NEW s, NEW t, "vlans" \in DOMAIN t, Comparable(t), NEW port
  PROVE  TrunkFindings(policy, s.ports, t.vlans, port) =
           IF NoPort(s, port) THEN {Found("fail", "port", port)}
           ELSE IF \E v \in policy.trunks[port] : Untagged(t, port, v) THEN {Found("fail", "tagged", port)}
           ELSE IF WrongPvid(s, port) THEN {Found("warn", "pvid", port)} ELSE {}
<1> DEFINE here == {p \in s.ports : p.interface = port}
           tagged == TaggedOn(t.vlans, port)
<1>1. here = {} <=> NoPort(s, port)
  BY DEF NoPort
<1>2. policy.trunks[port] \subseteq tagged <=> ~\E v \in policy.trunks[port] : Untagged(t, port, v)
  BY TaggedIsRead
<1>3. (\A p \in here : DefaultPvid(p)) <=> ~WrongPvid(s, port)
  BY DEF WrongPvid
<1>4. TrunkFindings(policy, s.ports, t.vlans, port) =
        IF here = {} THEN {Found("fail", "port", port)}
        ELSE IF ~(policy.trunks[port] \subseteq tagged) THEN {Found("fail", "tagged", port)}
        ELSE IF \A p \in here : DefaultPvid(p) THEN {} ELSE {Found("warn", "pvid", port)}
  BY DEF TrunkFindings
<1> QED
  BY <1>1, <1>2, <1>3, <1>4

AllTrunkFindings(s, t) ==
  UNION {TrunkFindings(policy, s.ports, t.vlans, port) : port \in DOMAIN policy.trunks}

LEMMA TrunkJudgement ==
  ASSUME audit = "trunk_vlan_sanity", NEW s, NEW t, Seen("ports") = s.ports, Seen("vlans") = t.vlans,
         DOMAIN policy.trunks # {}
  PROVE  Judgement = IF AllTrunkFindings(s, t) # {} THEN AllTrunkFindings(s, t)
                                                    ELSE Only("pass", "trunks")
<1>1. Judgement = TrunkVlanSanity(policy, s.ports, t.vlans)
  BY DEF Judgement
<1> QED
  BY <1>1 DEF TrunkVlanSanity, AllTrunkFindings

LEMMA OneSpeaks ==
  ASSUME NEW st, NEW ab, NEW port, st # "pass"
  PROVE  Speaks({Found(st, ab, port)})
<1>1. Found(st, ab, port).status = st
  BY FoundFields
<1> QED
  BY <1>1 DEF Speaks

LEMMA LastingTrunkFault ==
  ASSUME audit = "trunk_vlan_sanity", NEW s, NEW t, Seen("ports") = s.ports, Seen("vlans") = t.vlans,
         DOMAIN policy.trunks # {}, "vlans" \in DOMAIN t, Comparable(t),
         NEW f, f \in Faults(s), f \in Faults(t)
  PROVE  Speaks(Judgement)
<1>1. \A x : Faults(x) = UNION {FaultyTrunk(x, p) : p \in DOMAIN policy.trunks}
  BY DEF Faults
<1>2. PICK p \in DOMAIN policy.trunks : f \in FaultyTrunk(s, p)
  BY <1>1
<1>3. PICK q \in DOMAIN policy.trunks : f \in FaultyTrunk(t, q)
  BY <1>1
<1>4. p = q /\ TrunkFault(s, p, f.about, f.what) /\ TrunkFault(t, p, f.about, f.what)
  BY <1>2, <1>3, TrunkFaultsAre
<1>5. NoPort(s, p) \/ (\E v \in policy.trunks[p] : Untagged(t, p, v)) \/ WrongPvid(s, p)
  BY <1>4 DEF TrunkFault, Untagged
<1>6. PICK found \in {Found("fail", "port", p), Found("fail", "tagged", p), Found("warn", "pvid", p)} :
        TrunkFindings(policy, s.ports, t.vlans, p) = {found}
  BY <1>5, TrunkFindingsAre
<1>7. Speaks({found})
  BY <1>6, OneSpeaks
<1>8. {found} \subseteq AllTrunkFindings(s, t)
  BY <1>6 DEF AllTrunkFindings
<1>9. Judgement = AllTrunkFindings(s, t)
  BY <1>8, TrunkJudgement
<1> QED
  BY <1>7, <1>8, <1>9, MoreSpeaks

LEMMA TrunkFailureWasThere ==
  ASSUME audit = "trunk_vlan_sanity", NEW s, NEW t, Seen("ports") = s.ports, Seen("vlans") = t.vlans,
         DOMAIN policy.trunks # {}, "vlans" \in DOMAIN t, Comparable(t),
         NEW v \in Failures(Judgement)
  PROVE  \E f \in Faults(s) \cup Faults(t) : Names(v, f)
<1>1. \A x : Faults(x) = UNION {FaultyTrunk(x, p) : p \in DOMAIN policy.trunks}
  BY DEF Faults
<1>2. v \in Judgement /\ v \notin Only("pass", "trunks")
  <2>1. Failures(Only("pass", "trunks")) = {}
    BY OnlyFails
  <2> QED
    BY <2>1 DEF Failures
<1>3. PICK p \in DOMAIN policy.trunks : v \in TrunkFindings(policy, s.ports, t.vlans, p)
  BY <1>2, TrunkJudgement DEF AllTrunkFindings
<1>4. v # Found("warn", "pvid", p)
  <2>1. Found("warn", "pvid", p).status = "warn"
    BY FoundFields
  <2> QED
    BY <2>1 DEF Failures
<1>5. \/ v = Found("fail", "port", p) /\ NoPort(s, p)
      \/ v = Found("fail", "tagged", p) /\ \E x \in policy.trunks[p] : Untagged(t, p, x)
  <2>1. TrunkFindings(policy, s.ports, t.vlans, p) =
           IF NoPort(s, p) THEN {Found("fail", "port", p)}
           ELSE IF \E x \in policy.trunks[p] : Untagged(t, p, x) THEN {Found("fail", "tagged", p)}
           ELSE IF WrongPvid(s, p) THEN {Found("warn", "pvid", p)} ELSE {}
    BY TrunkFindingsAre
  <2> QED
    BY <1>3, <1>4, <2>1
<1>6. \A st, ab, x : Names(Found(st, ab, p), Fault(ab, p, x))
  BY FoundFields, FaultFields DEF Names
<1>7. CASE v = Found("fail", "port", p) /\ NoPort(s, p)
  <2>1. Fault("port", p, 0) \in Faults(s)
    BY <1>1, <1>7, TrunkFaultsAre
  <2> QED
    BY <1>6, <1>7, <2>1
<1>8. CASE v = Found("fail", "tagged", p) /\ \E x \in policy.trunks[p] : Untagged(t, p, x)
  <2>1. PICK x : Untagged(t, p, x)
    BY <1>8
  <2>2. Fault("tagged", p, x) \in Faults(t)
    BY <1>1, <2>1, TrunkFaultsAre
  <2> QED
    BY <1>6, <1>8, <2>2
<1> QED
  BY <1>5, <1>7, <1>8

-----------------------------------------------------------------------------
(* The theorems.                                                           *)

LEMMA OneTable ==
  ASSUME AuditRunAssumption, WasRead, pc = "done", Faithful,
         NEW t \in Tables, Plan = <<t>>, TablesOf(audit) = {t}
  PROVE  \E s \in during :
           /\ s \in Fillings({t}) /\ s[t] \in TableTypes[t] /\ DOMAIN s = {t} /\ Comparable(s)
           /\ Seen(t) = Read(s, t)
           /\ backend = "fixture" /\ t \notin {"routes", "snmp"} => Seen(t) = s[t]
<1>1. PICK s \in during : Seen(t) = Read(s, t)
  BY SeenOnly
<1>2. s \in Fillings({t}) /\ {t} \subseteq Tables
  BY DEF WasRead
<1>3. s[t] \in TableTypes[t] /\ DOMAIN s = {t}
  BY <1>2, FillingTypes
<1>4. backend = "fixture" /\ t \notin {"routes", "snmp"} => Read(s, t) = s[t]
  BY <1>2, FixtureIsRead
<1> QED
  BY <1>1, <1>2, <1>3, <1>4 DEF Faithful

\* An audit that has no table to read leaves it open, or is not meant.
LEMMA NothingRead ==
  ASSUME WasRead, Judgement \in {NoPolicy, Only("skip", "role")}
  PROVE  \E s \in during : Agrees(s, Judgement)
<1>1. \A st \in {"unknown", "skip", "warn"} : \A ab : Agrees(device, Only(st, ab))
  BY NeitherAgrees
<1> QED
  BY <1>1 DEF NoPolicy, WasRead

\* The twelve audits of one table.
LEMMA Agreement ==
  ASSUME AuditRunAssumption, WasRead, pc = "done", Faithful,
         audit \notin {"trunk_vlan_sanity", "mangle_queue_correlation"}
  PROVE  \E s \in during : Agrees(s, Judgement)
<1>1. policy \in Policies
  BY DEF WasRead
<1>2. audit \notin {"firmware_drift", "stp_edge", "dead_mangle_rules"} => backend = "fixture"
  BY DEF Faithful, KeysSurvive
<1>3. CASE audit = "firmware_drift"
  <2>1. Plan = <<"version">> /\ TablesOf(audit) = {"version"} /\ "version" \in Tables
    BY <1>3 DEF Plan, PolicyReads, TablesOf, Tables
  <2>2. PICK s \in during : s \in Fillings({"version"}) /\ Comparable(s) /\ Seen("version") = Read(s, "version")
    BY <2>1, OneTable
  <2>3. Seen("version") = s.version
    BY <2>2 DEF Read
  <2> QED
    BY <1>1, <1>3, <2>2, <2>3, FirmwareAgrees
<1>4. CASE audit = "stp_edge"
  <2>1. CASE policy.edge = {}
    BY <1>4, <2>1, NothingRead DEF Judgement, StpEdge
  <2>2. CASE policy.edge # {}
    <3>1. Plan = <<"ports">> /\ TablesOf(audit) = {"ports"} /\ "ports" \in Tables
      BY <1>4, <2>2 DEF Plan, PolicyReads, TablesOf, Tables
    <3>2. PICK s \in during : s["ports"] \in TableTypes["ports"] /\ Seen("ports") = Read(s, "ports")
      BY <3>1, OneTable
    <3>3. s.ports \subseteq PortType
      BY <3>2 DEF TableTypes
    <3> QED
      BY <1>4, <2>2, <3>2, <3>3, EdgeAgrees
  <2> QED
    BY <2>1, <2>2
<1>5. CASE audit = "route_ownership"
  <2>1. CASE policy.owned = {}
    BY <1>5, <2>1, NothingRead DEF Judgement, RouteOwnership
  <2>2. CASE policy.owned # {}
    <3>1. Plan = <<"routes">> /\ TablesOf(audit) = {"routes"} /\ "routes" \in Tables
      BY <1>5, <2>2 DEF Plan, PolicyReads, TablesOf, Tables
    <3>2. PICK s \in during : /\ s["routes"] \in TableTypes["routes"] /\ Comparable(s)
                            /\ Seen("routes") = Read(s, "routes")
      BY <3>1, OneTable
    <3>3. s.routes \subseteq RouteType
      BY <3>2 DEF TableTypes
    <3> QED
      BY <1>1, <1>2, <1>5, <2>2, <3>2, <3>3, OwnedAgrees
  <2> QED
    BY <2>1, <2>2
<1>6. CASE audit = "default_route_sanity"
  <2>1. Plan = <<"routes">> /\ TablesOf(audit) = {"routes"} /\ "routes" \in Tables
    BY <1>6 DEF Plan, PolicyReads, TablesOf, Tables
  <2>2. PICK s \in during : s["routes"] \in TableTypes["routes"] /\ Seen("routes") = Read(s, "routes")
    BY <2>1, OneTable
  <2>3. s.routes \subseteq RouteType
    BY <2>2 DEF TableTypes
  <2> QED
    BY <1>2, <1>6, <2>2, <2>3, DefaultAgrees
<1>7. CASE audit = "wan_failover_state"
  <2>1. CASE role \notin GatewayRoles \/ ~policy.primary
    BY <1>7, <2>1, NothingRead DEF Judgement, WanFailoverState
  <2>2. CASE role \in GatewayRoles /\ policy.primary
    <3>1. Plan = <<"routes">> /\ TablesOf(audit) = {"routes"} /\ "routes" \in Tables
      BY <1>7, <2>2 DEF Plan, PolicyReads, TablesOf, Tables
    <3>2. PICK s \in during : s["routes"] \in TableTypes["routes"] /\ Seen("routes") = Read(s, "routes")
      BY <3>1, OneTable
    <3>3. s.routes \subseteq RouteType
      BY <3>2 DEF TableTypes
    <3> QED
      BY <1>2, <1>7, <2>2, <3>2, <3>3, FailoverAgrees
  <2> QED
    BY <2>1, <2>2
<1>8. CASE audit = "snmp_scope"
  <2>1. CASE NoSnmpPolicy(policy)
    BY <1>8, <2>1, NothingRead DEF Judgement, SnmpScope
  <2>2. CASE ~NoSnmpPolicy(policy)
    <3>1. Plan = <<"snmp">> /\ TablesOf(audit) = {"snmp"} /\ "snmp" \in Tables
      BY <1>8 DEF Plan, PolicyReads, TablesOf, Tables
    <3>2. PICK s \in during : /\ s["snmp"] \in TableTypes["snmp"] /\ Comparable(s)
                            /\ Seen("snmp") = Read(s, "snmp")
      BY <3>1, OneTable
    <3> QED
      BY <1>1, <1>2, <1>8, <2>2, <3>2, SnmpAgrees
  <2> QED
    BY <2>1, <2>2
<1>9. CASE audit = "vlan_consistency"
  <2>1. CASE policy.vlans = {}
    BY <1>9, <2>1, NothingRead DEF Judgement, VlanConsistency
  <2>2. CASE policy.vlans # {}
    <3>1. Plan = <<"vlans">> /\ TablesOf(audit) = {"vlans"} /\ "vlans" \in Tables
      BY <1>9, <2>2 DEF Plan, PolicyReads, TablesOf, Tables
    <3>2. PICK s \in during : DOMAIN s = {"vlans"} /\ Comparable(s) /\ Seen("vlans") = s["vlans"]
      BY <1>2, <1>9, <3>1, OneTable
    <3> QED
      BY <1>9, <2>2, <3>2, VlansAgree
  <2> QED
    BY <2>1, <2>2
<1>10. CASE audit = "dscp_policy"
  <2>1. Plan = <<"rules">> /\ TablesOf(audit) = {"rules"} /\ "rules" \in Tables
    BY <1>10 DEF Plan, DscpReads, TablesOf, Tables
  <2>2. PICK s \in during : /\ s["rules"] \in TableTypes["rules"] /\ DOMAIN s = {"rules"}
                          /\ Comparable(s) /\ Seen("rules") = s["rules"]
    BY <1>2, <1>10, <2>1, OneTable
  <2>3. s.rules \in Seq(RuleType)
    BY <2>2 DEF TableTypes
  <2> QED
    BY <1>10, <2>2, <2>3, DscpAgrees
<1>11. CASE audit = "dead_mangle_rules"
  <2>1. Plan = <<"mangle">> /\ TablesOf(audit) = {"mangle"} /\ "mangle" \in Tables
    BY <1>11 DEF Plan, DeadMangleReads, TablesOf, Tables
  <2>2. PICK s \in during : s["mangle"] \in TableTypes["mangle"] /\ Seen("mangle") = Read(s, "mangle")
    BY <2>1, OneTable
  <2>3. s.mangle \subseteq MarkType
    BY <2>2 DEF TableTypes
  <2> QED
    BY <1>11, <2>2, <2>3, DeadAgrees
<1>12. CASE audit = "qos_state"
  <2>1. Plan = <<"simple">> /\ TablesOf(audit) = {"simple"} /\ "simple" \in Tables
    BY <1>12 DEF Plan, QosReads, TablesOf, Tables
  <2>2. PICK s \in during : Seen("simple") = s["simple"]
    BY <1>2, <1>12, <2>1, OneTable
  <2> QED
    BY <1>12, <2>2, QosAgrees
<1>13. CASE audit = "encrypted_dns"
  <2>1. Plan = <<"dns">> /\ TablesOf(audit) = {"dns"} /\ "dns" \in Tables
    BY <1>13 DEF Plan, DnsReads, TablesOf, Tables
  <2>2. PICK s \in during : Seen("dns") = s["dns"]
    BY <1>2, <1>13, <2>1, OneTable
  <2> QED
    BY <1>13, <2>2, DnsAgrees
<1>14. CASE audit = "backup_retention"
  <2>1. Plan = <<"backups">> /\ TablesOf(audit) = {"backups"} /\ "backups" \in Tables
    BY <1>14 DEF Plan, BackupReads, TablesOf, Tables
  <2>2. PICK s \in during : Seen("backups") = s["backups"]
    BY <1>2, <1>14, <2>1, OneTable
  <2> QED
    BY <1>14, <2>2, BackupsAgree
<1> QED
  BY <1>3, <1>4, <1>5, <1>6, <1>7, <1>8, <1>9, <1>10, <1>11, <1>12, <1>13, <1>14 DEF WasRead, Audits

\* The verdict of an audit that reads one table is about one moment: if anything
\* was wrong with the device then, it says so, and each failure it reports was
\* there then; even if nothing stayed as it was for the whole of the audit.
OneTableAtATime ==
  (pc = "done" /\ Faithful /\ audit \notin {"trunk_vlan_sanity", "mangle_queue_correlation"})
    => \E s \in during : Agrees(s, verdict)

THEOREM VerdictOfAMoment == ASSUME AuditRunAssumption PROVE Spec => []OneTableAtATime
<1>1. WasRead => OneTableAtATime
  BY Agreement DEF WasRead, OneTableAtATime
<1> QED
  BY <1>1, WasReadInvariant, PTL

\* Where dscp_policy finds the order right and nothing fails, over a fixture whose
\* wash rules match what they say they wash, no trust rule lets a marked packet
\* from the WAN keep its mark: for any list of rules, whatever the trust rules
\* match, and however the list changed meanwhile.
NothingFails(findings) == \A v \in findings : v.status # "fail"

THEOREM OrderIsSound == ASSUME AuditRunAssumption PROVE Spec => []CleanOrderMeansWashed
<1>1. ASSUME WasRead, OrderPassed, NothingFails(verdict)
      PROVE  \E s \in during : \A d \in 1..63 : ~Leaks(s.rules, d)
  <2>1. /\ pc = "done" /\ Faithful /\ audit = "dscp_policy" /\ backend = "fixture"
        /\ Plan = <<"rules">> /\ TablesOf(audit) = {"rules"} /\ "rules" \in Tables
    BY <1>1 DEF OrderPassed, Faithful, KeysSurvive, Plan, DscpReads, TablesOf, Tables
  <2>2. PICK s \in during : /\ s["rules"] \in TableTypes["rules"] /\ DOMAIN s = {"rules"}
                            /\ Comparable(s) /\ Seen("rules") = s["rules"]
    BY <1>1, <2>1, OneTable
  <2>3. s.rules \in Seq(RuleType) /\ WashesMatch(s.rules)
    BY <2>2 DEF TableTypes, Comparable, WashesMatch
  <2>4. Found("pass", "order", "") \in DscpPolicy(role, s.rules) /\ verdict = DscpPolicy(role, s.rules)
    BY <1>1, <2>1, <2>2 DEF OrderPassed, WasRead, Judgement
  <2>5. OrderFindings(s.rules) = Only("pass", "order") /\ WanWashes(s.rules) # {}
    BY <2>4, OrderFromOrder
  <2>6. TrustFindings(s.rules) \subseteq verdict
    BY <2>4, OrderFromOrder
  <2>7. TrustFindings(s.rules) # Only("fail", "trust")
    <3>1. ~NothingFails(Only("fail", "trust"))
      BY DEF NothingFails, Only, Found
    <3> QED
      BY <1>1, <2>6, <3>1 DEF NothingFails
  <2>8. OrderFindings(s.rules) # Only("warn", "order")
    <3>1. Found("pass", "order", "") # Found("warn", "order", "")
      BY DEF Found
    <3> QED
      BY <2>5, <3>1 DEF Only
  <2>9. ASSUME NEW d \in 1..63 PROVE ~Leaks(s.rules, d)
    BY <2>3, <2>5, <2>7, <2>8, LeakIsFound
  <2> QED
    BY <2>9
<1>2. WasRead => CleanOrderMeansWashed
  BY <1>1 DEF CleanOrderMeansWashed, NothingFails
<1> QED
  BY <1>2, WasReadInvariant, PTL

\* What trunk_vlan_sanity and mangle_queue_correlation judge.
LEMMA TrunkTables ==
  ASSUME AuditRunAssumption, WasRead, pc = "done", Faithful, audit = "trunk_vlan_sanity",
         DOMAIN policy.trunks # {}
  PROVE  \E s \in during, t \in during :
           /\ Seen("ports") = s.ports /\ Seen("vlans") = t.vlans
           /\ "vlans" \in DOMAIN t /\ Comparable(t)
<1> DEFINE ts == {"ports", "vlans"}
<1>1. Plan = <<"ports", "vlans">> /\ TablesOf(audit) = ts /\ ts \subseteq Tables
  BY DEF Plan, PolicyReads, TablesOf, Tables
<1>2. backend = "fixture" /\ \A s \in during : Comparable(s)
  BY DEF Faithful, KeysSurvive
<1>3. 1 \in DOMAIN <<"ports", "vlans">> /\ 2 \in DOMAIN <<"ports", "vlans">>
  OBVIOUS
<1>4. <<"ports", "vlans">>[1] = "ports" /\ <<"ports", "vlans">>[2] = "vlans"
  OBVIOUS
<1>5. PICK s \in during : Seen("ports") = Read(s, "ports")
  BY <1>1, <1>3, <1>4, SeenThen
<1>6. PICK t \in during : Seen("vlans") = Read(t, "vlans")
  BY <1>1, <1>3, <1>4, SeenThen
<1>7. s \in Fillings(ts) /\ t \in Fillings(ts)
  BY <1>1 DEF WasRead
<1>8. Read(s, "ports") = s["ports"] /\ Read(t, "vlans") = t["vlans"]
  BY <1>1, <1>2, <1>7, FixtureIsRead
<1>9. DOMAIN t = ts
  BY <1>1, <1>7, FillingTypes
<1> QED
  BY <1>2, <1>5, <1>6, <1>8, <1>9

LEMMA MarkTables ==
  ASSUME AuditRunAssumption, WasRead, pc = "done", Faithful, audit = "mangle_queue_correlation"
  PROVE  \E s \in during, t \in during, u \in during :
           /\ Seen("mangle") = s.mangle /\ Seen("tree") = t.tree
           /\ t.tree = {} => Seen("simple") = u.simple
<1> DEFINE ts == {"mangle", "tree", "simple"}
<1>1. TablesOf(audit) = ts /\ ts \subseteq Tables
  BY DEF TablesOf, Tables
<1>2. backend = "fixture"
  BY DEF Faithful, KeysSurvive
<1>3. Plan \in {<<"mangle", "tree">>, <<"mangle", "tree", "simple">>}
  BY DEF Plan, MarkReads
<1>4. 1 \in DOMAIN Plan /\ 2 \in DOMAIN Plan /\ Plan[1] = "mangle" /\ Plan[2] = "tree"
  BY <1>3
<1>5. PICK s \in during : Seen("mangle") = Read(s, "mangle")
  BY <1>4, SeenThen
<1>6. PICK t \in during : Seen("tree") = Read(t, "tree")
  BY <1>4, SeenThen
<1>7. \A x \in during : x \in Fillings(ts)
  BY <1>1 DEF WasRead
<1>8. \A x \in during : Read(x, "mangle") = x["mangle"] /\ Read(x, "tree") = x["tree"]
                        /\ Read(x, "simple") = x["simple"]
  BY <1>1, <1>2, <1>7, FixtureIsRead
<1>9. CASE t.tree = {}
  <2>1. "tree" \in DOMAIN got
    BY <1>4 DEF WasRead, Unread
  <2>2. Plan = <<"mangle", "tree", "simple">>
    BY <1>6, <1>8, <1>9, <2>1 DEF Plan, MarkReads
  <2>3. 3 \in DOMAIN Plan /\ Plan[3] = "simple"
    BY <2>2
  <2>4. PICK u \in during : Seen("simple") = Read(u, "simple")
    BY <2>3, SeenThen
  <2> QED
    BY <1>5, <1>6, <1>8, <2>4
<1>10. CASE t.tree # {}
  BY <1>5, <1>6, <1>8, <1>10
<1> QED
  BY <1>9, <1>10

LEMMA SilentTrunks ==
  ASSUME WasRead, audit = "trunk_vlan_sanity", DOMAIN policy.trunks = {}
  PROVE  \E s \in during : Agrees(s, Judgement)
BY NothingRead DEF Judgement, TrunkVlanSanity

\* A pass never hides a lasting fault: what was wrong with the device at every
\* moment from the start of an audit to its end is reported, by each of the
\* fourteen audits, though its tables are read one after the other while the
\* device is changed.
THEOREM LastingFaults == ASSUME AuditRunAssumption PROVE Spec => []LastingFaultIsReported
<1>1. WasRead => LastingFaultIsReported
  <2> SUFFICES ASSUME WasRead, pc = "done", Faithful, NEW f, \A s \in during : f \in Faults(s)
               PROVE  Speaks(Judgement)
    BY DEF LastingFaultIsReported, WasRead, Speaks
  <2>1. ASSUME NEW s \in during, Agrees(s, Judgement) PROVE Speaks(Judgement)
    BY <2>1 DEF Agrees, Reports
  <2>2. CASE audit \notin {"trunk_vlan_sanity", "mangle_queue_correlation"}
    BY <2>1, <2>2, Agreement
  <2>3. CASE audit = "trunk_vlan_sanity" /\ DOMAIN policy.trunks = {}
    BY <2>1, <2>3, SilentTrunks
  <2>4. CASE audit = "trunk_vlan_sanity" /\ DOMAIN policy.trunks # {}
    <3>1. PICK s \in during, t \in during :
            /\ Seen("ports") = s.ports /\ Seen("vlans") = t.vlans
            /\ "vlans" \in DOMAIN t /\ Comparable(t)
      BY <2>4, TrunkTables
    <3> QED
      BY <2>4, <3>1, LastingTrunkFault
  <2>5. CASE audit = "mangle_queue_correlation"
    <3>1. PICK s \in during, t \in during, u \in during :
            /\ Seen("mangle") = s.mangle /\ Seen("tree") = t.tree
            /\ t.tree = {} => Seen("simple") = u.simple
      BY <2>5, MarkTables
    <3>2. Judgement = Only("warn", "marks")
      BY <2>5, <3>1, LastingMarkFault
    <3> QED
      BY <3>2, OnlySpeaks
  <2> QED
    BY <2>2, <2>3, <2>4, <2>5
<1> QED
  BY <1>1, WasReadInvariant, PTL

\* A failure is never put together from two moments: each is about something that
\* was wrong, with that port, at some one moment of the audit.
THEOREM FailuresWereThere == ASSUME AuditRunAssumption PROVE Spec => []FailureWasThere
<1>1. WasRead => FailureWasThere
  <2> SUFFICES ASSUME WasRead, pc = "done", Faithful, NEW v \in Failures(Judgement)
               PROVE  \E s \in during : \E f \in Faults(s) : Names(v, f)
    BY DEF FailureWasThere, WasRead, Failures, Names
  <2>1. ASSUME NEW s \in during, Agrees(s, Judgement)
        PROVE  \E f \in Faults(s) : Names(v, f)
    BY <2>1 DEF Agrees, Justified
  <2>2. CASE audit \notin {"trunk_vlan_sanity", "mangle_queue_correlation"}
    BY <2>1, <2>2, Agreement
  <2>3. CASE audit = "trunk_vlan_sanity" /\ DOMAIN policy.trunks = {}
    BY <2>1, <2>3, SilentTrunks
  <2>4. CASE audit = "trunk_vlan_sanity" /\ DOMAIN policy.trunks # {}
    <3>1. PICK s \in during, t \in during :
            /\ Seen("ports") = s.ports /\ Seen("vlans") = t.vlans
            /\ "vlans" \in DOMAIN t /\ Comparable(t)
      BY <2>4, TrunkTables
    <3>2. \E f \in Faults(s) \cup Faults(t) : Names(v, f)
      BY <2>4, <3>1, TrunkFailureWasThere
    <3> QED
      BY <3>2
  <2>5. CASE audit = "mangle_queue_correlation"
    BY <2>5, MarksNeverFail
  <2> QED
    BY <2>2, <2>3, <2>4, <2>5
<1> QED
  BY <1>1, WasReadInvariant, PTL

\* What an audit returns is made of findings, and is never empty.
Told(found) == found \subseteq Finding /\ found # {}
Statuses == {"pass", "warn", "fail", "unknown", "skip"}
Subjects == {"policy", "data", "role", "version", "edge", "owned", "access",
             "community", "missing", "extra", "vlans", "port", "tagged", "pvid",
             "trunks", "default", "second", "marks", "rules", "trust", "wash",
             "order", "sets", "values", "orphaned", "disabled", "dead", "queues",
             "limit", "dns", "encryption", "dates", "backups"}
Ports == UNION {DOMAIN p.trunks : p \in Policies}

LEMMA FoundTold ==
  ASSUME NEW st \in Statuses, NEW ab \in Subjects, NEW port \in {""} \cup Ports
  PROVE  Found(st, ab, port) \in Finding
BY DEF Found, Finding, Statuses, Subjects, Ports

LEMMA OnlyTold ==
  ASSUME NEW st \in Statuses, NEW ab \in Subjects
  PROVE  Told(Only(st, ab))
BY FoundTold DEF Only, Told

LEMMA UnionTold ==
  ASSUME NEW A, NEW B, Told(A), B = {} \/ Told(B)
  PROVE  Told(A \cup B) /\ Told(B \cup A)
BY DEF Told

\* The findings of one kind.
LEMMA PlainTold ==
  ASSUME audit \in Audits \ {"snmp_scope", "trunk_vlan_sanity", "dscp_policy"}
  PROVE  \E st \in Statuses, ab \in Subjects : Judgement = Only(st, ab)
<1>1. CASE audit = "firmware_drift"
  BY <1>1 DEF Judgement, FirmwareDrift, NoPolicy, Statuses, Subjects
<1>2. CASE audit = "stp_edge"
  BY <1>2 DEF Judgement, StpEdge, NoPolicy, Statuses, Subjects
<1>3. CASE audit = "route_ownership"
  BY <1>3 DEF Judgement, RouteOwnership, NoPolicy, Statuses, Subjects
<1>4. CASE audit = "vlan_consistency"
  BY <1>4 DEF Judgement, VlanConsistency, NoPolicy, Statuses, Subjects
<1>5. CASE audit = "default_route_sanity"
  BY <1>5 DEF Judgement, DefaultRouteSanity, Statuses, Subjects
<1>6. CASE audit = "wan_failover_state"
  BY <1>6 DEF Judgement, WanFailoverState, NoPolicy, Statuses, Subjects
<1>7. CASE audit = "mangle_queue_correlation"
  BY <1>7 DEF Judgement, MangleQueueCorrelation, Statuses, Subjects
<1>8. CASE audit = "dead_mangle_rules"
  BY <1>8 DEF Judgement, DeadMangleRules, Statuses, Subjects
<1>9. CASE audit = "qos_state"
  BY <1>9 DEF Judgement, QosState, Statuses, Subjects
<1>10. CASE audit = "encrypted_dns"
  BY <1>10 DEF Judgement, EncryptedDns, Statuses, Subjects
<1>11. CASE audit = "backup_retention"
  BY <1>11 DEF Judgement, BackupRetention, Statuses, Subjects
<1> QED
  BY <1>1, <1>2, <1>3, <1>4, <1>5, <1>6, <1>7, <1>8, <1>9, <1>10, <1>11 DEF Audits

LEMMA SnmpTold ==
  ASSUME audit = "snmp_scope" PROVE Told(Judgement)
<1> DEFINE seen == Seen("snmp")
<1>1. \E st \in Statuses : SnmpCommunity(policy, seen) = Only(st, "community")
  BY DEF SnmpCommunity, Statuses
<1>2. SnmpAccess(policy, seen) = {} \/ \E st \in Statuses : SnmpAccess(policy, seen) = Only(st, "access")
  BY DEF SnmpAccess, Statuses
<1>3. \A st \in Statuses : /\ Told(Only(st, "community")) /\ Told(Only(st, "access"))
                           /\ Told(Only(st, "policy")) /\ Told(Only(st, "data"))
  BY OnlyTold DEF Subjects
<1>4. Told(SnmpAccess(policy, seen) \cup SnmpCommunity(policy, seen))
  BY <1>1, <1>2, <1>3, UnionTold
<1>5. Judgement \in {NoPolicy, Only("unknown", "data"),
                     SnmpAccess(policy, seen) \cup SnmpCommunity(policy, seen)}
  BY DEF Judgement, SnmpScope
<1> QED
  BY <1>3, <1>4, <1>5 DEF NoPolicy, Statuses

LEMMA TrunksTold ==
  ASSUME audit = "trunk_vlan_sanity", policy \in Policies PROVE Told(Judgement)
<1> DEFINE findings == UNION {TrunkFindings(policy, Seen("ports"), Seen("vlans"), port) :
                                port \in DOMAIN policy.trunks}
<1>1. ASSUME NEW port \in DOMAIN policy.trunks
      PROVE  TrunkFindings(policy, Seen("ports"), Seen("vlans"), port) \subseteq Finding
  <2>1. port \in {""} \cup Ports
    BY DEF Ports
  <2>2. /\ Found("fail", "port", port) \in Finding /\ Found("fail", "tagged", port) \in Finding
        /\ Found("warn", "pvid", port) \in Finding
    BY <2>1, FoundTold DEF Statuses, Subjects
  <2> QED
    BY <2>2 DEF TrunkFindings
<1>2. findings \subseteq Finding
  BY <1>1
<1>3. Judgement \in {NoPolicy, Only("pass", "trunks")} \/ (Judgement = findings /\ findings # {})
  BY DEF Judgement, TrunkVlanSanity
<1>4. Told(NoPolicy) /\ Told(Only("pass", "trunks"))
  BY OnlyTold DEF NoPolicy, Statuses, Subjects
<1> HIDE DEF findings
<1> QED
  BY <1>2, <1>3, <1>4 DEF Told

LEMMA DscpTold ==
  ASSUME audit = "dscp_policy" PROVE Told(Judgement)
<1> DEFINE rules == Seen("rules")
<1>1. Judgement = DscpPolicy(role, rules)
  BY DEF Judgement
<1> HIDE DEF rules
<1>2. \A st \in Statuses, ab \in Subjects : Told(Only(st, ab))
  BY OnlyTold
<1>3. TrustFindings(rules) = {} \/ Told(TrustFindings(rules))
  BY <1>2 DEF TrustFindings, Statuses, Subjects
<1>4. Told(WashFindings(rules))
  BY <1>2 DEF WashFindings, Statuses, Subjects
<1>5. OrderFindings(rules) = {} \/ Told(OrderFindings(rules))
  BY <1>2 DEF OrderFindings, Statuses, Subjects
<1>6. SetFindings(rules) = {} \/ Told(SetFindings(rules))
  <2>1. PICK a \in {{}, Only("warn", "values")}, b \in {{}, Only("warn", "orphaned")},
             c \in {{}, Only("pass", "sets")} :
          SetFindings(rules) \in {Only("warn", "sets"), (a \cup b) \cup c}
    BY DEF SetFindings
  <2>2. /\ Told(Only("warn", "sets")) /\ Told(Only("warn", "values")) /\ Told(Only("pass", "sets"))
        /\ Told(Only("warn", "orphaned"))
    BY <1>2 DEF Statuses, Subjects
  <2>3. a \cup b = {} \/ Told(a \cup b)
    BY <2>2, UnionTold
  <2>4. (a \cup b) \cup c = {} \/ Told((a \cup b) \cup c)
    BY <2>2, <2>3, UnionTold
  <2> QED
    BY <2>1, <2>2, <2>4
<1>7. \A st \in {"unknown", "skip", "warn"}, ab \in {"data", "rules"} : Told(Only(st, ab))
  BY <1>2 DEF Statuses, Subjects
<1>8. ASSUME NEW off \in {{}, Only("warn", "disabled")}
      PROVE  Told(TrustFindings(rules) \cup WashFindings(rules)
                \cup OrderFindings(rules) \cup SetFindings(rules) \cup off)
  <2>1. Told(TrustFindings(rules) \cup WashFindings(rules))
    BY <1>3, <1>4, UnionTold
  <2>2. Told(TrustFindings(rules) \cup WashFindings(rules) \cup OrderFindings(rules))
    BY <1>5, <2>1, UnionTold
  <2>3. Told(TrustFindings(rules) \cup WashFindings(rules) \cup OrderFindings(rules)
               \cup SetFindings(rules))
    BY <1>6, <2>2, UnionTold
  <2>4. off = {} \/ Told(off)
    BY <1>2 DEF Statuses, Subjects
  <2> QED
    BY <2>3, <2>4, UnionTold
<1> QED
  BY <1>1, <1>7, <1>8, DscpParts

\* Every audit that returns, returns findings of the known kinds, one at least;
\* one that fails or still runs has none.
THEOREM AuditTypes == ASSUME AuditRunAssumption PROVE Spec => []TypeOK
<1>1. WasRead => TypeOK
  <2> SUFFICES ASSUME WasRead PROVE TypeOK
    OBVIOUS
  <2>1. Told(Judgement)
    <3>1. CASE audit \notin {"snmp_scope", "trunk_vlan_sanity", "dscp_policy"}
      BY <3>1, PlainTold, OnlyTold DEF WasRead
    <3> QED
      BY <3>1, SnmpTold, TrunksTold, DscpTold DEF WasRead
  <2>2. verdict \subseteq Finding /\ (pc = "done") = (verdict # {})
    BY <2>1 DEF WasRead, Told
  <2> QED
    BY <2>2 DEF WasRead, TypeOK
<1> QED
  BY <1>1, WasReadInvariant, PTL

===============================================================================
