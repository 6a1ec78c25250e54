---------------------------- MODULE RuleVerdicts ----------------------------
(***************************************************************************)
(* The verdicts of the audits with a file of their own: dscp_policy,       *)
(* dead_mangle_rules, qos_state, encrypted_dns and backup_retention, in the *)
(* form of AuditVerdicts.                                                  *)
(*                                                                         *)
(* The mangle rules of dscp_policy are a sequence, because their order      *)
(* counts.  An interface is named by what it leads to, "!" negates it, and  *)
(* "" is any; a comment is the set of what an audit looks for in it: words, *)
(* and how it starts ("trust", or "trust " with a blank, which is narrower); *)
(* a DSCP value is 0 to 63, NoDscp if the field is empty and OddDscp if it  *)
(* is no number ("!46").                                                    *)
(***************************************************************************)
EXTENDS AuditVerdicts

NoDscp == 64
OddDscp == 65

\* _dscp_value returns None for both.
DscpValue(value) == IF value = OddDscp THEN NoDscp ELSE value

ExpectedDscp == {0, 8, 26, 34, 36, 38, 46}

-----------------------------------------------------------------------------
(* dscp_policy.                                                            *)

\* The names contain a WAN token, negated or not.
MatchesWan(rule) == \/ {rule.input, rule.output} \cap {"wan", "!wan"} # {}
                    \/ "wan" \in rule.comment

MatchesIot(rule) == rule.input \in {"iot", "!iot"} \/ "iot" \in rule.comment

\* A wrong variant (these show that a property can fail): a negated interface
\* is taken for an interface.
TrustMayIncludeWanNamed(rule) == rule.input = "" \/ MatchesWan(rule)

TrustMayIncludeWan(rule) == rule.input \in {"", "!wan", "!iot"} \/ MatchesWan(rule)

Trusts(rule) == rule.action = "accept" /\ "trust" \in rule.comment

\* It changes DSCP, matches it, or says so.
AffectsDscp(rule) == \/ rule.action \in {"change-dscp", "set-priority"}
                     \/ rule.dscp # NoDscp \/ rule.newDscp # NoDscp
                     \/ rule.comment \cap {"dscp", "trust "} # {}

Washes(rule) == /\ rule.action = "change-dscp" /\ DscpValue(rule.newDscp) = 0
                /\ rule.chain = "prerouting" \/ "wash" \in rule.comment

\* The rules that are not disabled, by position.
EnabledAt(rules) == {i \in DOMAIN rules : ~rules[i].disabled}

TrustFindings(rules) ==
  LET trusting == {i \in EnabledAt(rules) : Trusts(rules[i])}
  IN CASE trusting = {} -> {}
       [] \E i \in trusting : DscpValue(rules[i].dscp) = NoDscp -> Only("fail", "trust")
       [] OTHER -> Only("pass", "trust")

WanWashes(rules) == {i \in EnabledAt(rules) : Washes(rules[i]) /\ MatchesWan(rules[i])}

WashFindings(rules) ==
  LET iot == {i \in EnabledAt(rules) : Washes(rules[i]) /\ MatchesIot(rules[i])}
  IN Only(IF WanWashes(rules) # {} /\ iot # {} THEN "pass" ELSE "warn", "wash")

\* Only the first wash counts.
OrderFindings(rules) ==
  LET early == {i \in EnabledAt(rules) : /\ Trusts(rules[i]) /\ rules[i].dscp # NoDscp
                                         /\ TrustMayIncludeWan(rules[i])
                                         /\ \A w \in WanWashes(rules) : i < w}
  IN IF WanWashes(rules) = {} THEN {} ELSE Only(IF early # {} THEN "warn" ELSE "pass", "order")

\* Disabled producers do not count.
SetFindings(rules) ==
  LET sets == {i \in EnabledAt(rules) : rules[i].action = "change-dscp" /\ rules[i].mark # ""}
      produced == {rules[i].newMark : i \in EnabledAt(rules)}
      unexpected == {i \in sets : DscpValue(rules[i].newDscp) \notin ExpectedDscp}
      orphaned == {i \in sets : rules[i].mark \notin produced}
  IN IF sets = {} THEN Only("warn", "sets")
     ELSE (IF unexpected # {} THEN Only("warn", "values") ELSE {})
          \cup (IF orphaned # {} THEN Only("warn", "orphaned") ELSE {})
          \cup (IF unexpected \cup orphaned = {} THEN Only("pass", "sets") ELSE {})

DscpPolicy(role, rules) ==
  LET ofDscp == {i \in DOMAIN rules : AffectsDscp(rules[i])}
  IN CASE rules = <<>> -> Only(IF role \in GatewayRoles THEN "unknown" ELSE "skip", "data")
       [] rules # <<>> /\ ofDscp = {} -> Only("warn", "rules")
       [] OTHER -> TrustFindings(rules) \cup WashFindings(rules) \cup OrderFindings(rules)
                     \cup SetFindings(rules)
                     \cup (IF \E i \in ofDscp : rules[i].disabled THEN Only("warn", "disabled")
                                                                  ELSE {})

-----------------------------------------------------------------------------
(* The others.                                                             *)

\* What it reports is evidence: rules disabled, or with a comment that
\* suggests that they are left over.
Suspicious(rules) == {r \in rules : r.disabled \/ r.leftover}

DeadMangleRules(role, rules) ==
  CASE rules = {} -> Only(IF role \in GatewayRoles THEN "unknown" ELSE "pass", "data")
    [] rules # {} /\ Suspicious(rules) # {} -> Only("warn", "dead")
    [] OTHER -> Only("pass", "dead")

\* max_limit: absent, "0" or "unlimited" is "none"; anything else is a limit.
QosState(queues) ==
  CASE queues = {} -> Only("fail", "queues")
    [] queues # {} /\ \A q \in queues : q.limit = "none" -> Only("warn", "limit")
    [] OTHER -> Only("pass", "limit")

EncryptedDns(policy, dns) ==
  CASE ~policy.encrypted -> Only("pass", "policy")
    [] policy.encrypted /\ ~dns.there -> Only("unknown", "data")
    [] policy.encrypted /\ dns.there /\ ~dns.servers -> Only("fail", "dns")
    [] OTHER -> Only(IF dns.doh \/ dns.dnssec THEN "pass" ELSE "warn", "encryption")

\* A backup's date is "none" if it does not parse, "old" beyond 30 days.
BackupRetention(backups) ==
  LET dated == {b \in backups : b.date # "none"}
  IN CASE backups = {} -> Only("unknown", "data")
       [] backups # {} /\ dated = {} -> Only("warn", "dates")
       [] OTHER -> IF /\ \E b \in dated : b.date = "recent"
                      /\ Cardinality(backups) >= 2
                   THEN Only("pass", "backups") ELSE Only("warn", "backups")

==============================================================================
