--------------------------- MODULE MCOperatorReport ---------------------------
(* A gateway whose fixture two scripts may rewrite, a switch with a fixture   *)
(* that stays, and a switch that is not allowed.  The first capture finds     *)
(* trouble with the trunk, the second a new version and no list of VLANs.     *)
EXTENDS OperatorReport

CONSTANTS s1, s2, r1, none

MCScripts == {s1, s2}
MCRunDirs == {r1}
MCCOMMANDS == <<"system-resource", "bridge-ports", "bridge-vlans">>
MCFinds == <<[x \in CommandSuffixes |-> IF x = "bridge-ports" THEN "wrong" ELSE "right"],
             [x \in CommandSuffixes |-> CASE x = "system-resource" -> "wrong"
                                          [] x = "bridge-ports" -> "empty"
                                          [] OTHER -> "garbled"]>>

Trunk(pvid) == [interface |-> "p1", pvid |-> pvid, frames |-> ""]
Vlan(id) == [ids |-> {{id}}, tagged |-> {"p1"}, disabled |-> FALSE, dynamic |-> FALSE]
MCContents ==
  [x \in CommandSuffixes \cup {"routes"} |->
     CASE x = "system-resource" ->
            [right |-> <<<<7>>, <<1, 7>>, <<3>>>>, wrong |-> <<<<7>>, <<1, 8>>>>]
       [] x = "bridge-ports" -> [right |-> {Trunk(1)}, wrong |-> {Trunk(20)}, empty |-> {}]
       [] x = "bridge-vlans" -> [right |-> {Vlan(10)}, wrong |-> {Vlan(20)}, empty |-> {}]
       [] x = "routes" -> [right |-> {[dst |-> "lan"]}]]
MCFiles ==
  [d \in {"lab", "attic"} |->
     Whole([x \in {"system-resource", "firewall-mangle", "routes"} |->
              [by |-> 0, kind |-> IF x = "system-resource" THEN "wrong" ELSE "right"]])]

Entry(role, allowed) ==
  [role |-> role, risk |-> "low", transport |-> "fixture", host |-> "192.0.2.1",
   extra |-> FALSE, port |-> 8728, tls |-> FALSE, certificate |-> "", serverName |-> "",
   allowed |-> allowed]
Item(id, entry) == [id |-> id, entry |-> entry]
Edge == Item("edge", Entry("gateway", TRUE))
Lab == Item("lab", Entry("switch", TRUE))
Attic == Item("attic", Entry("switch", FALSE))
Site == <<Edge, Lab, Attic>>
\* Refused: TLS on a transport that has none, and a plain connection to 8729.
TlsOverFixture == <<Lab, Item("edge", [Entry("gateway", TRUE) EXCEPT !.tls = TRUE])>>
PlainOnTlsPort == <<Item("edge", [Entry("gateway", TRUE) EXCEPT !.port = 8729]), Lab>>
\* The first entry of lab would be refused; the second takes its place.
LabTwice == <<Item("lab", Entry("unknown", TRUE)), Edge, Lab>>

Policy(owned) == [version |-> <<<<7>>, <<1, 7>>>>, owned |-> owned,
                  trunks |-> [p \in {"p1"} |-> {10}]]

Ask(command, devices, audits) ==
  [command |-> command, devices |-> devices, audits |-> audits, all |-> FALSE,
   failOn |-> "none", document |-> Site, policy |-> Policy({}), policyIsValid |-> TRUE,
   note |-> <<"leftover">>, captures |-> FALSE]

Texts == UNION {[1..n -> {"token", "api_key", "quoted_community", "gap", "word"}] : n \in 1..3}

MCScenarios ==
  {[Ask("report", <<"edge">>, <<"firmware_drift", "trunk_vlan_sanity">>)
      EXCEPT !.captures = TRUE, !.failOn = "warn"]}
  \cup {[Ask("baseline", devices, <<>>) EXCEPT !.failOn = f] :
          devices \in {<<"lab", "edge", "lab">>, <<"edge">>, <<>>}, f \in {"none", "warn", "fail"}}
  \cup {[Ask("report", <<"lab", "edge">>, audits)
           EXCEPT !.all = all, !.failOn = f, !.policy = Policy({"lan"})] :
          audits \in {<<>>, <<"route_ownership", "firmware_drift", "route_ownership">>},
          all \in BOOLEAN, f \in {"none", "warn", "fail"}}
  \cup {Ask("audit", devices, audits) :
          devices \in {<<>>, <<"attic">>, <<"edge", "barn">>},
          audits \in {<<>>, <<"route_ownership">>, <<"firmware_drift", "colour">>}}
  \cup {[Ask(command, <<>>, <<>>) EXCEPT !.document = document] :
          command \in {"list-devices", "baseline"},
          document \in {<<>>, LabTwice, TlsOverFixture, PlainOnTlsPort}}
  \cup {[Ask("audit", <<>>, <<>>) EXCEPT !.policyIsValid = FALSE]}
  \cup {[Ask("audit", <<"lab">>, <<"dead_mangle_rules">>) EXCEPT !.note = text] : text \in Texts}

===============================================================================
