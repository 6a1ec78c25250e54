------------------------------ MODULE MCAuditRun ------------------------------
(* Two trunks, a policy file that says nothing, one that covers all audits   *)
(* and one at the odd ends (VLAN 1, a public prefix, a short version); each  *)
(* table holds what is right, what lacks something, and what differs only    *)
(* in a field the audit may skip (disabled, dynamic, a range).               *)
EXTENDS AuditRun

Silence == [version |-> <<>>, edge |-> {}, owned |-> {}, access |-> {},
            communities |-> {}, communityPolicy |-> "", vlans |-> {}, trunks |-> <<>>,
            primary |-> FALSE, secondary |-> FALSE, encrypted |-> TRUE]
Site == [version |-> <<<<7>>, <<1, 7>>>>, edge |-> {"p2"}, owned |-> {"lan", "default"},
         access |-> {"lan"}, communities |-> {}, communityPolicy |-> "secret_store", vlans |-> {10, 20},
         trunks |-> [p \in {"p1", "p2"} |-> IF p = "p1" THEN {10, 20} ELSE {}],
         primary |-> TRUE, secondary |-> TRUE, encrypted |-> TRUE]
Odd == [version |-> <<<<7>>, <<1>>>>, edge |-> {"p1", "p2"}, owned |-> {"public"},
        access |-> {}, communities |-> {"monitoring"}, communityPolicy |-> "elsewhere",
        vlans |-> {1, 10}, trunks |-> [p \in {"p1"} |-> {10}],
        primary |-> TRUE, secondary |-> FALSE, encrypted |-> FALSE]

MCPolicies == {Silence, Site, Odd}
MCPlaces == {<<"gateway", TRUE>>, <<"switch", FALSE>>}

Port(name, pvid, frames) == [interface |-> name, pvid |-> pvid, frames |-> frames]
TagOnly == "admit-only-vlan-tagged"
Row(ids, tagged, disabled, dynamic) ==
  [ids |-> ids, tagged |-> tagged, disabled |-> disabled, dynamic |-> dynamic]
Route(dst, gateway, disabled) == [dst |-> dst, gateway |-> gateway, disabled |-> disabled]
Rule(mark, disabled) == [mark |-> mark, disabled |-> disabled, leftover |-> FALSE]
Queue(mark, disabled, invalid) ==
  [mark |-> mark, disabled |-> disabled, invalid |-> invalid, limit |-> "none"]
Limited(queue) == [queue EXCEPT !.limit = "10M"]

\* Mangle rules as dscp_policy sees them.
Plain(action, input, comment) ==
  [chain |-> "prerouting", action |-> action, input |-> input, output |-> "",
   comment |-> comment, dscp |-> NoDscp, newDscp |-> NoDscp, mark |-> "", newMark |-> "",
   disabled |-> FALSE]
Trust(input, dscp) == [Plain("accept", input, {"trust", "trust "}) EXCEPT !.dscp = dscp]
Trusted(input, dscp) == [Trust(input, dscp) EXCEPT !.comment = {"trust"}]
Wash(input) == [Plain("change-dscp", input, {"wash"}) EXCEPT !.newDscp = 0]
Stamp(mark, dscp) == [Plain("change-dscp", "", {}) EXCEPT !.mark = mark, !.newDscp = dscp]
Mark(mark) == [Plain("mark-connection", "", {}) EXCEPT !.newMark = mark]
Off(rule) == [rule EXCEPT !.disabled = TRUE]
Dns(there, servers, doh) ==
  [there |-> there, servers |-> servers, doh |-> doh, dnssec |-> FALSE]
Backup(name, date) == [name |-> name, date |-> date]
Snmp(there, addresses, community) ==
  [there |-> there, addresses |-> addresses, community |-> community]

MCContents ==
  [version |-> {<<<<7>>, <<1, 7>>, <<3>>>>, <<<<7>>, <<1, 8>>>>, <<<<7>>, <<1>>>>, <<>>},
   ports |-> {{}, {Port("p1", 1, "")}, {Port("p1", 1, ""), Port("p2", 20, TagOnly)},
              {Port("p1", 20, ""), Port("p2", 1, "")}},
   vlans |-> {{}, {Row({{10}, {20}}, {"p1"}, FALSE, FALSE)},
              {Row({{10}}, {"p1"}, FALSE, FALSE), Row({{20}}, {"p1"}, TRUE, FALSE)},
              {Row({{10}}, {"p1", "p2"}, FALSE, FALSE), Row({{1}}, {}, FALSE, TRUE)},
              {Row({{10}, {30}}, {"p1"}, FALSE, FALSE), Row({{20}}, {"p1"}, FALSE, TRUE)},
              {Row({10..20}, {"p1"}, FALSE, FALSE)}},
   routes |-> {{}, {Route("default", "isp", FALSE), Route("lan", "core", FALSE)},
               {Route("default", "isp", FALSE), Route("default", "lte", FALSE)},
               {Route("default", "isp", FALSE), Route("default", "lte", TRUE)},
               {Route("public", "isp", FALSE), Route("lan", "core", FALSE)}},
   snmp |-> {Snmp(FALSE, {}, ""), Snmp(TRUE, {}, "monitoring"), Snmp(TRUE, {"lan"}, "hidden"),
             Snmp(TRUE, {"lan", "public"}, "monitoring")},
   mangle |-> {{}, {Rule("voice", FALSE)}, {Rule("voice", TRUE)},
               {Rule("voice", FALSE), [Rule("bulk", FALSE) EXCEPT !.leftover = TRUE]}},
   tree |-> {{}, {Queue("voice", FALSE, FALSE)}, {Queue("voice", FALSE, TRUE)},
             {Queue("voice", FALSE, FALSE), Queue("bulk", FALSE, FALSE)}},
   simple |-> {{}, {Limited(Queue("", FALSE, FALSE))}, {Queue("", TRUE, FALSE)},
               {Queue("voice", FALSE, FALSE)}},
   rules |-> {<<>>, <<Plain("accept", "lan", {})>>,
              <<Wash("wan"), Wash("iot"), Trust("!iot", 46), Mark("voice"), Stamp("voice", 46)>>,
              <<Trust("!iot", 46), Wash("wan"), Wash("iot"), Mark("voice"), Stamp("voice", 46)>>,
              <<Off(Wash("wan")), Trust("", 46), Wash("wan"), Wash("iot"), Stamp("voice", 46)>>,
              <<[Trust("wan", 46) EXCEPT !.comment = {}], Wash("wan"), Wash("iot")>>,
              <<Wash("!iot"), Off(Mark("voice")), Stamp("voice", 47)>>,
              <<Trust("!iot", NoDscp), Wash("wan"), Wash("iot")>>,
              <<Trusted("", NoDscp)>>,
              <<[Wash("wan") EXCEPT !.dscp = 34], Trust("", 46), Wash("wan"), Wash("iot")>>,
              <<Wash("!wan"), Trust("lan", OddDscp), Trust("wan", 34)>>},
   dns |-> {Dns(FALSE, FALSE, FALSE), Dns(TRUE, FALSE, FALSE), Dns(TRUE, TRUE, FALSE),
            Dns(TRUE, TRUE, TRUE)},
   backups |-> {{}, {Backup("b1", "none")}, {Backup("b1", "recent")},
                {Backup("b1", "old"), Backup("b2", "recent")},
                {Backup("b1", "old"), Backup("b2", "none")}}]

==============================================================================
