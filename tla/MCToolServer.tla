----------------------------- MODULE MCToolServer -----------------------------
(* Two threads, an inventory with a live router, a fixture device that is    *)
(* not allowed, and a device whose transport "ssh" has no backend.  The      *)
(* requests are those whose handling differs: repeated names, an empty list, *)
(* unknown names, and a fan-out at and over the limit.                       *)
EXTENDS ToolServer

CONSTANTS t1, t2

MCThreads == {t1, t2}
MCOneThread == {t1}
MCSymmetry == Permutations(MCThreads)
MCAudits == <<"qos_state", "trunk_vlan_sanity">>
MCAuditReads == [a \in {"qos_state", "trunk_vlan_sanity"} |->
                   IF a = "qos_state" THEN 1 ELSE 2]
MCInventory == <<"router", "lab", "switch">>
MCAllowed == {"router", "switch"}
MCTransport == [d \in {"router", "lab", "switch"} |->
                  CASE d = "router" -> "api" [] d = "lab" -> "fixture" [] OTHER -> "ssh"]

RunAudit(audits, devices) ==
  [tool |-> "run_audit", audits |-> audits, devices |-> devices]
Collector(device) == [tool |-> "collector", device |-> device]

MCRequests == {[tool |-> "untracked"],
               Collector("router"), Collector("lab"), Collector("unknown"),
               RunAudit(<<"trunk_vlan_sanity", "qos_state", "trunk_vlan_sanity">>,
                        <<"router", "lab", "router">>),
               RunAudit(<<"qos_state">>, <<>>),
               RunAudit(<<>>, <<>>),
               RunAudit(<<"qos_state", "unknown">>, <<"router">>),
               RunAudit(<<"qos_state">>, <<"router", "unknown">>)}

==============================================================================
