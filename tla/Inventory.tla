------------------------------ MODULE Inventory ------------------------------
(***************************************************************************)
(* load_inventory (config.py).  A devices file is the sequence of its       *)
(* entries, in order, each with the identifier it stands under: the same    *)
(* identifier may stand there twice.  Of an entry's fields those are kept   *)
(* that a check or a later decision looks at; "" is a field that is missing *)
(* or empty, and tls says which of the TLS fields are given.                *)
(***************************************************************************)
EXTENDS Integers, Sequences, SequencesExt

ALLOWED_ROLES == {"gateway", "switch", "ap-controller", "dhcp-server", "nat", "edge"}
ALLOWED_RISKS == {"critical", "high", "medium", "low"}
ALLOWED_TRANSPORTS == {"api", "ssh", "fixture"}

ItemType == [id : STRING,
             entry : [role : STRING, risk : STRING, transport : STRING, host : STRING,
                      extra : BOOLEAN, port : Int, tls : BOOLEAN, certificate : STRING,
                      serverName : STRING, allowed : BOOLEAN]]

\* validate_routeros_api_tls: TLS over the API only, on 8729, with both a
\* certificate and a name; without TLS none of the three.
TlsIsValid(entry) ==
  IF entry.tls THEN /\ entry.transport = "api" /\ entry.port = 8729
                    /\ entry.certificate # "" /\ entry.serverName # ""
               ELSE /\ entry.port # 8729
                    /\ entry.certificate = "" /\ entry.serverName = ""

\* The checks of load_inventory and of the DeviceEntry it makes, in order.
Checks(entry) == <<[what |-> "role", passed |-> entry.role \in ALLOWED_ROLES],
                   [what |-> "risk", passed |-> entry.risk \in ALLOWED_RISKS],
                   [what |-> "transport", passed |-> entry.transport \in ALLOWED_TRANSPORTS],
                   [what |-> "host", passed |-> entry.host # ""],
                   [what |-> "extra", passed |-> ~entry.extra],
                   [what |-> "port", passed |-> entry.port \in 1..65535],
                   [what |-> "tls", passed |-> TlsIsValid(entry)]>>

Refusals(entry) == SelectSeq(Checks(entry), LAMBDA check : ~check.passed)

Identifiers(document) == ToSet([i \in DOMAIN document |-> document[i].id])

\* yaml.safe_load makes a dictionary of it: the last entry of an identifier ...
EntryOf(document, id) ==
  document[CHOOSE i \in DOMAIN document :
             /\ document[i].id = id
             /\ \A j \in i + 1..Len(document) : document[j].id # id].entry

\* ... in the place of its first.
KeysOf(document) ==
  FoldLeft(LAMBDA keys, item : IF Contains(keys, item.id) THEN keys ELSE Append(keys, item.id),
           <<>>, document)

\* The entries are checked one after the other; one that is refused ends it
\* with a ValueError.
Refused(document) == \E id \in Identifiers(document) : Refusals(EntryOf(document, id)) # <<>>

LoadInventory(document) == [keys |-> KeysOf(document),
                            entries |-> [id \in Identifiers(document) |-> EntryOf(document, id)]]

==============================================================================
