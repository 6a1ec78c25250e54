# Formal models of routeros-inspector-mcp

`routeros-inspector-mcp` is a read-only MCP server that inspects RouterOS
devices: an MCP client calls a tool, the server validates it, a backend reads
one device (live, over the RouterOS API) or a captured fixture, the payload is
redacted, every tracked call leaves one line in an audit log.  This directory
holds TLA+ models of it, TLC configurations that check them on small instances,
and TLAPS proofs for instances of any size.

All paths below are relative to `src/src/routeros_inspector_mcp/` unless they
start with `src/`.

## 1. Inventory

| component | state it keeps | operations | what it interacts with |
|---|---|---|---|
| Live backend `backends/routeros_api.py` | none between calls; one local `conn` per query | one collector per kind of data, all through `_query` | credential resolver (before each connect), pinned certificate file, device |
| Credential resolver `credentials.py` | `lru_cache(maxsize=16)` of pairs | `resolve_credentials` | `ansible-vault` subprocess, vault and password file |
| MCP server `server.py` | the service, the logger, one request per thread | 12 collectors, `run_audit`, `list_audits`, `get_capabilities` | service layer, audits, audit log |
| Service layer `service.py` | inventory, policies, backends by transport, `transport_override` | `_validate_device`, `_get_backend`, `_call_backend`, `fleet_call` | backends, redaction, operation registry |
| Audit log `audit_log.py` | a JSONL file, appended to | `track`, `log`, `get_entries` | file system |
| Operation registry `registry.py` | a constant table | `get_operation` | service layer |
| Redaction `redaction.py` | none | `redact`, `safe_error_label` | service layer, audits |
| Inventory and policies `config.py` | none (read at start-up) | `load_inventory`, `load_policies` | YAML files |
| Audits `audits/*.py` | none | 14 verdict functions, two of which read the device more than once | service layer, policies |
| Fixture backend `backends/fixture.py` | none | collectors that read JSON or text files | fixture directory |
| Operator command line `cli.py` | none | inventory, collect, audit, baseline report | service layer, audits |
| Fixture capture `src/scripts/refresh_routeros_fixture.py` | a directory of fixture files, rewritten | capture over ssh, build, write | device, fixture directory |

### Where the difficulty is

- **Live backend.**  A query opens up to two connections (UTF-8, then latin-1
  after a decode error), and connect, each read and *each close* may raise.
  What makes it correct: no connection outlives the query, the two never
  overlap, replies are not mixed, each attempt goes by a certificate of its own
  time, the label tells where a query ended, and it ends.
- **Credential resolver.**  Server threads share the cache, a miss runs a
  subprocess during which other threads run, and the operator edits the vault.
  What makes it correct: a pair comes from one save, half pairs are neither
  returned nor cached, a slow miss does not overwrite what is cached, the cache
  stays within its size.
- **Server, service and audit log.**  Threads interleave, one audit of many may
  raise, the log write may fail in a `finally` clause, half way too, the process
  may be killed anywhere and started again in the other mode.  What makes it correct: one row
  per pair, a refusal touches nothing, reads go only to allowed devices through
  the selected backend, no payload leaves without its entry, no call has two
  entries.
- **Live backend and resolver together.**  A query resolves its credentials
  before each of its two connects, while the operator saves the vault and sets
  the account on the device, in two steps, and the cache goes on answering.
  What makes it correct: only what the cache holds can make a settled rotation
  fail, and the retry logs in as whole as the first attempt.
- **Audits.**  Verdicts over data read in two steps from a device that may
  change in between; boundary cases of VLAN lists, the order of mangle rules and
  firmware prefixes.  What makes them correct: a lasting fault is reported, and a
  failure was there at some moment.
- **Redaction.**  Ordered patterns whose replacement text feeds the next one.
  What makes it correct: separate secrets all go, and nothing else does.
- **Fixture capture and its readers.**  Scripts capture table by table into a
  directory that others may name, too, stop at the first failure, and truncate
  and rewrite the fixture in place under its readers.  What makes it correct: a
  published fixture is one capture, and an unreadable one has a known cause.
- **Operator command line.**  Audits run without isolation over a file that may
  change between two tables.  What makes it correct: what is printed is whole,
  every verdict comes of whole files, and a green exit has clean ones behind it.

`PROJECT.json` lists every hazard at its line, with the properties that watch it,
or why none does.

## 2. Modules

| module | what it is |
|---|---|
| `QueryContract` | abstract specification: what one live query promises |
| `LiveQuery` | `_query`, `_connect`, `_connect_latin1`, `_connect_kwargs`, step by step |
| `LiveQueryProofs` | TLAPS proofs about `LiveQuery`, refinement of `QueryContract` included |
| `Credentials` | `resolve_credentials` under `lru_cache`, with the vault |
| `CredentialsProofs` | TLAPS proofs about `Credentials` |
| `ToolServer` | MCP tool calls, service layer and audit log together |
| `LiveSession` | `LiveQuery` and `Credentials` composed, with the account on the device |
| `LiveSessionProofs` | TLAPS proofs that the composition keeps both, and its own invariants |
| `AuditVerdicts` | the verdicts of the policy-backed audits and of `mangle_queue_correlation` |
| `RuleVerdicts` | the verdicts of the five audits with a file of their own |
| `ToolServerProofs` | TLAPS proofs about the audit log and the choice of backends |
| `RunAuditProofs` | TLAPS proofs about what `run_audit` reads and the rows it returns |
| `AuditRun` | one of the fourteen audits reading its tables while the device changes |
| `AuditRunProofs` | TLAPS proofs about the verdicts of all fourteen audits: lasting faults, failures, silent policies, the order of mangle rules |
| `Inventory` | `load_inventory`: the YAML mapping and the checks of an entry |
| `Redaction` | `_redact_string`: the ordered patterns over tokens |
| `FixtureCapture` | the capture scripts, their run directories and the fixture file |
| `FixtureCaptureProofs` | TLAPS proofs about `FixtureCapture` |
| `OperatorReport` | a run of the command line over files `FixtureCapture` rewrites |
| `OperatorReportProofs` | TLAPS proofs about the report, its exit code and its redaction, and of the scripts beside it |
| `MCLiveQuery`, `MCCredentials`, `MCToolServer`, `MCLiveSession`, `MCAuditRun`, `MCOperatorReport` | the instances TLC checks |

`LiveSession` instantiates `LiveQuery` and `Credentials`; `OperatorReport`
extends `FixtureCapture`, `Inventory`, `Redaction` and the verdicts.

Definitions named "a wrong variant" in a comment are mutated forms of the
definition that follows them.  They take no part in the specification: each
shows that some property would fail if the code had that bug.

### LiveQuery

A call `c` is a server thread inside `_query`.  `pc[c]` is the program point:

| `pc` | code (`backends/routeros_api.py`) |
|---|---|
| `connect` | `conn = self._connect(device)`, line 174: the credentials, and `_connect_kwargs`, which checks and loads the pinned certificate (129-146); an exception here or in the next step leaves `_query` before its `try` |
| `dial` | `librouteros.connect`, line 155 |
| `read` | `list(conn.path(...)("print"))`, line 177, a row at a time |
| `reclose` | after `UnicodeDecodeError`: `conn.close(); conn = None`, lines 178-183 |
| `reconnect`, `redial`, `reread` | `_connect_latin1`, in the same two steps, and the second print, lines 184-186 and 200-202 |
| `finally` | lines 192-193, closing what `conn` holds |
| `done` | returned or raised |

`conn`, `rows` and `outcome` are the local variable, the list under construction
and the answer or exception on its way; `link` and `closes` record for each
attempt what it connected with and how often it was closed.  Each interaction
with librouteros has its success and its failure as separate actions
(`ReadFails`, `RecloseFails`, `ReconnectFails`, `ReturnFails`).  Labels are those
the service reports: `safe_error_label` of the exception's `error_class`, and
`internal_error` when it has none.  `ReplaceCertificate` is the operator, who may
act between the check of the certificate (`Prepare`) and the connect (`Connect`,
`Reconnect`); what the check loaded is then connected with.  `pinned` is a history
variable: the certificate was there at some moment since the attempt began.
`PinOfThisAttempt` says so of every attempt that got past the check, so that the
retry cannot go by what the first attempt had loaded.

Data left out: the rows' fields (a row is its number and the connection it came
over), the query path, host and port.  librouteros is external: a call of it
returns or raises.  Latin-1 decodes every byte, so `DecodeError` is possible
only on the first attempt.

### QueryContract

A call is idle, busy or done; while busy it acquires and releases a connection,
at most `MaxOpens` times, and it ends, releasing what it holds, with one
answer.  `LiveQuery` implements it with `phase`, `held`, `opens` and `answer`
computed from `pc`, `closes`, `link` and `outcome` (`Contract` in `LiveQuery`).

### Credentials

`cached` and `order` are the `lru_cache` (pairs, recency); `vault` is the
operator's file, a pair of version numbers per reference (0: the variable is not
there); a thread goes `idle` -> `view` (the subprocess runs) -> `parse` (the
output is searched) -> `idle`.  `since` is a history variable: what the vault held
for this reference from the start of the call until the subprocess read it.
`Hit` and `Insert` are CPython's: the C implementation does each under the
interpreter lock, releases it while the wrapped function runs, and does not
replace a key inserted in the meantime; an exception is not cached.  All the
failures of `resolve_credentials` before the output is parsed (missing file,
missing program, non-zero exit, 10 s timeout) are `ViewFails`.

### LiveSession

An action is one of `LiveQuery` (instance `Q`) or of `Credentials` (instance `C`,
one thread of it per call), or both at once where they meet.  `need[c]`
says what the coming connect has: nothing yet (`ask`), a resolution under way
(`run`) or a pair (`have`).  `Prefix` is the text after the last colon of the
device's `credential_ref`.  Where the two meet the code differs between the
attempts: `_connect` resolves before its `try`, so that a `CredentialError`
leaves `_query` as it is, and the service, finding no `error_class`, reports
`internal_error`; `_connect_latin1` resolves inside the `try` of `_query`, which
makes it `unreachable` (`CredentialError`).  `accepts[d]` is the pair device `d`
accepts, set by the operator (`Rotate`) to what the vault holds; the vault and
the devices are saved one by one.  A login succeeds only with that pair
(`LogIn`); a certificate that cannot be loaded (`Prepare` is not possible then) and
a login that fails leave the cache alone (`LogInFails`).

`fresh` is a history variable: the pair was viewed in this call, and vault and
device agreed from the moment it was asked for.  `FreshLoginAccepted` says that
such a pair is accepted.  That leaves the cached pair as the only thing that can
make a settled rotation fail, and nothing in the code drops it: until
eviction or restart every query with it ends in a refused login.

### ToolServer

A thread goes `idle` -> `check` (before `logger.track`) -> `run` -> `log` (the
`finally` clause of `track`) -> `reply` -> `answered`, with `logging` after `log`
if the line goes out in two writes.  `names` and `targets`
are the deduplicated lists of `run_audit`, `rows` its results; the pair under
work is number `Len(rows) + 1`, device-major as in the nested loops.  `ReadOk`,
`ReadFails` and `ReadDenied` are the outcomes of `Service._call_backend`;
`Fail` is the `except` clause of `run_audit`'s loop or, in a collector, the
exception that ends it; `Verdict` is the audit returning or raising on what it
read.  `touched` records which backend was read for which device.  `Crash` kills
the process at any step and starts it again, in either mode; only `log`
survives.

`log` is the sequence of what was written to the file, each a whole line, the head
of one or its rest.  A line goes out in one write (`Log` from `log`) or in two
(`LogHead`, then `Log`), other calls' writes may come between the two, either may
raise, and one that raises may have written its part all the same (`LogFails`); a
kill leaves what is there.  Assumed of the platform: a single write to a file opened
for appending goes to its end at that moment.

`LibrouterosInstalled` is whether `backends/routeros_api.py` can be imported;
`from_config` has no live backend otherwise (`service.py:75-81`).  Fixture and live
reads are "a payload or an exception"; what they do is the matter of `LiveQuery`.

### AuditVerdicts, RuleVerdicts and AuditRun

`AuditVerdicts` holds the eight audits of `audits/policy_backed.py` and
`mangle_queue_correlation`, `RuleVerdicts` the other five, one operator each:
policy and tables in, a set of findings out.  A finding is its status, what it is
about and, for a trunk, the port; its message, evidence and recommendation are
left out.  A field `vlan_ids` is a set of parts, each the set of VLANs it stands
for, because `_parse_vlan_ids` keeps `"10"` and drops `"10-12"`; a version is a
sequence of components made of digits, because `startswith` compares text.  The
mangle rules of `dscp_policy` are a sequence, a comment the set of the words the
audit looks for and of how it begins (`dscp.py:112` asks for `trust` and a space,
line 133 for `trust` alone, which `trusted` has, too), an interface what it leads to,
possibly negated.  An interface is a port of one bridge only, as in RouterOS
(`OneRowEach`); of two rows of a port the code would keep the last.

`AuditRun` is one call of such a function.  `device` is what the device holds
now, `got` what the audit has read; `Plan` is the list of tables in the order
of the code (`PolicyReads` for `audits/policy_backed.py`, `DscpReads`, `MarkReads`,
... for the audits with a file of their own), cut short where the code returns early
(silent policy, wrong role) and, for `mangle_queue_correlation`, lengthened by the simple queues when
the queue tree came back empty.  `ReadTable` and `ReadFails` are a collector
that returns or raises, `Judge` is the return of the `AuditResult`, and `Change` is
the operator, who changes one table of the device or captures the fixture
again, between any two reads.  `during` is a history variable: every state the
device was in since the audit began.

`Read` is what stands between the device and the audit.  The service redacts the
payload, which blanks out a globally routable address (`"public"`).  The live
backend keeps RouterOS's own field names, so a field the audits look up with an
underscore (`vlan_ids`, `dst_address`, `frame_types`, ...) is absent from a
live row.  Interface names and marks that happen to look like an address are
left out, and so is the second query of `get_snmp_config`, whose result no audit
looks at.

`Faults` says what is wrong with a device in a given state, with reference to the
device and the policy and not to the audit's code: ranges are expanded, versions
are compared by component, what was redacted is known.  A fault of the marks is a
fault with the queues in use, the tree or the simple ones.  The properties compare
the verdict with it, under `Faithful`, the states in which what the audit reads can
be compared with the policy at all.  Outside them:

- over the live backend all but `firmware_drift`, `stp_edge` and
  `dead_mangle_rules` look for fields that are not there (finding `live_field_names`);
- a public prefix or address in the policy never equals what was read (finding
  `public_prefix`);
- a VLAN range counts as no VLAN, so `vlan_consistency` and
  `trunk_vlan_sanity` report its VLANs as missing;
- a shorter expected version passes a longer one that begins with the same
  text (see section 3);
- a wash rule on `!WAN` contains the letters of `WAN` and counts as WAN wash
  (`dscp.py:38-44`), although it washes everything else; so does one that asks for
  a DSCP value or a packet mark and washes only what has it.

`Leaks` says of a rule list that a packet from the WAN with DSCP value `d` meets a
trust rule that accepts it, asking for its value or for none, before any rule that
washes this packet.  A trust rule is one whose comment says so, as in the code
(`dscp.py:209`): an accept rule without the word passes unseen, and the instance has
one.  `CleanOrderMeansWashed` says that where `dscp_policy` finds the wash in order
before the trust rules, and has no finding of status fail, nothing leaks.  Without the
second condition (`OrderPassMeansWashed`) that is false: the order is judged for
trust rules with a value only (finding `broad_trust`).

### FixtureCapture

`script[s]` is a script's program point and memory: capturing (`subprocess.run`
of one playbook per command), building (reading the artifacts back in the order
of `build_fixture`), about to open the fixture, or about to write it.
`artifacts[r][x]` is the artifact of command `x` in run directory `r`: which
capture wrote it, and whether its rows are right, wrong, empty or no JSON list.
`fixture` is the file: missing, blank (opened and truncated), spoilt (two writers,
the longer text's end left over), or whole, with its tables.  A capture that
fails raises, and the script ends (`CaptureFails`), with or without having
written that artifact; `Kill` ends it anywhere.  Nothing is cleaned up, in the
model as in the code.

`LiveBuildIsOneCapture` holds because `check=True` stops the capture at the first
failing command: the artifacts of an earlier run with the same `--run-id` are
then not built into a fixture.  It has an exception, `shared`: two scripts that
capture into one directory at once do mix.

### Inventory and Redaction

`Inventory` takes the devices file as the sequence of its entries, because what
PyYAML makes of an identifier that stands there twice is what the list of devices
depends on (the last entry, in the first one's place).

`Redaction` takes a text as a sequence of tokens and keeps of a token whether it
begins and ends with a word character, because most patterns ask for a word
boundary.  `Redact` folds the patterns over the text in their order.

### OperatorReport

`cli` goes `start` -> `arguments` -> `run` -> `ended`.  `BuildService` and
`ConfigRefused` are `_build_service` returning or raising; `ReadTable` and
`ReadFails` are a collector of the service, which parses the fixture file again
for each table; `Judge` appends an `AuditResult`; `Finish` prints and sets the exit
code.  An exception anywhere goes to `main`, which prints nothing but the error
and returns 2.  `files` is a history variable: the states of the captured
device's file since the first audit began.  `scenario` fixes the command line,
the inventory and the policy of a run.

Four audits stand for the fourteen, chosen for what they read: one table, two
tables, none if the policy is silent, and one that quotes what it read.  The
audits' verdicts themselves are the matter of `AuditRun`.

## 3. Runs

| run | instance | checks |
|---|---|---|
| `live_query` | 2 threads, a plain and a TLS device, replies of 2 rows; 8,194 states | `TypeOK`, `ReleasedAtReturn`, `OneConnection`, `AnswerIsOneReply`, `ClosedOnceOnSuccess`, `PinOfThisAttempt`, `LabelTellsStage`, `QueryEnds`, `KeepsContract` |
| `credentials` | 2 threads, 3 references, cache of 2, 2 saves; 304,543 states | `TypeOK`, `MissIsOneSave`, `CacheIsUsable`, `StableUntilEvicted`, `ResolveEnds` |
| `tool_server` | 2 threads (interchangeable), 3 devices, 2 audits (one reads twice), 9 requests, limit 4, 2 calls, 1 kill; 499,074 states | `TypeOK`, `EachPairOnce`, `RefusedUntouched`, `OnlySelectedBackend`, `AnswersAreLogged`, `OneEntryPerCall` |
| `live_session` | 2 threads, a plain and a TLS device with accounts of their own, cache of 1, 1 save, replies of 1 row; 696,184 states | `TypeOK`, `FreshLoginAccepted`, `LogsInWhole`, `KeepsQuery` |
| `audit_run` | 14 audits, both backends, 3 policies, 2 places, 3 to 11 contents per table, 2 changes; 948,300 states | `TypeOK`, `LastingFaultIsReported`, `FailureWasThere`, `SilentPolicyIsUnknown`, `CleanOrderMeansWashed` |
| `operator_report` | 3 devices, 4 commands, 2 scripts, 1 run directory, 3 captured commands, texts of up to 3 tokens; about 84,000 states | `TypeOK`, `LiveBuildIsOneCapture`, `UnreadableHasCause`, `AllOrNothing`, `VerdictsFromWholeFiles`, `GreenMeansClean`, `SeparateSecretsGo`, `CliEnds` |
| `credential_lifetime` | as `credentials` | `CachedForLifetime` is violated |
| `unlogged_refusal` | as `tool_server` | `EveryAuditRunLogged` is violated |
| `torn_line` | as `tool_server`, 1 thread | `EachEntryIsALine` is violated |
| `live_field_names` | as `audit_run` | `MissingEvidenceIsUnknown` is violated |
| `public_prefix` | as `audit_run` | `OwnedRouteIsFound` is violated |
| `broad_trust` | as `audit_run` | `OrderPassMeansWashed` is violated |

Bounds, and why they are enough:

- *live_query*: with 2 rows a decode error falls before the first row, or
  between the two, which is where a mixed list could arise.  The two threads
  share nothing but the certificate; the second one is there so that the
  certificate changes under two queries at different points, and for the
  proofs' claim that calls do not disturb each other.
- *credentials*: the third reference is what evicts from a cache of two; two
  threads suffice for overlapping misses of one reference; two saves give three
  versions, enough to mix an old name with a new password, to lose a variable
  and to get it back.  `MaxSaves` bounds only the operator.
- *tool_server*: the requests are those whose handling differs: repeated names
  at exactly the limit, empty lists (everything) under and over the limit,
  unknown audit, unknown device, and collectors on an allowed, a forbidden and
  an unknown device.  The inventory has a device of each kind: live, fixture but
  not allowed, and a transport (`ssh`) for which no backend is registered.
  `MaxRequests` and `MaxCrashes` bound the environment only.  The two threads are
  interchangeable (`MCSymmetry`): nothing tells them apart, and the run checks no
  liveness, for which symmetry would be unsound.  Deadlock is not
  checked here, because the instance stops when its requests are used up.
- *live_session*: a cache of one and two accounts make every second reference
  evict; one save and any number of rotations give vault and device the three
  relations there are (old and old, new and old, new and new).  One row suffices
  here, because mixing replies is the matter of `live_query`.  `Asked` says which
  devices a thread is asked about: one thread both, the other one of them, so that
  they miss one reference at once, and one evicts what the other's retry comes back
  for.
- *audit_run*: the policies are a silent one, one that covers every audit, and
  one at the odd ends (VLAN 1, a public prefix, a short version).  A table's
  contents are what is right, what lacks something, and rows that differ only in
  a field the audit may skip (disabled, dynamic, invalid, a range); the rule lists
  have trust rules before and after the wash, with a value, with none and with one
  that is no number, a wash of one value only, and a comment that begins `trusted`.
  Two changes
  suffice to put something wrong and right again between the at most three
  reads, or to swap two tables.  One audit is the whole instance, so it stops
  when that audit has ended, and deadlock is not checked here either; it is
  checked in `live_query`, `live_session`, `credentials` and
  `credential_lifetime`.
- *operator_report*: two scripts (`MaxCaptures` 2), one run directory and three
  commands are enough for a failure at the first, a middle and the last command,
  for artifacts of an earlier run beside new ones, for two scripts in one
  directory or in the file at once, and for a rewrite between two tables of one
  audit.  Only one scenario has scripts: the others look at what depends on the
  command line, the inventory or the policy (repeated and unknown devices and
  audits, one that is not allowed, refused and duplicate entries, each way to ask
  for an exit code).  The scripts are followed until the command line has ended,
  which is the last moment any property looks at.  Texts of three tokens show
  each token with a neighbour on both sides.

### Fairness

Weak fairness of each thread's next step (`Continue`), never of the
environment's (requests, saves, certificates).  In `LiveQuery` the code justifies it
by the socket timeout of 10 s passed to `librouteros.connect` (`_connect_kwargs`):
connect, read and close all return or raise.  Without a bound on the number of rows a
device could keep a query going for ever; the models take a reply to be finite.  In
`Credentials` it is the `timeout=10` of `subprocess.run`.  `LiveSession` and
`ToolServer` have safety properties only: in the first a query goes through at most
two resolutions and two attempts, each of which one of these runs shows to end; in
the second a call is a finite loop over reads.  In `OperatorReport` only the command
line is assumed to go on: it is one thread reading local files.  Nothing is assumed of
the scripts, which may stop in the middle of a write, and `CliEnds` holds none the
less, because a file that does not parse raises.

### What was found

- `credentials.py:71` says a result "is cached in-memory for the process
  lifetime"; `lru_cache(maxsize=16)` evicts (run `credential_lifetime`).
- `audit_log.py:3` says "Every operation is logged to a JSONL file"; a
  `run_audit` refused at `server.py:250-257` raises before `logger.track` and
  leaves no line (run `unlogged_refusal`).
- `audit_log.py:32` calls the log JSONL, a document per line, and `get_entries`
  parses each line as one (line 76); a write that fails or is cut short after its
  first part leaves a line without an end, the entry of the next call is appended to
  it (line 41), and `get_entries` raises from then on (run `torn_line`).
- `dscp.py:232` says "WAN DSCP wash is ordered before broad trust exceptions", and
  the comment at `dscp.py:200` why that matters; the trust rules it looks at are
  those with a DSCP value (line 210), and the broadest, which has none, is passed over
  (run `broad_trust`).  The verdict as a whole is no pass: line 141 fails such a rule
  for its missing match.
- `audits/base.py:4` says "Missing policy or evidence yields unknown"; the live
  backend only replaces "." in RouterOS's field names (`routeros_api.py:73`), so
  that the audits find no `vlan_ids` or `dst_address` in a live row and
  answer `fail` (run `live_field_names`).
- `policy_backed.py:533` says the audit checks "that device routes match
  policy-owned prefixes"; a routed public prefix is redacted before the audit
  compares it (`service.py:120`) and reported as missing (run `public_prefix`).

Behaviours worth knowing that no run is about:

- `policy_backed.py:61` says "Compare major.minor"; `startswith` lets an expected
  `7.1` pass firmware `7.17.3`.  `StartsWith` models it, and `Faithful` sets such
  versions aside;
- `config.py:71` says `load_inventory` raises "on duplicate IDs"; `yaml.safe_load`
  has dropped the first of two entries before any check.  `KeysOf` and `EntryOf` model
  it, and `operator_report` has such an inventory;
- a close() that raises in the `finally` clause replaces a complete answer by an
  `internal_error` (`ReturnFails`), and a close() that raises after a decode error
  is called a second time and the latin-1 retry is not made (`RecloseFails`);
  hence `ClosedOnceOnSuccess` speaks of successful queries only;
- a credential error is `internal_error` from the first attempt and `unreachable`
  from the retry;
- `redaction.py:3` calls redaction idempotent; of two secret words with no
  boundary between them (`tokenapi_key`) the first pass redacts the second, and a
  second pass the first.  `SeparateSecretsGo` therefore speaks of secrets that
  are words of their own;
- only the first WAN wash is compared with the trust rules (`dscp.py:204`), and
  `"0/0"` counts as a queue limit (`qos.py:37`);
- the text report prints the findings of a device that was named twice, which are
  already doubled, twice (`cli.py:175`); a baseline over an empty inventory exits
  0; findings of status `unknown` never trip `--fail-on-warn`;
- if the simple queues are replaced by a queue tree, or the other way round, between
  the reads of `mangle_queue_correlation` (`mangle_queue_correlation.py:36`), it may
  judge simple queues that were not in use, or none at all, and pass although at each
  moment a mark was wrong with the queues then in use.  So `Faults` says of which
  queues a fault of the marks is, and `LastingFaultIsReported` speaks of one that
  lasts with the same queues;
- an audit whose policy is silent answers for a device that is not allowed,
  because it never calls the service's validation.

## 4. Proofs

All theorems are proved by TLAPS for every value of the constants that satisfies
the named assumption of the module:

- `LiveQueryAssumption`: `TlsDevices \subseteq Devices`, `NRows \in Nat`;
- `CredentialsAssumption`: `CacheSize` positive, `MaxSaves` a natural number, the
  three sentinels no pairs;
- `LiveSessionAssumption`: both of these, and that every device has a non-empty
  `credential_ref` and a thread is asked about devices of the inventory;
- `ToolServerAssumption`: the bounds are natural numbers, a request is a list of
  audit names and of devices, the tables of an audit are a finite list, and
  `librouteros` is installed or not (used
  only in `RunAuditProofs`; the theorems of `ToolServerProofs` need no assumption);
- `AuditRunAssumption`: the tables have the fields the audits look at (`TableTypes`),
  a port has one row, an expected version is a sequence of components, no owned prefix
  or SNMP address
  in a policy is the text redaction puts in the place of one, and a place is a role
  and whether there are two WANs;
- `FixtureCaptureAssumption`: the commands are a non-empty sequence, `BuildOrder`
  lists the same ones, and each capture finds something for each;
- `OperatorReportAssumption`: what the argument parser and the loaders hand on: one
  of the four commands, lists of names, a list of inventory entries, a policy with
  finitely many trunks, and a comment made of tokens.  Nothing is assumed about
  what is found in files, nor about the scripts.

Sets of threads, devices, references, scripts and run directories may be
infinite; lists (requests, command lines, inventories, comments) are of any
length.

**LiveQuery.**  None of the safety properties is inductive: that a returning query
has closed everything depends on which attempt `conn` names at each program
point.  The invariant `IInv` adds `Local(c)`, which says for each `pc` which
attempt is open, which is closed, and that `rows` is a prefix of the reply on
the open one (`PrefixVia`).  The one point where `conn` names a connection that
was closed already, after `RecloseFails`, is a case of its own
(`CloseFailed`).  There is one lemma per action; a step of one call leaves the
others' entries alone.  From `Invariance` (`Spec => []IInv`) follow
`TypeCorrect`, `Released`, `SingleConnection`, `UnmixedAnswer`,
`NoSecondClose`, `LabelsTell` and `Refinement`
(`Spec => KeepsContract`), which maps each action to `Ask`, `Acquire`,
`Release`, `Answer` or a stutter.  `PinnedAttempts` has an invariant of its own
beside it, `PinInv`: while an attempt at a TLS device waits for its check, a
certificate that is there has been there during this attempt, and from the check on
one has (`ContinuePin`, `PinStep`).

**Credentials.**  `CInv` conjoins the four invariants with `CallUnderWay`: while
the subprocess runs the vault's present content is among what the call may
return (`since`), and what the subprocess printed is so afterwards.  Three
lemmas say what moving to the end (`RecentlyKeeps`), appending
(`AppendKeeps`) and dropping the head (`TailKeeps`) do to a list without
repetitions; `InsertKeeps` puts them together for `lru_cache`'s insertion.
Theorems: `CredentialsTypeCorrect`, `CacheNeverOverfull` (which bounds the cache by
its size; no run repeats it), `OneSave`, `NoHalfPair`, `NoOverwrite`.

**LiveSession.**  `SessionKeepsQuery` and the lemma `SessionKeepsCredentials` show that every
behaviour of the composition is, looked at through either module's variables, a
behaviour of that module: each action maps to one of its actions or to a
stutter.  The second needs the invariant `Asking`: a call that is under way asks
a device of the inventory.  So what its resolution asks the vault for is a
reference, the one of that device's account (`PrefixIsKeeper`), and its `Hit` and
`Miss` are steps of `Credentials`.  The theorems
of `LiveQueryProofs` and `CredentialsProofs` then hold of the composition as they
stand (instances `QP` and `CP`), which gives `Known`: both type invariants and
`CacheIsUsable`.  On top of it `SInv` says per call where it is in resolving
(`Whole`) and that a fresh pair on its way, in the vault, in the output or in
hand, is the device's (`Current`).  From `SessionInvariance` follow
`SessionTypeCorrect`, `WholeLogins` and `FreshLogins`.

**ToolServer.**  `LogInv` says of request ids that a call under way has one of its
own, at most the number received, and that no piece in the log carries one still to
be given (`Ids`); how far the log has got with each call before the end of
`logger.track`: nothing, or the head of a line and no more (`NotYetLogged`); that
of each call there is one line, one head, or a head and after it one rest
(`OneEntryPerCall`); and that a call past `track` has an entry that says what its
answer says (`LoggedBeforeReply`).  The last is why the answer may go on:
`AnswersAreLogged` alone is not inductive, because it speaks only of calls that were
answered.  `WriteHolds` is the one place where the log grows: it says what the
pieces of the writing call (`PiecesOf`) and of all others are afterwards, and `Log`,
`LogHead` and the half of `LogFails` that wrote share it.  `QuietStep` and
`StayingStep` cover the steps that leave the log alone.  Theorems: `SingleEntry`,
`LoggedAnswers` and, from an invariant of its own, `SelectedBackend`.

**ToolServer: run_audit.**  What a client gets is rows in the order of the nested
loops.  `CallInv` ties `rows` to the call at every program point: `names` and
`targets` are the request's lists without repeats, or everything; the rows so far
are the pairs numbered `1..Len(rows)`; before the checks have passed nothing has
been read.  Only with the pairs' numbering and the fact that `Dedup` drops repeats
does it follow that each pair has one row (`OneRowPerPair`), since two numbers of
one pair would have to agree in quotient and remainder.  `RefusalReadsNothing` and
`ToolServerTypes` follow from the same invariant.

**AuditRun.**  All theorems rest on one invariant, `WasRead`: each table in `got` is
what a read of it gives in some state of `during`, and an audit that is done has
read its plan to the end and returned the judgement of what it read.  It says nothing
of two tables together, because there is nothing to say: they may be of two moments.
The rest is about the audits as functions.

An audit that reads one table judges one moment, and `Agreement` says that its verdict
`Agrees` with that moment: if the device had a fault then, some finding is not a
pass (`Reports`), and each failure names a fault of then (`Justified`).  There is a
lemma per audit (`FirmwareAgrees`, `EdgeAgrees`, `OwnedAgrees`, ..., `DscpAgrees`),
which compares the code's way of looking with the one of `Faults`: text prefixes
with version components, redacted addresses with the addresses, VLAN parts with
VLANs, the first wash with every wash.  `VerdictOfAMoment` states it of every behaviour.

The other two read several tables, and neither half holds of one moment: a trunk's
ports are of one, its VLANs of another.  `LastingTrunkFault` uses that a fault there in
both states, with the port, is in the part that was read in one of them;
`TrunkFailureWasThere` that each failure is about ports alone or VLANs alone.
`LastingMarkFault` needs a third moment when the queue tree was read empty, and here
the proof failed at first, for a reason: see the torn fallback in section 3.
`LastingFaults` (`LastingFaultIsReported`), `FailuresWereThere` (`FailureWasThere`) and
`AuditTypes` (`TypeOK`) collect the cases.

`SilenceIsUnknown` needs only that the verdict is the judgement of what was read.
`OrderIsSound` is about rule lists of any length.  Were there a trust rule through
which a packet leaks, `LeakIsFound` says that the audit has a finding for it.  If the
rule asks for no value, or for one that is none, that is the fail about its match
(`TrustIsFound`).  Otherwise it is one that `_rule_matches_wan` or the test of an empty
or negated interface catches; had the order passed, there would be a wash rule at or
before it, which is no accept rule, so it is before, and under `Faithful` it washes
every packet from the WAN (`OrderIsRight`, `OrderFromOrder`).

**FixtureCapture.**  `LiveBuildIsOneCapture` speaks of a script that has built its
fixture; why it holds lies further back.  `OwnCaptures` says it of every program
point: while a live script captures, the artifacts up to the command it is at are
its own; while it builds, the whole directory is, and so is every table it has
read back.  `Reading` says which tables those are.  Another script that captures
into the directory sets `shared` in the same step in which it overwrites an
artifact, and from then on nothing is claimed.  `UnreadableHasCause` needs
`Overlaps`: a script that has the file open and finds something in it was there
together with another.  `FInv` conjoins these with the types, one lemma per
action preserves it (`Capture` and the half of `CaptureFails` that wrote share
`WriteArtifactHolds`; `Kill`, `LoadFails` and the other half share `EndHolds`), and
`CaptureTypeCorrect`, `OneCapture` and `CauseOfUnreadable` follow.

**OperatorReport.**  `ReaderKeepsScripts` shows that a behaviour of a report over the
files is a behaviour of `CaptureSpec`: the command line reads and never writes.
`WhileReading` carries both invariants over to the specification that is checked.

What the report itself promises rests on `RunInv`, a conjunction of five parts, each
of which TLC checked on the run before it was proved:

- `Stage`: what there is in each phase of `main`; while the audits run, the
  fixture as it stands is among `files`;
- `SoFar`: the results are those of the pairs `1..Len(results)`, and each is
  `Grounded`: its findings are what the audit says of some whole files;
- `Gathered`: each table in hand was read in a whole file, and belongs to the audit
  under work.  This is the part that makes `VerdictsFromWholeFiles` inductive: the
  tables of one audit may come from different states of one file;
- `Quoted`: a quoted comment is the redacted one;
- `Outcome`: what was printed, and that exit code 0 leaves no result with a finding
  of a status in `FailedOn`.

A step of a script changes `fixture` and adds to `files`, so that what was grounded
stays so (`MoreFiles`, `BesideHolds`); every action of the command line has a lemma
of its own.  `FinishHolds` is where the sums come in.

The totals of a report, the list of an inventory's devices and the redaction of a
text are folds of the community modules, and those are recursive functions: a
`CHOOSE` of a function that satisfies the equations.  The equations can be used only
once there is such a function (`FoldExists`, by a union of functions on ever larger
subsets), and the induction schemes of the library cannot be instantiated, so
induction is done with sets: one that has 0 and every successor is `Nat`
(`NatClosed`, from the well-foundedness of `<`); `UpTo` and `BySubsets` derive the
forms that are needed.  On these rest `RedactSeparate` (after `k` patterns exactly
the tokens of the first `k` are blanked, `BlankNext`), `RedactTwice`, `KeysType`,
`NothingCounted` (a count is 0 only if no result has such a finding) and
`ReportAdds` (adding a result changes the total over the devices by what it
changes the count, `TotalOfMore`, so that they agree however often a device is
named).  Theorems: `RunTypeCorrect`, `WholeOrNothing`, `NeverHalfAFile`,
`GreenIsClean`, `NoSeparateSecret`.

Every safety property that a passing run checks is stated by a theorem, and so are
the two refinements (`KeepsContract`, `KeepsQuery`).  Only model-checked are the three
liveness properties (`QueryEnds`, `ResolveEnds`, `CliEnds`), which the prover cannot handle under fairness; and what the violation runs show, which are
single behaviours.

## 5. What is left, in order

1. `fleet_call` and its two dictionaries of results and errors, should a server tool
   come to use it: today only tests call it.
2. VLAN ranges: `Comparable` leaves rows with ranges out; a property that says what
   `vlan_consistency` reports of them, beside the list in section 2.

Not modelled, and why: the operation registry (a constant table), `fleet_call` (a
loop over `_call_backend` that only tests call), the recursion of `redact` over a
payload and its list of key names (no order, no state), the two live collectors no
audit uses, the file of recent logs, the reshaping of rows in `build_fixture`, the
smoke script (a test client), argument parsing, the FastMCP transport, and the
text of messages and reports.
