---------------------------- MODULE OperatorReport ----------------------------
(***************************************************************************)
(* One run of the operator command line (cli.py) over fixture files, while  *)
(* the scripts of FixtureCapture rewrite the file of one device: the        *)
(* inventory is loaded and the arguments are checked, the audits run one    *)
(* device after the other, each table is read from the file as it is then,  *)
(* and what comes out is a report and an exit code.                        *)
(*                                                                         *)
(* Four audits stand for the fourteen: one that reads one table, one that   *)
(* reads two, one whose policy may be silent, so that it reads nothing, and *)
(* one that quotes what it read.  What is printed is the data, not its      *)
(* layout.                                                                 *)
(***************************************************************************)
EXTENDS FixtureCapture, Redaction, Inventory, RuleVerdicts

CONSTANTS Captured,   \* the device the scripts capture
          Files,      \* Files[d]: the fixture file of any other device
          Contents,   \* Contents[x][kind]: the rows of an artifact of a kind
          Scenarios   \* command lines, and what they find

AUDIT_REGISTRY == <<"dead_mangle_rules", "firmware_drift", "route_ownership",
                    "trunk_vlan_sanity">>
BASELINE_AUDITS == <<"trunk_vlan_sanity", "firmware_drift", "dead_mangle_rules">>
STATUS_ORDER == {"pass", "warn", "fail", "unknown", "skip"}
ACTIONABLE_STATUSES == {"warn", "fail", "unknown"}

\* What the parser and the loaders hand on: lists of names, and a policy with
\* finitely many trunks.
ASSUME OperatorReportAssumption ==
  \A s \in Scenarios :
    /\ s.command \in {"list-devices", "audit", "baseline", "report"}
    /\ s.devices \in Seq(STRING) /\ s.audits \in Seq(STRING)
    /\ s.document \in Seq(ItemType)
    /\ IsFiniteSet(DOMAIN s.policy.trunks)
    /\ s.note \in Seq(Tokens)

VARIABLES scenario,  \* fixed when it starts
          cli,       \* "start", "arguments", "run" or "ended"
          inventory, \* the one the service has
          got,       \* the tables the audit under work has read
          results,   \* one per audit that has returned, in order
          printed, exit,
          files      \* history: the states of the captured file since the start

cliVars == <<cli, inventory, got, results, printed, exit, files>>
vars == <<scenario, cliVars, captureVars>>
still == <<scenario, captureVars>>  \* what the command line leaves alone

Nothing == [kind |-> "nothing"]
NoExit == 3  \* exit, before there is one

-----------------------------------------------------------------------------
(* What is asked for.  An option that is left out or empty is <<>>.        *)

\* _device_ids and _audit_names
Targets == IF scenario.devices = <<>> THEN inventory.keys ELSE scenario.devices
Names == CASE scenario.audits # <<>> -> scenario.audits
           [] scenario.audits = <<>> /\ scenario.command \in {"baseline", "report"} ->
                BASELINE_AUDITS
           [] OTHER -> AUDIT_REGISTRY
Known == /\ ToSet(Targets) \subseteq ToSet(inventory.keys)
         /\ ToSet(Names) \subseteq ToSet(AUDIT_REGISTRY)

PairCount == Len(Targets) * Len(Names)
PairAt(n) == <<Targets[((n - 1) \div Len(Names)) + 1], Names[((n - 1) % Len(Names)) + 1]>>
Device == PairAt(Len(results) + 1)[1]
Audit == PairAt(Len(results) + 1)[2]

-----------------------------------------------------------------------------
(* What an audit reads, and what it says.                                  *)

DeadMangleReads == <<"firewall-mangle">>
Reads(audit) ==
  CASE audit = "dead_mangle_rules" -> DeadMangleReads
    [] audit = "firmware_drift" -> <<"system-resource">>
    [] audit = "route_ownership" -> IF scenario.policy.owned = {} THEN <<>> ELSE <<"routes">>
    [] audit = "trunk_vlan_sanity" ->
         IF DOMAIN scenario.policy.trunks = {} THEN <<>> ELSE <<"bridge-ports", "bridge-vlans">>

\* The one mangle rule is disabled and carries a comment.
RowsOf(x, kind) == IF x = "firewall-mangle" THEN {[disabled |-> TRUE, comment |-> scenario.note]}
                                            ELSE Contents[x][kind]

\* FixtureBackend._load: no file, or no such key, is no data.
Load(file, x) ==
  CASE file.state = "whole" /\ x \in DOMAIN file.tables -> RowsOf(x, file.tables[x].kind)
    [] OTHER -> IF x = "system-resource" THEN <<>> ELSE {}

\* A wrong variant (these show that a property can fail): what cannot be
\* parsed is no data, either.
ReadableAnyway(file) == TRUE

\* json.loads raises unless the file is whole.
Parses(file) == Readable(file)

\* Service._call_backend redacts what the backend returned.
Served(x, rows) ==
  IF x # "firewall-mangle" THEN rows
  ELSE {[disabled |-> r.disabled, comment |-> Redact(r.comment),
         leftover |-> Contains(Redact(r.comment), "leftover")] : r \in rows}

\* The findings; an audit that read nothing has no use for the table.
Judgement(audit, role, tables) ==
  LET seen(x) == IF x \in DOMAIN tables THEN tables[x] ELSE {}
  IN CASE audit = "dead_mangle_rules" -> DeadMangleRules(role, seen("firewall-mangle"))
       [] audit = "firmware_drift" -> FirmwareDrift(scenario.policy, seen("system-resource"))
       [] audit = "route_ownership" -> RouteOwnership(scenario.policy, seen("routes"))
       [] audit = "trunk_vlan_sanity" ->
            TrunkVlanSanity(scenario.policy, seen("bridge-ports"), seen("bridge-vlans"))

\* The comments it quotes.
Evidence(audit, tables) ==
  IF audit # "dead_mangle_rules" THEN {}
  ELSE {r.comment : r \in Suspicious(tables["firewall-mangle"])}

FileOf(device) == IF device = Captured THEN fixture ELSE Files[device]
RoleOf(device) == inventory.entries[device].role

-----------------------------------------------------------------------------
(* The report.                                                             *)

StatusCount(findings, status) == Cardinality({f \in findings : f.status = status})

\* _summarize_audit_results
Counts(rs) ==
  [status \in STATUS_ORDER |->
     FoldLeft(LAMBDA n, r : n + StatusCount(r.findings, status), 0, rs)]

NoFindings == [counts |-> [status \in STATUS_ORDER |-> 0], shown |-> {}]

\* What _baseline_report adds to a device's entry for one result.
WithResult(entry, result) ==
  [counts |-> [status \in STATUS_ORDER |->
                 entry.counts[status] + StatusCount(result.findings, status)],
   shown |-> entry.shown \cup {<<result.audit, f>> : f \in {f \in result.findings :
               f.status \in ACTIONABLE_STATUSES \/ (scenario.command = "report" /\ scenario.all)}}]

AddResult(byDevice, result) ==
  [byDevice EXCEPT ![result.device] = WithResult(@, result)]

Report == [kind |-> "report", devices |-> Targets, audits |-> Names,
           counts |-> Counts(results),
           byDevice |-> FoldLeft(AddResult, [d \in ToSet(Targets) |-> NoFindings], results)]

\* A wrong variant: --fail-on-warn looks at the warnings only.
ExitCodeWarnOnly(counts) ==
  IF \/ scenario.failOn = "warn" /\ counts["warn"] > 0
     \/ scenario.failOn = "fail" /\ counts["fail"] > 0
  THEN 1 ELSE 0

\* --fail-on-warn, --fail-on-fail, or neither.
ExitCode(counts) ==
  IF \/ scenario.failOn = "warn" /\ counts["warn"] + counts["fail"] > 0
     \/ scenario.failOn = "fail" /\ counts["fail"] > 0
  THEN 1 ELSE 0

-----------------------------------------------------------------------------
Init == /\ CaptureInit
        /\ scenario \in Scenarios
        /\ scenario.captures \/ \A r \in RunDirs, x \in CommandSuffixes : artifacts[r][x] = NoArtifact
        /\ cli = "start"
        /\ inventory = LoadInventory(<<>>)
        /\ got = NoTables
        /\ results = <<>>
        /\ printed = Nothing
        /\ exit = NoExit
        /\ files = {}

\* main returns.
End(code, output) == cli' = "ended" /\ exit' = code /\ printed' = output

\* main catches the exception and prints it to stderr.
Raise == End(2, Nothing)

ServiceBuilds == scenario.policyIsValid /\ ~Refused(scenario.document)

\* _build_service: load_inventory and load_policy return, or one of them raises.
BuildService == /\ cli = "start" /\ ServiceBuilds
                /\ cli' = "arguments"
                /\ inventory' = LoadInventory(scenario.document)
                /\ UNCHANGED <<got, results, printed, exit, files, still>>

ConfigRefused == /\ cli = "start" /\ ~ServiceBuilds
                 /\ Raise
                 /\ UNCHANGED <<inventory, got, results, files, still>>

ListDevices == /\ cli = "arguments" /\ scenario.command = "list-devices"
               /\ End(0, [kind |-> "devices", devices |-> inventory.keys])
               /\ UNCHANGED <<inventory, got, results, files, still>>

\* An unknown device or audit.
ArgumentRefused == /\ cli = "arguments" /\ scenario.command # "list-devices" /\ ~Known
                   /\ Raise
                   /\ UNCHANGED <<inventory, got, results, files, still>>

Begin == /\ cli = "arguments" /\ scenario.command # "list-devices" /\ Known
         /\ cli' = "run"
         /\ files' = {fixture}
         /\ UNCHANGED <<inventory, got, results, printed, exit, still>>

\* The next table is there to be had; one at a device that is not allowed, or in
\* a file that does not parse, is not.
CanRead == inventory.entries[Device].allowed /\ Parses(FileOf(Device))

Working == cli = "run" /\ Len(results) < PairCount
Unread == {i \in DOMAIN Reads(Audit) : Reads(Audit)[i] \notin DOMAIN got}
NextRead == CHOOSE i \in Unread : \A j \in Unread : i <= j

\* The next table comes back from the service.
ReadTable == /\ Working /\ Unread # {} /\ CanRead
             /\ LET x == Reads(Audit)[NextRead]
                IN got' = [y \in DOMAIN got \cup {x} |->
                             IF y = x THEN Served(x, Load(FileOf(Device), x)) ELSE got[y]]
             /\ UNCHANGED <<cli, inventory, results, printed, exit, files, still>>

\* Wrong variants: it becomes a finding of the status "error"; what there is so
\* far is printed; it is tried again.
ReadFailsFinding ==
  /\ Working /\ Unread # {} /\ ~CanRead
  /\ results' = Append(results, [device |-> Device, audit |-> Audit,
                                 findings |-> Only("error", "data"), evidence |-> {}])
  /\ got' = NoTables
  /\ UNCHANGED <<cli, inventory, printed, exit, files, still>>
ReadFailsPrinting == /\ Working /\ Unread # {} /\ ~CanRead
                     /\ End(2, [kind |-> "results", results |-> results])
                     /\ UNCHANGED <<inventory, got, results, files, still>>
ReadFailsRetrying == /\ Working /\ Unread # {} /\ ~CanRead
                     /\ got' = NoTables
                     /\ UNCHANGED <<cli, inventory, results, printed, exit, files, still>>

\* It raises, and nothing around the audit catches it: the run ends, and the
\* results so far are lost.
ReadFails == /\ Working /\ Unread # {} /\ ~CanRead
             /\ Raise
             /\ UNCHANGED <<inventory, got, results, files, still>>

\* The audit returns; one that reads nothing does so for any device.
Judge == /\ Working /\ Unread = {}
         /\ results' = Append(results, [device |-> Device, audit |-> Audit,
                                        findings |-> Judgement(Audit, RoleOf(Device), got),
                                        evidence |-> Evidence(Audit, got)])
         /\ got' = NoTables
         /\ UNCHANGED <<cli, inventory, printed, exit, files, still>>

Finish == /\ cli = "run" /\ Len(results) = PairCount
          /\ IF scenario.command = "audit"
             THEN End(0, [kind |-> "results", results |-> results])
             ELSE End(ExitCode(Counts(results)), Report)
          /\ UNCHANGED <<inventory, got, results, files, still>>

Cli == BuildService \/ ConfigRefused \/ ListDevices \/ ArgumentRefused \/ Begin
       \/ ReadTable \/ ReadFails \/ Judge \/ Finish

\* A step of the scripts, in the scenarios that have any; bound: they are
\* followed until the command line has ended.
Scripting == /\ scenario.captures /\ cli # "ended"
             /\ CaptureNext
             /\ files' = IF cli = "run" THEN files \cup {fixture'} ELSE files
             /\ UNCHANGED <<scenario, cli, inventory, got, results, printed, exit>>

Next == Cli \/ Scripting

Spec == Init /\ [][Next]_vars

\* The command line goes on; nothing is assumed of the scripts.
FairSpec == Spec /\ WF_vars(Cli)

-----------------------------------------------------------------------------
Finding == [status : STATUS_ORDER,
            about : {"policy", "data", "version", "owned", "port", "tagged", "pvid", "trunks", "dead"},
            on : {""} \cup DOMAIN scenario.policy.trunks]
Result == [device : ToSet(Targets), audit : ToSet(AUDIT_REGISTRY),
           findings : SUBSET Finding, evidence : SUBSET Seq(Tokens)]

TypeOK == /\ CaptureTypeOK
          /\ cli \in {"start", "arguments", "run", "ended"}
          /\ cli = "run" => results \in Seq(Result)
          /\ exit \in 0..NoExit /\ (exit = NoExit) = (cli # "ended")
          /\ printed.kind \in {"nothing", "devices", "results", "report"}
          /\ files # {} => fixture \in files \/ cli = "ended"

\* The totals of a report are the sums over its devices, when devices are named
\* twice, too, and a report that shows no finding has found nothing to act on.
AddsUp(report) ==
  /\ \A status \in STATUS_ORDER :
       report.counts[status] =
         FoldSet(LAMBDA d, n : n + report.byDevice[d].counts[status], 0, DOMAIN report.byDevice)
  /\ (\A d \in DOMAIN report.byDevice : report.byDevice[d].shown = {})
       => \A status \in ACTIONABLE_STATUSES : report.counts[status] = 0

\* What is printed is whole: a run that does not end with exit code 2 has a
\* result for every device and audit asked for, in order, repeats included, and
\* a report adds up; one that does prints nothing, whatever it had found by then.
Finished == cli = "ended" /\ scenario.command # "list-devices"
AllOrNothing ==
  Finished =>
    IF exit = 2 THEN printed = Nothing
    ELSE /\ printed # Nothing
         /\ [i \in DOMAIN results |-> <<results[i].device, results[i].audit>>]
              = [i \in 1..PairCount |-> PairAt(i)]
         /\ printed.kind = "report" => AddsUp(printed)

\* What an audit says of what it would have read in the files fs, one for each
\* table.
VerdictOn(device, audit, fs) ==
  Judgement(audit, RoleOf(device), [x \in DOMAIN fs |-> Served(x, Load(fs[x], x))])
ReadableFiles(device) ==
  {f \in (IF device = Captured THEN files ELSE {Files[device]}) : Readable(f)}
FilesRead(device, audit) == [ToSet(Reads(audit)) -> ReadableFiles(device)]

\* Every finding goes back to tables as they stood in a whole fixture file, or
\* to there being none, at some time of the run: never to a file that was just
\* being rewritten.
VerdictsFromWholeFiles ==
  (cli = "run" \/ exit \in {0, 1}) =>
    \A i \in DOMAIN results :
      \E fs \in FilesRead(results[i].device, results[i].audit) :
        results[i].findings = VerdictOn(results[i].device, results[i].audit, fs)

\* A green baseline or report has a clean file behind each pair it was asked
\* for: one it might have read during the run, in which that audit finds nothing
\* of what the command line was told to fail on.
FailedOn == CASE scenario.failOn = "warn" -> {"warn", "fail"}
              [] scenario.failOn = "fail" -> {"fail"}
              [] OTHER -> {}
GreenMeansClean ==
  (Finished /\ exit = 0 /\ scenario.command # "audit") =>
    \A i \in 1..PairCount :
      \E fs \in FilesRead(PairAt(i)[1], PairAt(i)[2]) :
        \A f \in VerdictOn(PairAt(i)[1], PairAt(i)[2], fs) : f.status \notin FailedOn

\* Secrets that are words of their own do not get into the evidence, however many
\* there are and whatever stands beside them; all else is left as it was; and
\* redacting again, in a second layer, would change nothing.
SeparateSecretsGo ==
  Separate(scenario.note) =>
    \A i \in DOMAIN results : \A text \in results[i].evidence :
      /\ \A j \in DOMAIN text : text[j] = IF scenario.note[j] \in Secrets THEN "redacted"
                                                                        ELSE scenario.note[j]
      /\ Redact(text) = text

\* The command line ends, whatever the scripts do with the file.
CliEnds == cli = "start" ~> cli = "ended"

==============================================================================
