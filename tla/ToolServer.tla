------------------------------ MODULE ToolServer ------------------------------
(***************************************************************************)
(* The MCP server (server.py), its service layer (service.py) and its      *)
(* audit log (audit_log.py).  Threads serve tool calls side by side:       *)
(*   - a collector reads one device, inside logger.track;                  *)
(*   - run_audit removes duplicates, refuses unknown names and too large a *)
(*     fan-out before logger.track, then runs each audit on each device,   *)
(*     turning an exception into a row of its own;                         *)
(*   - list_audits and get_capabilities answer without the log.            *)
(* The service lets a read through only for a known, allowed device whose  *)
(* transport has a backend, and turns a backend's exception into a label.  *)
(* The process may be killed at any point; only the log file survives.     *)
(* A line may reach the log file in two writes: the file system may take   *)
(* the first part only (a disk that fills up, a kill), and other threads   *)
(* and processes append whenever they come to it.                          *)
(*                                                                         *)
(* A backend read is external: it returns a payload or raises.  Payloads   *)
(* and verdicts are abstracted to the fact that there is one.              *)
(***************************************************************************)
EXTENDS Naturals, Sequences, FiniteSets, SequencesExt

CONSTANTS Threads,
          Requests,     \* the tool calls clients may make, see RequestType
          Audits,       \* names in AUDIT_REGISTRY, a sequence
          AuditReads,   \* AuditReads[a]: service reads audit a makes
          Inventory,    \* device ids of the inventory, a sequence
          Allowed,      \* those with allowed: true
          Transport,    \* Transport[d]: the transport field of device d
          LibrouterosInstalled, \* whether backends/routeros_api.py can be imported
          MaxFanout,    \* MAX_AUDIT_FANOUT (128 in the code)
          ErrorLabels,  \* labels a failing backend read can end with
          MaxRequests,  \* bound: tool calls received in all
          MaxCrashes    \* bound: how often the process is killed

VARIABLES override,  \* transport_override: "fixture", or "" with --live
          req,       \* req[t]: the call thread t serves
          id,        \* id[t]: its request id
          names,     \* audit_names of run_audit
          targets,   \* targets of run_audit
          pc,        \* where thread t is
          reads,     \* reads done for the current audit
          rows,      \* results of run_audit so far
          answer,    \* what the client is told, when pc[t] = "answered"
          touched,   \* history: backends and devices read for this call
          log,       \* the audit log file, write by write
          received,  \* tool calls received so far
          crashes

fixed == <<req, id, names, targets>>
vars == <<override, fixed, pc, reads, rows, answer, touched, log, received, crashes>>
local == <<fixed, reads, rows>>

AuditNames == Range(Audits)
Devices == Range(Inventory)
Labels == ErrorLabels \cup {"internal_error"}
NoRequest == [tool |-> "none"]
NoAnswer == [kind |-> "none"]
Payload == [kind |-> "payload"]
Error(label) == [kind |-> "error", label |-> label]
Rejected == Error("rejected")

\* What a client may ask: any name at all, known or not, as often as it likes.
RequestType == [tool : {"collector"}, device : STRING]
                 \cup [tool : {"untracked"}]
                 \cup [tool : {"run_audit"}, audits : Seq(STRING), devices : Seq(STRING)]

ASSUME ToolServerAssumption ==
  /\ Audits \in Seq(STRING) /\ Inventory \in Seq(STRING)
  /\ Requests \subseteq RequestType
  /\ AuditReads \in [AuditNames -> Nat]
  /\ Allowed \subseteq Devices
  /\ Transport \in [Devices -> STRING]
  /\ LibrouterosInstalled \in BOOLEAN
  /\ MaxFanout \in Nat /\ MaxRequests \in Nat /\ MaxCrashes \in Nat

-----------------------------------------------------------------------------
(* Requests.                                                               *)

IsAudit(t) == req[t].tool = "run_audit"
Tracked(t) == req[t].tool \in {"run_audit", "collector"}

\* list(dict.fromkeys(s)): the first occurrence of each, in order.
Dedup(s) ==
  LET first == {i \in DOMAIN s : \A j \in 1..i - 1 : s[j] # s[i]}
      Rank(i) == Cardinality({j \in first : j <= i})
  IN [k \in 1..Cardinality(first) |-> s[CHOOSE i \in first : Rank(i) = k]]

\* An empty or absent list asks for everything.
OrAll(asked, all) == IF asked = <<>> THEN all ELSE asked
NamesIn(q) == IF q.tool = "run_audit" THEN Dedup(OrAll(q.audits, Audits)) ELSE <<>>
TargetsIn(q) == IF q.tool = "run_audit" THEN Dedup(OrAll(q.devices, Inventory)) ELSE <<>>
Fanout(t) == Len(names[t]) * Len(targets[t])

\* A wrong variant: a fan-out at the limit is refused.
RefusedAtLimit(t) == \/ ~(Range(names[t]) \subseteq AuditNames)
                     \/ ~(Range(targets[t]) \subseteq Devices)
                     \/ Fanout(t) >= MaxFanout

\* The three checks of run_audit that raise before anything is done.
Refused(t) == \/ ~(Range(names[t]) \subseteq AuditNames)
              \/ ~(Range(targets[t]) \subseteq Devices)
              \/ Fanout(t) > MaxFanout

\* Device-major, audit-minor: the pair that row number i is about.
PairAt(t, i) ==
  LET n == Len(names[t])
  IN [device |-> targets[t][((i - 1) \div n) + 1],
      audit |-> names[t][((i - 1) % n) + 1]]

\* What the thread is reading for now.
Pair(t) == PairAt(t, Len(rows[t]) + 1)
Device(t) == IF IsAudit(t) THEN Pair(t).device ELSE req[t].device

-----------------------------------------------------------------------------
(* The service: validation and dispatch.                                   *)

\* from_config: there is a live backend without the fixture override, if the
\* library it needs is there.
Backends == {"fixture"} \cup
            IF override # "fixture" /\ LibrouterosInstalled THEN {"api"} ELSE {}

\* A wrong variant: fixtures stand in for a transport without a backend.
BackendForgiving(d) == IF override # "" THEN override
                       ELSE IF Transport[d] \in Backends THEN Transport[d] ELSE "fixture"

\* _get_backend: the override, else the device's own transport.
BackendFor(d) == IF override # "" THEN override ELSE Transport[d]

\* _validate_device and _get_backend let the read through.
Permitted(d) == d \in Allowed /\ BackendFor(d) \in Backends

-----------------------------------------------------------------------------
Init == /\ override \in {"fixture", ""}
        /\ req = [t \in Threads |-> NoRequest]
        /\ id = [t \in Threads |-> 0]
        /\ names = [t \in Threads |-> <<>>]
        /\ targets = [t \in Threads |-> <<>>]
        /\ pc = [t \in Threads |-> "idle"]
        /\ reads = [t \in Threads |-> 0]
        /\ rows = [t \in Threads |-> <<>>]
        /\ answer = [t \in Threads |-> NoAnswer]
        /\ touched = [t \in Threads |-> {}]
        /\ log = <<>>
        /\ received = 0
        /\ crashes = 0

\* A client's tool call is handed to a thread.  The collectors enter
\* logger.track at once; run_audit first checks what it is asked.
Receive(t, q) == /\ pc[t] \in {"idle", "answered"}
                 /\ received < MaxRequests
                 /\ received' = received + 1
                 /\ id' = [id EXCEPT ![t] = received + 1]
                 /\ req' = [req EXCEPT ![t] = q]
                 /\ names' = [names EXCEPT ![t] = NamesIn(q)]
                 /\ targets' = [targets EXCEPT ![t] = TargetsIn(q)]
                 /\ pc' = [pc EXCEPT ![t] = IF q.tool = "collector" THEN "run" ELSE "check"]
                 /\ reads' = [reads EXCEPT ![t] = 0]
                 /\ rows' = [rows EXCEPT ![t] = <<>>]
                 /\ answer' = [answer EXCEPT ![t] = NoAnswer]
                 /\ touched' = [touched EXCEPT ![t] = {}]
                 /\ UNCHANGED <<override, log, crashes>>

AnswerWith(t, a) == /\ pc' = [pc EXCEPT ![t] = "answered"]
                    /\ answer' = [answer EXCEPT ![t] = a]

\* list_audits and get_capabilities.
AnswerUntracked(t) == /\ pc[t] = "check"
                      /\ ~Tracked(t)
                      /\ AnswerWith(t, Payload)
                      /\ UNCHANGED <<override, local, touched, log, received, crashes>>

\* run_audit raises ValueError before logger.track.
Reject(t) == /\ pc[t] = "check"
             /\ IsAudit(t)
             /\ Refused(t)
             /\ AnswerWith(t, Rejected)
             /\ UNCHANGED <<override, local, touched, log, received, crashes>>

Admit(t) == /\ pc[t] = "check"
            /\ IsAudit(t)
            /\ ~Refused(t)
            /\ pc' = [pc EXCEPT ![t] = "run"]
            /\ UNCHANGED <<override, local, answer, touched, log, received, crashes>>

-----------------------------------------------------------------------------
(* Inside logger.track.                                                    *)

\* run_audit has a row for each pair.
AllPairsDone(t) == IsAudit(t) /\ Len(rows[t]) = Fanout(t)

ReadsWanted(t) == IF IsAudit(t) THEN AuditReads[Pair(t).audit] ELSE 1
WantsRead(t) == /\ pc[t] = "run"
                /\ ~AllPairsDone(t)
                /\ reads[t] < ReadsWanted(t)
WantsVerdict(t) == /\ pc[t] = "run"
                   /\ ~AllPairsDone(t)
                   /\ reads[t] = ReadsWanted(t)

AddRow(t, outcome) ==
  rows' = [rows EXCEPT ![t] = Append(@, [pair |-> Pair(t), outcome |-> outcome])]

\* A wrong variant: an exception in an audit ends the whole call.
FailAll(t, label) ==
  /\ reads' = [reads EXCEPT ![t] = 0]
  /\ pc' = [pc EXCEPT ![t] = "log"]
  /\ answer' = [answer EXCEPT ![t] = IF IsAudit(t) THEN Payload ELSE Error(label)]
  /\ UNCHANGED rows

\* An exception leaves an audit, whose pair gets an error row, or leaves a
\* collector, and so ends the call.
Fail(t, label) ==
  /\ reads' = [reads EXCEPT ![t] = 0]
  /\ IF IsAudit(t)
     THEN AddRow(t, label) /\ UNCHANGED <<pc, answer>>
     ELSE /\ pc' = [pc EXCEPT ![t] = "log"]
          /\ answer' = [answer EXCEPT ![t] = Error(label)]
          /\ UNCHANGED rows

Touch(t) == touched' = [touched EXCEPT ![t] = @ \cup {<<BackendFor(Device(t)), Device(t)>>}]

\* _call_backend: the backend returns, and the payload is redacted.
ReadOk(t) == /\ WantsRead(t)
             /\ Permitted(Device(t))
             /\ reads' = [reads EXCEPT ![t] = @ + 1]
             /\ Touch(t)
             /\ UNCHANGED <<override, fixed, pc, rows, answer, log, received, crashes>>

\* _call_backend: the backend raises, and a ServiceError carries its label.
ReadFails(t) == /\ WantsRead(t)
                /\ Permitted(Device(t))
                /\ \E label \in Labels : Fail(t, label)
                /\ Touch(t)
                /\ UNCHANGED <<override, fixed, log, received, crashes>>

\* A wrong variant: the class of the exception is reported as the label.
ReadDeniedRaw(t) == /\ WantsRead(t)
                    /\ ~Permitted(Device(t))
                    /\ Fail(t, "ValueError")
                    /\ UNCHANGED <<override, fixed, touched, log, received, crashes>>

\* Validation or dispatch raises ValueError before any backend is called; a
\* collector passes it on, run_audit labels it.
ReadDenied(t) == /\ WantsRead(t)
                 /\ ~Permitted(Device(t))
                 /\ Fail(t, IF IsAudit(t) THEN "internal_error" ELSE "ValueError")
                 /\ UNCHANGED <<override, fixed, touched, log, received, crashes>>

\* The audit has its reads and returns an AuditResult, or raises on them.
Verdict(t) == /\ WantsVerdict(t)
              /\ IsAudit(t)
              /\ reads' = [reads EXCEPT ![t] = 0]
              /\ \E outcome \in {"result", "internal_error"} : AddRow(t, outcome)
              /\ UNCHANGED <<override, fixed, pc, answer, touched, log, received, crashes>>

\* The body of logger.track has ended without an exception.
BodyDone(t) == /\ pc[t] = "run"
               /\ AllPairsDone(t) \/ (~IsAudit(t) /\ reads[t] = 1)
               /\ pc' = [pc EXCEPT ![t] = "log"]
               /\ answer' = [answer EXCEPT ![t] = Payload]
               /\ UNCHANGED <<override, local, touched, log, received, crashes>>

\* What is written of t's entry: the whole line, the head of it without the
\* line's end, or the rest.
Entry(t, part) == LET a == answer[t]
                  IN [id |-> id[t], tool |-> req[t].tool, part |-> part,
                      status |-> IF a = Payload THEN "success" ELSE "error",
                      error_class |-> CASE a = Payload -> ""
                                        [] a = Error("ValueError") -> "ValueError"
                                        [] OTHER -> "ServiceError"]

\* A wrong variant: the entry is written when the call begins and when it ends.
WriteTwice(t, part) == log' = log \o <<Entry(t, part), Entry(t, part)>>

\* One write to a file opened for appending: it goes to the file's end.
Write(t, part) == log' = Append(log, Entry(t, part))

\* The write that ends the line.
WriteToEnd(t) == Write(t, IF pc[t] = "log" THEN "line" ELSE "rest")

\* The finally clause of track writes the entry; the answer goes on.
Log(t) == /\ pc[t] \in {"log", "logging"}
          /\ WriteToEnd(t)
          /\ pc' = [pc EXCEPT ![t] = "reply"]
          /\ UNCHANGED <<override, local, answer, touched, received, crashes>>

\* The write is cut short, and a second one will be tried.
LogHead(t) == /\ pc[t] = "log"
              /\ Write(t, "head")
              /\ pc' = [pc EXCEPT ![t] = "logging"]
              /\ UNCHANGED <<override, local, answer, touched, received, crashes>>

\* A wrong variant: a failed write is ignored.
LogFailsQuietly(t) == /\ pc[t] \in {"log", "logging"}
                      /\ pc' = [pc EXCEPT ![t] = "reply"]
                      /\ UNCHANGED <<override, local, answer, touched, log, received, crashes>>

\* Opening, writing or (all written) closing raises in the finally clause: the
\* exception replaces the answer, and what was written stays.
LogFails(t) == /\ pc[t] \in {"log", "logging"}
               /\ WriteToEnd(t) \/ UNCHANGED log
               /\ AnswerWith(t, Error("OSError"))
               /\ UNCHANGED <<override, local, touched, received, crashes>>

Reply(t) == /\ pc[t] = "reply"
            /\ pc' = [pc EXCEPT ![t] = "answered"]
            /\ UNCHANGED <<override, local, answer, touched, log, received, crashes>>

\* The process is killed and started again, perhaps in the other mode.
Crash == /\ crashes < MaxCrashes
         /\ crashes' = crashes + 1
         /\ override' \in {"fixture", ""}
         /\ req' = [t \in Threads |-> NoRequest]
         /\ id' = [t \in Threads |-> 0]
         /\ names' = [t \in Threads |-> <<>>]
         /\ targets' = [t \in Threads |-> <<>>]
         /\ pc' = [t \in Threads |-> "idle"]
         /\ reads' = [t \in Threads |-> 0]
         /\ rows' = [t \in Threads |-> <<>>]
         /\ answer' = [t \in Threads |-> NoAnswer]
         /\ touched' = [t \in Threads |-> {}]
         /\ UNCHANGED <<log, received>>

-----------------------------------------------------------------------------
Continue(t) == \/ AnswerUntracked(t) \/ Reject(t) \/ Admit(t)
               \/ ReadOk(t) \/ ReadFails(t) \/ ReadDenied(t)
               \/ Verdict(t) \/ BodyDone(t)
               \/ LogHead(t) \/ Log(t) \/ LogFails(t) \/ Reply(t)

Next == \/ \E t \in Threads : Continue(t) \/ \E q \in Requests : Receive(t, q)
        \/ Crash

Spec == Init /\ [][Next]_vars

-----------------------------------------------------------------------------
RowType == [pair : [device : Devices, audit : AuditNames],
            outcome : {"result"} \cup Labels]
EntryType == [id : 1..MaxRequests, tool : {"run_audit", "collector"},
              part : {"line", "head", "rest"},
              status : {"success", "error"},
              error_class : {"", "ServiceError", "ValueError"}]
Answers == {NoAnswer, Payload} \cup {Error(label) : label \in Labels}
             \cup {Rejected, Error("ValueError"), Error("OSError")}

TypeOK == /\ override \in {"fixture", ""}
          /\ \A t \in Threads : req[t] = NoRequest \/ req[t] \in Requests
          /\ id \in [Threads -> 0..MaxRequests]
          /\ pc \in [Threads -> {"idle", "check", "run", "log", "logging", "reply",
                               "answered"}]
          /\ reads \in [Threads -> Nat]
          /\ \A t \in Threads : rows[t] \in Seq(RowType)
          /\ answer \in [Threads -> Answers]
          /\ \A t \in Threads : touched[t] \subseteq ({"fixture", "api"} \X Devices)
          /\ log \in Seq(EntryType)
          /\ received \in 0..MaxRequests
          /\ crashes \in 0..MaxCrashes

\* What a client asked for, as sets: every name is in the request, or the
\* request left the list empty and the name is registered.
AskedAudits(t) == IF req[t].audits = <<>> THEN AuditNames ELSE Range(req[t].audits)
AskedDevices(t) == IF req[t].devices = <<>> THEN Devices ELSE Range(req[t].devices)
Valid(t) == /\ AskedAudits(t) \subseteq AuditNames
            /\ AskedDevices(t) \subseteq Devices
            /\ Cardinality(AskedAudits(t) \X AskedDevices(t)) <= MaxFanout

\* A run_audit that is answered has exactly one row for each audit and device
\* it was asked for, however often they were repeated, whatever failed.
EachPairOnce == \A t \in Threads :
  (IsAudit(t) /\ pc[t] = "answered" /\ answer[t] = Payload) =>
     /\ {<<rows[t][i].pair.audit, rows[t][i].pair.device>> : i \in DOMAIN rows[t]}
          = AskedAudits(t) \X AskedDevices(t)
     /\ Len(rows[t]) = Cardinality(AskedAudits(t) \X AskedDevices(t))

\* A run_audit is refused exactly when it names something unknown or asks for
\* more pairs than the limit, not counting repetitions; and a refused one has
\* read no device at all.
RefusedUntouched == \A t \in Threads : IsAudit(t) =>
  /\ touched[t] # {} \/ pc[t] \in {"run", "log", "logging", "reply"} => Valid(t)
  /\ pc[t] = "answered" => (answer[t] = Rejected <=> ~Valid(t))

\* Every device read on behalf of a client is allowed, and was read through
\* the backend the mode and the inventory select: never a fixture in place of
\* a live answer, never a live device in fixture-only mode.
OnlySelectedBackend == \A t \in Threads : \A read \in touched[t] :
  LET backend == read[1]
      d == read[2]
  IN /\ d \in Allowed
     /\ backend = IF override = "fixture" THEN "fixture" ELSE Transport[d]
     /\ backend \in {"fixture", "api"}

\* Where the entry of t's call is in the log, written to its end.
EntriesOf(t) == {i \in DOMAIN log : log[i].id = id[t] /\ log[i].part # "head"}

\* No payload of a tracked tool reaches a client unless the log file has its
\* entry, with status "success"; an answered error has one error entry, except
\* a refusal, and a failure of the log itself.
AnswersAreLogged == \A t \in Threads :
  (pc[t] = "answered" /\ Tracked(t)) =>
     /\ answer[t] = Payload =>
          \E i \in EntriesOf(t) : log[i].status = "success"
     /\ answer[t].kind = "error" /\ answer[t] \notin {Rejected, Error("OSError")} =>
          \E i \in EntriesOf(t) : log[i].status = "error"

\* A call is written to the log once: what there is of it is one line, a head
\* alone or a head with its rest, also across restarts, failed writes and calls
\* that write in between.
OneEntryPerCall == \A i, j \in DOMAIN log :
  (i < j /\ log[i].id = log[j].id) => log[i].part = "head" /\ log[j].part = "rest"

\* What audit_log.py:3 says: "Every operation is logged to a JSONL file."  A
\* run_audit that is refused is answered without any entry (set aside here:
\* the answers whose log write failed).
EveryAuditRunLogged == \A t \in Threads :
  (IsAudit(t) /\ pc[t] = "answered" /\ answer[t] # Error("OSError")) => EntriesOf(t) # {}

\* The entry that ends at position i fills a line of its own: nothing that lacks
\* its line's end stands before it, and its rest comes right after its head.
FillsALine(i) ==
  LET first == IF log[i].part = "rest" THEN i - 1 ELSE i
  IN /\ first > 0 /\ log[first].id = log[i].id
     /\ first = 1 \/ log[first - 1].part # "head"

\* What audit_log.py:32 says: an "Append-only JSONL audit logger", a line per
\* entry, as get_entries reads it back.  Of a call that was answered (and not
\* with a failure of the log) the entry is a line that can be read.
EachEntryIsALine == \A t \in Threads :
  (pc[t] = "answered" /\ Tracked(t) /\ answer[t] \notin {Rejected, Error("OSError")})
     => \E i \in EntriesOf(t) : FillsALine(i)

==============================================================================
