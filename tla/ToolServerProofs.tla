--------------------------- MODULE ToolServerProofs ---------------------------
(***************************************************************************)
(* Proofs about ToolServer, for any number of threads, devices, audits,     *)
(* requests and restarts: what the audit log says of the calls, and which   *)
(* backend is read for which device.                                       *)
(***************************************************************************)
EXTENDS ToolServer, SequenceTheorems, TLAPS

Busy == {"check", "run", "log", "logging", "reply"}

AnyEntry == [id : Nat, tool : {q.tool : q \in Requests \cup {NoRequest}},
             part : {"line", "head", "rest"},
             status : {"success", "error"}, error_class : {"", "ValueError", "ServiceError"}]

\* As much of the types as the log depends on.
Types == /\ req \in [Threads -> Requests \cup {NoRequest}]
         /\ id \in [Threads -> Nat]
         /\ pc \in [Threads -> Busy \cup {"idle", "answered"}]
         /\ DOMAIN answer = Threads
         /\ log \in Seq(AnyEntry)
         /\ received \in Nat

\* Request ids are given out once: a call that is being served has one of its
\* own, and no entry is about a call still to come.
Ids == /\ \A t \in Threads : pc[t] \in Busy => id[t] \in 1..received
       /\ \A t, u \in Threads : (t # u /\ pc[t] \in Busy /\ pc[u] \in Busy) => id[t] # id[u]
       /\ \A i \in DOMAIN log : log[i].id \in 1..received

\* A call that has not come to the end of logger.track has nothing in the log;
\* one whose write was cut short has no more than the head of its entry.
PiecesOf(t) == {i \in DOMAIN log : log[i].id = id[t]}
NotYetLogged == \A t \in Threads :
  /\ pc[t] \in {"check", "run", "log"} => PiecesOf(t) = {}
  /\ pc[t] = "logging" => \A i \in PiecesOf(t) : log[i].part = "head"

\* The entry of t's call, if it says what its answer says.
SaysSuccess(t) == \E i \in EntriesOf(t) : log[i].status = "success"
SaysError(t) == \E i \in EntriesOf(t) : log[i].status = "error"
Logged(t) == /\ answer[t] = Payload => SaysSuccess(t)
             /\ answer[t].kind = "error" => SaysError(t)

LoggedBeforeReply == \A t \in Threads : pc[t] = "reply" => Logged(t)

LogInv == Types /\ Ids /\ NotYetLogged /\ OneEntryPerCall /\ LoggedBeforeReply /\ AnswersAreLogged

-----------------------------------------------------------------------------
LEMMA InitHolds == ASSUME Init PROVE LogInv
<1>1. log = <<>> /\ DOMAIN log = {} /\ log \in Seq(AnyEntry)
  <2>1. log = <<>>
    BY DEF Init
  <2>2. <<>> \in Seq(AnyEntry) /\ DOMAIN <<>> = {}
    BY EmptySeq
  <2> QED
    BY <2>1, <2>2
<1>2. Types
  BY <1>1 DEF Init, Types
<1>3. \A t \in Threads : pc[t] = "idle"
  BY DEF Init
<1> QED
  BY <1>1, <1>2, <1>3
  DEF LogInv, Ids, NotYetLogged, OneEntryPerCall, LoggedBeforeReply, AnswersAreLogged, Busy

\* The steps of a thread inside a call that leave the log alone, and do not
\* answer anything that should be in it.
LEMMA QuietStep ==
  ASSUME LogInv, NEW t \in Threads, NEW step, UNCHANGED <<req, id, log, received>>,
         pc[t] \in {"check", "run", "log", "logging"}, pc' = [pc EXCEPT ![t] = step],
         DOMAIN answer' = Threads, \A u \in Threads \ {t} : answer'[u] = answer[u],
         (step \in {"check", "run", "log"} /\ pc[t] # "logging") \/ (step = "answered" /\ ~Tracked(t))
           \/ (step = "answered" /\ answer'[t] \in {Rejected, Error("OSError")})
  PROVE  LogInv'
<1>1. /\ pc'[t] = step /\ pc[t] \in Busy
      /\ \A u \in Threads \ {t} : pc'[u] = pc[u]
  BY DEF LogInv, Types, Busy
<1>2. Types'
  BY DEF LogInv, Types, Busy
<1>3. Ids' /\ NotYetLogged' /\ OneEntryPerCall'
  BY <1>1 DEF LogInv, Ids, NotYetLogged, OneEntryPerCall, PiecesOf, Busy
<1>4. \A u \in Threads : EntriesOf(u)' = EntriesOf(u) /\ Tracked(u)' = Tracked(u)
  BY DEF EntriesOf, Tracked
<1>5. LoggedBeforeReply'
  BY <1>1, <1>4 DEF LogInv, LoggedBeforeReply, Logged, SaysSuccess, SaysError
<1>6. ASSUME NEW u \in Threads, u # t, pc'[u] = "answered", Tracked(u)'
      PROVE  /\ answer'[u] = Payload => SaysSuccess(u)'
             /\ (answer'[u].kind = "error" /\ answer'[u] \notin {Rejected, Error("OSError")})
                  => SaysError(u)'
  BY <1>1, <1>4, <1>6 DEF LogInv, AnswersAreLogged, SaysSuccess, SaysError
<1>7. Rejected # Payload /\ Error("OSError") # Payload
  BY DEF Rejected, Error, Payload
<1>8. AnswersAreLogged'
  BY <1>1, <1>4, <1>6, <1>7 DEF AnswersAreLogged, SaysSuccess, SaysError
<1> QED
  BY <1>2, <1>3, <1>5, <1>8 DEF LogInv

LEMMA AnswerUntrackedHolds == ASSUME LogInv, NEW t \in Threads, AnswerUntracked(t) PROVE LogInv'
  BY QuietStep DEF AnswerUntracked, AnswerWith, local, fixed, LogInv, Types

LEMMA RejectHolds == ASSUME LogInv, NEW t \in Threads, Reject(t) PROVE LogInv'
  BY QuietStep DEF Reject, AnswerWith, local, fixed, LogInv, Types

LEMMA AdmitHolds == ASSUME LogInv, NEW t \in Threads, Admit(t) PROVE LogInv'
  BY QuietStep DEF Admit, local, fixed, LogInv, Types

LEMMA BodyDoneHolds == ASSUME LogInv, NEW t \in Threads, BodyDone(t) PROVE LogInv'
  BY QuietStep DEF BodyDone, local, fixed, LogInv, Types

\* A step inside the body that leaves the call where it is.
LEMMA StayingStep ==
  ASSUME LogInv, UNCHANGED <<req, id, pc, answer, log, received>>
  PROVE  LogInv'
  BY DEF LogInv, Types, Ids, NotYetLogged, OneEntryPerCall, LoggedBeforeReply, Logged,
         SaysSuccess, SaysError, AnswersAreLogged, EntriesOf, PiecesOf, Tracked

LEMMA ReadOkHolds == ASSUME LogInv, NEW t \in Threads, ReadOk(t) PROVE LogInv'
  BY StayingStep DEF ReadOk, fixed

LEMMA VerdictHolds == ASSUME LogInv, NEW t \in Threads, Verdict(t) PROVE LogInv'
  BY StayingStep DEF Verdict, fixed

LEMMA FailHolds ==
  ASSUME LogInv, NEW t \in Threads, NEW label, pc[t] = "run", Fail(t, label),
         UNCHANGED <<req, id, log, received>>
  PROVE  LogInv'
<1>1. CASE IsAudit(t)
  BY <1>1, StayingStep DEF Fail
<1>2. CASE ~IsAudit(t)
  BY <1>2, QuietStep DEF Fail, LogInv, Types
<1> QED
  BY <1>1, <1>2

LEMMA ReadFailsHolds == ASSUME LogInv, NEW t \in Threads, ReadFails(t) PROVE LogInv'
  BY FailHolds DEF ReadFails, WantsRead, fixed

LEMMA ReadDeniedHolds == ASSUME LogInv, NEW t \in Threads, ReadDenied(t) PROVE LogInv'
  BY FailHolds DEF ReadDenied, WantsRead, fixed

LEMMA StutterHolds == ASSUME LogInv, UNCHANGED vars PROVE LogInv'
  BY StayingStep DEF vars, fixed

\* A call is received: it has an id nobody had before.
LEMMA ReceiveHolds ==
  ASSUME LogInv, NEW t \in Threads, NEW q \in Requests, Receive(t, q)
  PROVE  LogInv'
<1>1. /\ received \in Nat /\ received' = received + 1 /\ log' = log
      /\ id'[t] = received + 1 /\ req'[t] = q /\ pc'[t] \in {"run", "check"}
      /\ \A u \in Threads \ {t} : /\ id'[u] = id[u] /\ req'[u] = req[u]
                                  /\ pc'[u] = pc[u] /\ answer'[u] = answer[u]
  BY DEF LogInv, Types, Receive
<1>2. Types'
  <2>1. req' \in [Threads -> Requests \cup {NoRequest}] /\ id' \in [Threads -> Nat]
    BY <1>1 DEF LogInv, Types, Receive
  <2>2. pc' \in [Threads -> Busy \cup {"idle", "answered"}]
    BY DEF LogInv, Types, Receive, Busy
  <2>3. DOMAIN answer' = Threads
    BY DEF LogInv, Types, Receive
  <2> QED
    BY <1>1, <2>1, <2>2, <2>3 DEF LogInv, Types
<1>3. Ids'
  <2>1. \A u \in Threads \ {t} : pc[u] \in Busy => id[u] \in 1..received
    BY DEF LogInv, Ids
  <2>2. \A i \in DOMAIN log : log[i].id \in 1..received
    BY DEF LogInv, Ids
  <2>3. 1..received \subseteq 1..received + 1 /\ received + 1 \in 1..received + 1
        /\ received + 1 \notin 1..received
    BY <1>1
  <2> QED
    BY <1>1, <2>1, <2>2, <2>3 DEF LogInv, Ids
<1>4. /\ PiecesOf(t)' = {}
      /\ \A u \in Threads \ {t} : /\ EntriesOf(u)' = EntriesOf(u) /\ PiecesOf(u)' = PiecesOf(u)
                                  /\ Tracked(u)' = Tracked(u)
  <2>1. \A i \in DOMAIN log : log[i].id # received + 1
    BY <1>1 DEF LogInv, Ids
  <2> QED
    BY <1>1, <2>1 DEF EntriesOf, PiecesOf, Tracked
<1>5. NotYetLogged' /\ OneEntryPerCall'
  BY <1>1, <1>4 DEF LogInv, NotYetLogged, OneEntryPerCall
<1>6. LoggedBeforeReply' /\ AnswersAreLogged'
  BY <1>1, <1>4 DEF LogInv, LoggedBeforeReply, Logged, SaysSuccess, SaysError, AnswersAreLogged
<1> QED
  BY <1>2, <1>3, <1>5, <1>6 DEF LogInv

\* A write of t's entry: of the first piece with this id, or of the rest of a
\* line that was begun.  What ends the line says what the answer says.
LEMMA WriteHolds ==
  ASSUME LogInv, NEW t \in Threads, NEW part, NEW step, Write(t, part),
         UNCHANGED <<req, id, received>>, pc' = [pc EXCEPT ![t] = step],
         DOMAIN answer' = Threads, \A u \in Threads \ {t} : answer'[u] = answer[u],
         \/ pc[t] = "log" /\ part \in {"line", "head"}
         \/ pc[t] = "logging" /\ part = "rest",
         \/ step = "logging" /\ part = "head"
         \/ step = "reply" /\ part # "head" /\ answer'[t] = answer[t]
         \/ step = "answered" /\ answer'[t] = Error("OSError")
  PROVE  LogInv'
<1> DEFINE n == Len(log)
           entry == Entry(t, part)
<1>1. /\ log' = Append(log, entry) /\ pc'[t] = step
      /\ \A u \in Threads \ {t} : pc'[u] = pc[u]
  BY DEF LogInv, Types, Write
<1>2. entry \in AnyEntry /\ entry.id = id[t] /\ entry.part = part
      /\ entry.status = IF answer[t] = Payload THEN "success" ELSE "error"
  BY DEF LogInv, Types, Entry, AnyEntry
<1>3. /\ log \in Seq(AnyEntry) /\ n \in Nat /\ DOMAIN log = 1..n
      /\ log' \in Seq(AnyEntry) /\ Len(log') = n + 1 /\ DOMAIN log' = 1..n + 1
      /\ \A i \in 1..n : log'[i] = log[i]
      /\ log'[n + 1] = entry
  BY <1>1, <1>2, AppendProperties, LenProperties DEF LogInv, Types
<1> HIDE DEF entry
<1>4. \A i \in DOMAIN log' : i \in DOMAIN log \/ i = n + 1
  BY <1>3
<1>5. DOMAIN log \subseteq DOMAIN log' /\ n + 1 \in DOMAIN log' /\ n + 1 \notin DOMAIN log
      /\ \A i \in DOMAIN log : ~(n + 1 < i)
  BY <1>3
<1>6. /\ pc[t] \in Busy
      /\ \A i \in PiecesOf(t) : log[i].part = "head" /\ part = "rest"
  BY <1>1 DEF LogInv, NotYetLogged, Busy
<1>7. Types'
  BY <1>1, <1>3 DEF LogInv, Types, Busy
<1>8. Ids'
  <2>1. \A i \in DOMAIN log' : log'[i].id \in 1..received
    BY <1>2, <1>3, <1>4, <1>6 DEF LogInv, Ids
  <2> QED
    BY <1>1, <1>6, <2>1 DEF LogInv, Ids, Busy
<1>9. \A u \in Threads : /\ id[u] # id[t] => PiecesOf(u)' = PiecesOf(u)
                         /\ PiecesOf(u)' \subseteq PiecesOf(u) \cup {n + 1}
                         /\ EntriesOf(u) \subseteq EntriesOf(u)'
  BY <1>1, <1>2, <1>3, <1>4, <1>5 DEF EntriesOf, PiecesOf
<1>10. NotYetLogged'
  <2>1. \A u \in Threads \ {t} : pc[u] \in Busy => id[u] # id[t]
    BY <1>6 DEF LogInv, Ids
  <2>2. ASSUME NEW u \in Threads, u # t
        PROVE  /\ pc'[u] \in {"check", "run", "log"} => PiecesOf(u)' = {}
               /\ pc'[u] = "logging" => \A i \in PiecesOf(u)' : log'[i].part = "head"
    <3>1. pc'[u] \in Busy => PiecesOf(u)' = PiecesOf(u)
      BY <1>1, <1>9, <2>1, <2>2
    <3>2. \A i \in PiecesOf(u) : log'[i] = log[i]
      BY <1>3 DEF PiecesOf
    <3>3. pc'[u] = pc[u]
      BY <1>1, <2>2
    <3>4. CASE pc[u] \in {"check", "run", "log"}
      BY <3>1, <3>3, <3>4 DEF LogInv, NotYetLogged, Busy
    <3>5. CASE pc[u] = "logging"
      <4>1. PiecesOf(u)' = PiecesOf(u) /\ \A i \in PiecesOf(u) : log[i].part = "head"
        BY <3>1, <3>3, <3>5 DEF LogInv, NotYetLogged, Busy
      <4> QED
        BY <3>2, <3>3, <3>5, <4>1
    <3> QED
      BY <3>3, <3>4, <3>5
  <2>3. pc'[t] = "logging" => \A i \in PiecesOf(t)' : log'[i].part = "head"
    BY <1>1, <1>2, <1>3, <1>6, <1>9
  <2> QED
    BY <1>1, <2>2, <2>3 DEF NotYetLogged
<1>11. OneEntryPerCall'
  <2> SUFFICES ASSUME NEW i \in DOMAIN log', NEW j \in DOMAIN log', i < j,
                      log'[i].id = log'[j].id
               PROVE  log'[i].part = "head" /\ log'[j].part = "rest"
    BY DEF OneEntryPerCall
  <2>1. i \in DOMAIN log /\ log'[i] = log[i]
    BY <1>3, <1>4, <1>5
  <2>2. CASE j \in DOMAIN log
    BY <1>3, <2>1, <2>2 DEF LogInv, OneEntryPerCall
  <2>3. CASE j = n + 1
    BY <1>2, <1>3, <1>6, <2>1, <2>3 DEF PiecesOf
  <2> QED
    BY <1>4, <2>2, <2>3
<1>12. \A u \in Threads : /\ SaysSuccess(u) => SaysSuccess(u)'
                          /\ SaysError(u) => SaysError(u)'
  BY <1>3, <1>9 DEF SaysSuccess, SaysError, EntriesOf
<1>13. ASSUME part # "head", answer'[t] = answer[t]  PROVE Logged(t)'
  <2>1. n + 1 \in EntriesOf(t)'
    BY <1>2, <1>3, <1>5, <1>13 DEF EntriesOf
  <2>2. answer[t].kind = "error" => answer[t] # Payload
    BY DEF Payload
  <2> QED
    BY <1>2, <1>3, <1>13, <2>1, <2>2 DEF Logged, SaysSuccess, SaysError
<1>14. LoggedBeforeReply'
  BY <1>1, <1>12, <1>13 DEF LogInv, LoggedBeforeReply, Logged
<1>15. AnswersAreLogged'
  <2>1. ASSUME NEW u \in Threads, u # t, pc'[u] = "answered", Tracked(u)'
        PROVE  /\ answer'[u] = Payload => SaysSuccess(u)'
               /\ (answer'[u].kind = "error" /\ answer'[u] \notin {Rejected, Error("OSError")})
                    => SaysError(u)'
    <3>1. pc[u] = "answered" /\ Tracked(u) /\ answer'[u] = answer[u]
      BY <1>1, <2>1 DEF Tracked
    <3>2. /\ answer[u] = Payload => SaysSuccess(u)
          /\ (answer[u].kind = "error" /\ answer[u] \notin {Rejected, Error("OSError")})
               => SaysError(u)
      BY <3>1 DEF LogInv, AnswersAreLogged, SaysSuccess, SaysError
    <3> QED
      BY <1>12, <3>1, <3>2
  <2>2. Error("OSError") # Payload
    BY DEF Error, Payload
  <2> QED
    BY <1>1, <2>1, <2>2 DEF AnswersAreLogged, SaysSuccess, SaysError
<1> QED
  BY <1>7, <1>8, <1>10, <1>11, <1>14, <1>15 DEF LogInv

LEMMA LogHolds == ASSUME LogInv, NEW t \in Threads, Log(t) PROVE LogInv'
  BY WriteHolds DEF Log, WriteToEnd, local, fixed, LogInv, Types

LEMMA LogHeadHolds == ASSUME LogInv, NEW t \in Threads, LogHead(t) PROVE LogInv'
  BY WriteHolds DEF LogHead, local, fixed, LogInv, Types

LEMMA LogFailsHolds == ASSUME LogInv, NEW t \in Threads, LogFails(t) PROVE LogInv'
<1>1. /\ pc[t] \in {"log", "logging"} /\ pc' = [pc EXCEPT ![t] = "answered"]
      /\ answer'[t] = Error("OSError") /\ DOMAIN answer' = Threads
      /\ \A u \in Threads \ {t} : answer'[u] = answer[u]
      /\ UNCHANGED <<req, id, received>>
  BY DEF LogFails, AnswerWith, local, fixed, LogInv, Types
<1>2. CASE WriteToEnd(t)
  BY <1>1, <1>2, WriteHolds DEF WriteToEnd
<1>3. CASE UNCHANGED log
  BY <1>1, <1>3, QuietStep
<1> QED
  BY <1>2, <1>3 DEF LogFails

\* The answer goes on to the client, and has its entry.
LEMMA ReplyHolds == ASSUME LogInv, NEW t \in Threads, Reply(t) PROVE LogInv'
<1>1. /\ pc[t] = "reply" /\ pc'[t] = "answered"
      /\ \A u \in Threads \ {t} : pc'[u] = pc[u]
      /\ UNCHANGED <<req, id, answer, log, received>>
  BY DEF LogInv, Types, Reply, local, fixed
<1>2. Types'
  BY <1>1 DEF LogInv, Types, Reply
<1>3. Ids' /\ NotYetLogged' /\ OneEntryPerCall'
  BY <1>1 DEF LogInv, Ids, NotYetLogged, OneEntryPerCall, PiecesOf, Busy
<1>4. \A u \in Threads : /\ SaysSuccess(u)' <=> SaysSuccess(u)
                         /\ SaysError(u)' <=> SaysError(u)
                         /\ Tracked(u)' <=> Tracked(u)
  BY <1>1 DEF SaysSuccess, SaysError, EntriesOf, Tracked
<1>5. LoggedBeforeReply'
  BY <1>1, <1>4 DEF LogInv, LoggedBeforeReply, Logged
<1>6. Logged(t)
  BY <1>1 DEF LogInv, LoggedBeforeReply
<1>7. AnswersAreLogged'
  <2>1. ASSUME NEW u \in Threads, pc'[u] = "answered", Tracked(u)
        PROVE  /\ answer[u] = Payload => SaysSuccess(u)
               /\ (answer[u].kind = "error" /\ answer[u] \notin {Rejected, Error("OSError")})
                    => SaysError(u)
    BY <1>1, <1>6, <2>1 DEF LogInv, AnswersAreLogged, Logged, SaysSuccess, SaysError
  <2> QED
    BY <1>1, <1>4, <2>1 DEF AnswersAreLogged, SaysSuccess, SaysError, Rejected, Error
<1> QED
  BY <1>2, <1>3, <1>5, <1>7 DEF LogInv

\* A restart forgets the calls, not the log.
LEMMA CrashHolds == ASSUME LogInv, Crash PROVE LogInv'
<1>1. \A t \in Threads : pc'[t] = "idle"
  BY DEF Crash
<1>2. log' = log /\ received' = received
  BY DEF Crash
<1>3. Types'
  BY DEF LogInv, Types, Crash
<1> QED
  BY <1>1, <1>2, <1>3 DEF LogInv, Ids, NotYetLogged, OneEntryPerCall, LoggedBeforeReply,
                          AnswersAreLogged, Busy

LEMMA NextHolds == ASSUME LogInv, [Next]_vars PROVE LogInv'
<1>1. ASSUME NEW t \in Threads, Continue(t)  PROVE LogInv'
  BY <1>1, AnswerUntrackedHolds, RejectHolds, AdmitHolds, ReadOkHolds, ReadFailsHolds,
     ReadDeniedHolds, VerdictHolds, BodyDoneHolds, LogHeadHolds, LogHolds, LogFailsHolds,
     ReplyHolds
  DEF Continue
<1>2. ASSUME NEW t \in Threads, NEW q \in Requests, Receive(t, q)  PROVE LogInv'
  BY <1>2, ReceiveHolds
<1>3. CASE Crash
  BY <1>3, CrashHolds
<1>4. CASE UNCHANGED vars
  BY <1>4, StutterHolds
<1> QED
  BY <1>1, <1>2, <1>3, <1>4 DEF Next

LEMMA Invariance == Spec => []LogInv
<1>1. Init => LogInv
  BY InitHolds
<1>2. LogInv /\ [Next]_vars => LogInv'
  BY NextHolds
<1> QED
  BY <1>1, <1>2, PTL DEF Spec

\* A tool call is written to the audit log once: as a line, or as a head with at
\* most a rest, whatever other threads write in between, whichever writes are cut
\* short, and however often the process is killed and started again.
THEOREM SingleEntry == Spec => []OneEntryPerCall
<1>1. LogInv => OneEntryPerCall
  BY DEF LogInv
<1> QED
  BY <1>1, Invariance, PTL

\* What a client is told has an entry of the same status by then.
THEOREM LoggedAnswers == Spec => []AnswersAreLogged
<1>1. LogInv => AnswersAreLogged
  BY DEF LogInv
<1> QED
  BY <1>1, Invariance, PTL

-----------------------------------------------------------------------------
(* Backends.                                                               *)

BackendInv == /\ override \in {"fixture", ""}
              /\ DOMAIN touched = Threads
              /\ OnlySelectedBackend

\* What is added to touched[t] was let through by the service.
LEMMA TouchHolds ==
  ASSUME BackendInv, NEW t \in Threads, Permitted(Device(t)), Touch(t), UNCHANGED override
  PROVE  BackendInv'
<1> DEFINE new == <<BackendFor(Device(t)), Device(t)>>
<1>1. /\ new[1] = BackendFor(Device(t)) /\ new[2] = Device(t)
      /\ touched'[t] = touched[t] \cup {new}
      /\ \A u \in Threads \ {t} : touched'[u] = touched[u]
      /\ DOMAIN touched' = Threads
  BY DEF BackendInv, Touch
<1>2. /\ new[2] \in Allowed
      /\ new[1] = IF override = "fixture" THEN "fixture" ELSE Transport[new[2]]
      /\ new[1] \in {"fixture", "api"}
  BY <1>1 DEF Permitted, BackendFor, Backends, BackendInv
<1> QED
  BY <1>1, <1>2 DEF BackendInv, OnlySelectedBackend

\* A device is read only if the inventory allows it, and only through the backend
\* that the mode and its transport select.
THEOREM SelectedBackend == Spec => []OnlySelectedBackend
<1>1. Init => BackendInv
  BY DEF Init, BackendInv, OnlySelectedBackend
<1>2. BackendInv /\ [Next]_vars => BackendInv'
  <2> SUFFICES ASSUME BackendInv, [Next]_vars  PROVE BackendInv'
    OBVIOUS
  <2>1. CASE UNCHANGED <<override, touched>>
    BY <2>1 DEF BackendInv, OnlySelectedBackend
  <2>2. ASSUME NEW t \in Threads, ReadOk(t) \/ ReadFails(t)  PROVE BackendInv'
    BY <2>2, TouchHolds DEF ReadOk, ReadFails
  <2>3. ASSUME NEW t \in Threads, NEW q \in Requests, Receive(t, q)  PROVE BackendInv'
    BY <2>3 DEF Receive, BackendInv, OnlySelectedBackend
  <2>4. CASE Crash
    BY <2>4 DEF Crash, BackendInv, OnlySelectedBackend
  <2>5. ASSUME NEW t \in Threads, Continue(t)
        PROVE  UNCHANGED <<override, touched>> \/ ReadOk(t) \/ ReadFails(t)
    BY <2>5 DEF Continue, AnswerUntracked, Reject, Admit, ReadDenied, Verdict, BodyDone,
                LogHead, Log, LogFails, Reply
  <2> QED
    BY <2>1, <2>2, <2>3, <2>4, <2>5 DEF Next, vars
<1>3. BackendInv => OnlySelectedBackend
  BY DEF BackendInv
<1> QED
  BY <1>1, <1>2, <1>3, PTL DEF Spec

===============================================================================
