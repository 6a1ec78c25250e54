------------------------------ MODULE LiveQuery ------------------------------
(***************************************************************************)
(* RouterOSAPIBackend._query (backends/routeros_api.py): one collector     *)
(* query over the RouterOS API.  A call resolves credentials, connects     *)
(* with UTF-8, reads the reply row by row, and on a row that is not UTF-8  *)
(* closes the connection and starts again with latin-1; a finally clause   *)
(* closes whatever connection the local variable `conn` still holds.       *)
(*                                                                         *)
(* Every call runs in its own server thread, and every interaction with    *)
(* the device is a step of its own that may fail.  Meanwhile the operator  *)
(* may replace the pinned certificate of a device, which each attempt      *)
(* loads anew before it connects.  librouteros and the vault lookup are    *)
(* external: a step succeeds or raises any exception the code tells apart. *)
(***************************************************************************)
EXTENDS Naturals, Sequences

CONSTANTS Calls,       \* server threads that run a query
          Devices,     \* devices of the inventory with transport "api"
          TlsDevices,  \* those with routeros_api_tls
          NRows        \* rows in the reply to one print

ASSUME LiveQueryAssumption == /\ TlsDevices \subseteq Devices
                              /\ NRows \in Nat

VARIABLES pc,       \* where call c is
          dev,      \* the device c asks (NoDevice before its first query)
          conn,     \* the local variable conn: 0 for None, else the attempt
          link,     \* link[c][k]: what attempt k connected with
          closes,   \* closes[c][k]: calls of close() on that connection
          rows,     \* the list being built by list(conn.path(...)("print"))
          outcome,  \* the answer or the label of the exception on its way
          certOk,   \* the pinned certificate file is there and not empty
          pinned    \* history: it was, at some moment since the attempt of c
                    \* that is under way (or was the last) began

pins == <<certOk, pinned>>
vars == <<pc, dev, conn, link, closes, rows, outcome, certOk, pinned>>

Attempts == {1, 2}           \* 1 decodes UTF-8, 2 latin-1
NoDevice == "no device"
Links == {"none", "plain", "tls"}
Labels == {"unreachable", "auth", "internal_error"}
Outcomes == {"pending", "rows"} \cup Labels
Steps == {"idle", "connect", "dial", "read",
          "reclose", "reconnect", "redial", "reread", "finally", "done"}

Row == [via : Attempts, nr : 1..NRows]
WholeReply(k) == [i \in 1..NRows |-> [via |-> k, nr |-> i]]

-----------------------------------------------------------------------------
(* What an attempt needs, and the label its failure ends with.             *)

\* _connect_kwargs: only a device without TLS is connected to in the clear.
LinkFor(d) == IF d \in TlsDevices THEN "tls" ELSE "plain"

\* _connect_kwargs loads the certificate of a TLS device, and refuses one
\* that is missing or empty.
CanOpen(d) == d \in TlsDevices => certOk[d]

\* What can go wrong: before the connect no credentials, or a certificate that
\* cannot be loaded; then the transport closed, librouteros's FatalError, or
\* anything else.
FailuresOf(c) == CASE pc[c] = "dial"        -> {"closed", "fatal", "other"}
                   [] dev[c] \in TlsDevices -> {"credential", "other"}
                   [] OTHER                 -> {"credential"}

\* A wrong variant (these serve to show that a property can fail): the cause
\* itself is reported.
FirstLabelRaw(cause) == cause

\* _connect resolves credentials outside its try, and a CredentialError has
\* no error_class, so the service reports it as an internal error.
FirstLabel(cause) == CASE cause = "credential" -> "internal_error"
                       [] cause = "fatal"      -> "auth"
                       [] OTHER                -> "unreachable"

-----------------------------------------------------------------------------
Init == /\ pc = [c \in Calls |-> "idle"]
        /\ dev = [c \in Calls |-> NoDevice]
        /\ conn = [c \in Calls |-> 0]
        /\ link = [c \in Calls |-> [k \in Attempts |-> "none"]]
        /\ closes = [c \in Calls |-> [k \in Attempts |-> 0]]
        /\ rows = [c \in Calls |-> <<>>]
        /\ outcome = [c \in Calls |-> "pending"]
        /\ certOk \in [TlsDevices -> BOOLEAN]
        /\ pinned = [c \in Calls |-> FALSE]

\* An attempt on device d begins.
Begin(c, d) == pinned' = [pinned EXCEPT ![c] = d \in TlsDevices /\ certOk[d]]

\* A tool call reaches _query in a thread that has nothing left to do.
Start(c, d) == /\ pc[c] \in {"idle", "done"}
               /\ pc' = [pc EXCEPT ![c] = "connect"]
               /\ dev' = [dev EXCEPT ![c] = d]
               /\ conn' = [conn EXCEPT ![c] = 0]
               /\ link' = [link EXCEPT ![c] = [k \in Attempts |-> "none"]]
               /\ closes' = [closes EXCEPT ![c] = [k \in Attempts |-> 0]]
               /\ rows' = [rows EXCEPT ![c] = <<>>]
               /\ outcome' = [outcome EXCEPT ![c] = "pending"]
               /\ Begin(c, d)
               /\ UNCHANGED certOk

\* The first attempt fails: _connect's exception leaves _query at once.
ConnectFails(c) == /\ pc[c] \in {"connect", "dial"}
                   /\ \E cause \in FailuresOf(c) :
                        outcome' = [outcome EXCEPT ![c] = FirstLabel(cause)]
                   /\ pc' = [pc EXCEPT ![c] = "done"]
                   /\ UNCHANGED <<dev, conn, link, closes, rows, pins>>

\* A wrong variant: the retry connects with the first attempt's TLS context.
PrepareOnce(c) == /\ pc[c] \in {"connect", "reconnect"}
                  /\ pc[c] = "reconnect" \/ CanOpen(dev[c])
                  /\ pc' = [pc EXCEPT ![c] = IF @ = "connect" THEN "dial"
                                                              ELSE "redial"]
                  /\ UNCHANGED <<dev, conn, link, closes, rows, outcome, pins>>

\* The credentials are there, and _connect_kwargs has checked and loaded the
\* certificate; the device is connected to in the next step.
Prepare(c) == /\ pc[c] \in {"connect", "reconnect"}
              /\ CanOpen(dev[c])
              /\ pc' = [pc EXCEPT ![c] = IF @ = "connect" THEN "dial" ELSE "redial"]
              /\ UNCHANGED <<dev, conn, link, closes, rows, outcome, pins>>

\* librouteros.connect returns the connection of attempt k.
Open(c, k) == /\ conn' = [conn EXCEPT ![c] = k]
              /\ link' = [link EXCEPT ![c][k] = LinkFor(dev[c])]

Connect(c) == /\ pc[c] = "dial"
              /\ Open(c, 1)
              /\ pc' = [pc EXCEPT ![c] = "read"]
              /\ UNCHANGED <<dev, closes, rows, outcome, pins>>

\* list(...) takes the next row of the reply.
ReadRow(c) == /\ pc[c] \in {"read", "reread"}
              /\ Len(rows[c]) < NRows
              /\ rows' = [rows EXCEPT ![c] =
                            Append(@, [via |-> conn[c], nr |-> Len(@) + 1])]
              /\ UNCHANGED <<pc, dev, conn, link, closes, outcome, pins>>

EndOfReply(c) == /\ pc[c] \in {"read", "reread"}
                 /\ Len(rows[c]) = NRows
                 /\ pc' = [pc EXCEPT ![c] = "finally"]
                 /\ outcome' = [outcome EXCEPT ![c] = "rows"]
                 /\ UNCHANGED <<dev, conn, link, closes, rows, pins>>

\* Wrong variants: the retry goes on with the half-built list; a latin-1
\* row is retried as well, for ever.
DecodeErrorKeepsRows(c) == /\ pc[c] = "read"
                           /\ Len(rows[c]) < NRows
                           /\ pc' = [pc EXCEPT ![c] = "reclose"]
                           /\ UNCHANGED <<dev, conn, link, closes, rows,
                                          outcome, pins>>
DecodeErrorAgain(c) == /\ pc[c] \in {"read", "reread"}
                       /\ Len(rows[c]) < NRows
                       /\ pc' = [pc EXCEPT ![c] = IF @ = "read" THEN "reclose"
                                                               ELSE "reconnect"]
                       /\ rows' = [rows EXCEPT ![c] = <<>>]
                       /\ UNCHANGED <<dev, conn, link, closes, outcome, pins>>

\* Raised while the UTF-8 reply is read; latin-1 decodes every byte.  The
\* half-built list goes with the exception.
DecodeError(c) == /\ pc[c] = "read"
                  /\ Len(rows[c]) < NRows
                  /\ pc' = [pc EXCEPT ![c] = "reclose"]
                  /\ rows' = [rows EXCEPT ![c] = <<>>]
                  /\ UNCHANGED <<dev, conn, link, closes, outcome, pins>>

\* Any other exception inside the outer try becomes "unreachable".
Unreachable(c) == /\ pc' = [pc EXCEPT ![c] = "finally"]
                  /\ outcome' = [outcome EXCEPT ![c] = "unreachable"]
                  /\ rows' = [rows EXCEPT ![c] = <<>>]

ReadFails(c) == /\ pc[c] \in {"read", "reread"}
                /\ Unreachable(c)
                /\ UNCHANGED <<dev, conn, link, closes, pins>>

-----------------------------------------------------------------------------
(* Closing.                                                                *)

CallsClose(c) == closes' = [closes EXCEPT ![c][conn[c]] = @ + 1]

\* A wrong variant: the retry starts while the UTF-8 connection is open.
RecloseLater(c) == /\ pc[c] = "reclose"
                   /\ conn' = [conn EXCEPT ![c] = 0]
                   /\ pc' = [pc EXCEPT ![c] = "reconnect"]
                   /\ Begin(c, dev[c])
                   /\ UNCHANGED <<dev, link, closes, rows, outcome, certOk>>

\* conn.close(); conn = None
Reclose(c) == /\ pc[c] = "reclose"
              /\ CallsClose(c)
              /\ conn' = [conn EXCEPT ![c] = 0]
              /\ pc' = [pc EXCEPT ![c] = "reconnect"]
              /\ Begin(c, dev[c])
              /\ UNCHANGED <<dev, link, rows, outcome, certOk>>

\* close() raises before conn = None: finally closes the connection again.
RecloseFails(c) == /\ pc[c] = "reclose"
                   /\ CallsClose(c)
                   /\ Unreachable(c)
                   /\ UNCHANGED <<dev, conn, link, pins>>

Reconnect(c) == /\ pc[c] = "redial"
                /\ Open(c, 2)
                /\ pc' = [pc EXCEPT ![c] = "reread"]
                /\ UNCHANGED <<dev, closes, rows, outcome, pins>>

\* A wrong variant: the retry is made by _connect, outside the outer try.
ReconnectFailsRaw(c) == /\ pc[c] \in {"reconnect", "redial"}
                        /\ pc' = [pc EXCEPT ![c] = "finally"]
                        /\ \E cause \in {"credential", "closed", "fatal", "other"} :
                             outcome' = [outcome EXCEPT ![c] = FirstLabel(cause)]
                        /\ UNCHANGED <<dev, conn, link, closes, rows, pins>>

\* _connect_latin1 resolves, loads and connects like _connect, but whatever it
\* raises meets the outer try.
ReconnectFails(c) == /\ pc[c] \in {"reconnect", "redial"}
                     /\ Unreachable(c)
                     /\ UNCHANGED <<dev, conn, link, closes, pins>>

\* Wrong variants: the connection is closed only after a good reply; only
\* the first connection is closed; every connection ever opened is closed.
ReturnClosingAll(c) ==
  /\ pc[c] = "finally"
  /\ closes' = [closes EXCEPT ![c] = [k \in Attempts |->
                  IF link[c][k] = "none" THEN @[k] ELSE @[k] + 1]]
  /\ pc' = [pc EXCEPT ![c] = "done"]
  /\ UNCHANGED <<dev, conn, link, rows, outcome, pins>>
ReturnClosingOnSuccess(c) ==
  /\ pc[c] = "finally"
  /\ IF outcome[c] = "rows" THEN CallsClose(c) ELSE UNCHANGED closes
  /\ pc' = [pc EXCEPT ![c] = "done"]
  /\ UNCHANGED <<dev, conn, link, rows, outcome, pins>>
ReturnClosingFirst(c) ==
  /\ pc[c] = "finally"
  /\ IF conn[c] = 1 THEN CallsClose(c) ELSE UNCHANGED closes
  /\ pc' = [pc EXCEPT ![c] = "done"]
  /\ UNCHANGED <<dev, conn, link, rows, outcome, pins>>

\* The finally clause runs to its end, and the answer or exception goes on.
Return(c) == /\ pc[c] = "finally"
             /\ IF conn[c] # 0 THEN CallsClose(c) ELSE UNCHANGED closes
             /\ pc' = [pc EXCEPT ![c] = "done"]
             /\ UNCHANGED <<dev, conn, link, rows, outcome, pins>>

\* close() raises in the finally clause: its exception replaces the answer
\* and any BackendError, and it has no error_class.
ReturnFails(c) == /\ pc[c] = "finally"
                  /\ conn[c] # 0
                  /\ CallsClose(c)
                  /\ pc' = [pc EXCEPT ![c] = "done"]
                  /\ outcome' = [outcome EXCEPT ![c] = "internal_error"]
                  /\ rows' = [rows EXCEPT ![c] = <<>>]
                  /\ UNCHANGED <<dev, conn, link, pins>>

\* The operator removes, empties or restores a pinned certificate.
ReplaceCertificate(d) == /\ certOk' = [certOk EXCEPT ![d] = ~@]
                         /\ pinned' = [c \in Calls |->
                              \/ pinned[c]
                              \/ /\ dev[c] = d /\ ~certOk[d]
                                 /\ pc[c] \in {"connect", "reconnect"}]
                         /\ UNCHANGED <<pc, dev, conn, link, closes, rows, outcome>>

-----------------------------------------------------------------------------
Continue(c) == \/ Prepare(c)
               \/ Connect(c)        \/ ConnectFails(c)
               \/ ReadRow(c)        \/ EndOfReply(c)
               \/ DecodeError(c)    \/ ReadFails(c)
               \/ Reclose(c)        \/ RecloseFails(c)
               \/ Reconnect(c)      \/ ReconnectFails(c)
               \/ Return(c)         \/ ReturnFails(c)

Next == \/ \E c \in Calls : Continue(c) \/ \E d \in Devices : Start(c, d)
        \/ \E d \in TlsDevices : ReplaceCertificate(d)

\* Each step of a running thread ends: connecting and reading have a socket
\* timeout of 10 s, and a thread is scheduled while it can run.
Fairness == \A c \in Calls : WF_vars(Continue(c))

Spec == Init /\ [][Next]_vars
FairSpec == Spec /\ Fairness

-----------------------------------------------------------------------------
TypeOK == /\ pc \in [Calls -> Steps]
          /\ dev \in [Calls -> Devices \cup {NoDevice}]
          /\ conn \in [Calls -> {0} \cup Attempts]
          /\ link \in [Calls -> [Attempts -> Links]]
          /\ closes \in [Calls -> [Attempts -> 0..2]]
          /\ rows \in [Calls -> Seq(Row)]
          /\ outcome \in [Calls -> Outcomes]
          /\ certOk \in [TlsDevices -> BOOLEAN]
          /\ pinned \in [Calls -> BOOLEAN]

\* Attempt k of the running query has a connection nobody has closed.
Unclosed(c, k) == link[c][k] # "none" /\ closes[c][k] = 0

\* No connection outlives its query: when _query has returned or raised, by
\* whatever path (a failed close of the first connection, a failed retry, a
\* failed read), close() was called on every connection it opened.
ReleasedAtReturn == \A c \in Calls : pc[c] = "done" =>
                      \A k \in Attempts : ~Unclosed(c, k)

\* The latin-1 retry never runs beside the UTF-8 connection: a call has at
\* most one connection it has not closed, and it is the one in `conn`.
OneConnection == \A c \in Calls : \A k \in Attempts :
                   Unclosed(c, k) => conn[c] = k

\* A list that is returned is one whole reply, from first row to last, read
\* over one connection: the retry mixes nothing into it and drops nothing.
AnswerIsOneReply == \A c \in Calls : pc[c] = "done" /\ outcome[c] = "rows" =>
                      \E k \in Attempts : rows[c] = WholeReply(k)

\* A query that answers with rows closed each of its connections exactly
\* once (the retry included): a second close() would be on a dead socket.
ClosedOnceOnSuccess == \A c \in Calls : pc[c] = "done" /\ outcome[c] = "rows" =>
                         \A k \in Attempts : closes[c][k] =
                           IF link[c][k] = "none" THEN 0 ELSE 1

\* Each attempt at a TLS device goes by a certificate of its own time: one
\* that was withdrawn before the latin-1 retry began is not what the retry
\* connects with, or reads by, even though the first attempt had loaded it.
PinOfThisAttempt == \A c \in Calls :
  dev[c] \in TlsDevices /\ pc[c] \in {"dial", "read", "redial", "reread"}
    => pinned[c]

\* The label tells the operator where a query failed: "auth" that the first
\* login was refused (not a later one), "internal_error" that there was no
\* connection to speak of or that closing one failed in the end; and an error
\* carries no rows.
LabelTellsStage == \A c \in Calls : pc[c] = "done" =>
  /\ outcome[c] = "auth" => link[c][1] = "none"
  /\ outcome[c] = "internal_error" => link[c][1] = "none" \/ conn[c] # 0
  /\ outcome[c] # "rows" => rows[c] = <<>>

\* Every query ends: the retry is made at most once.
QueryEnds == \A c \in Calls : pc[c] # "idle" ~> pc[c] = "done"

-----------------------------------------------------------------------------
(* The promise of QueryContract, kept.                                     *)

AbsPhase == [c \in Calls |-> IF pc[c] \in {"idle", "done"} THEN pc[c] ELSE "busy"]
AbsHeld == [c \in Calls |-> \E k \in Attempts : Unclosed(c, k)]
AbsOpens == [c \in Calls |-> CASE link[c][2] # "none" -> 2
                               [] link[c][1] # "none" /\ link[c][2] = "none" -> 1
                               [] OTHER -> 0]
AbsAnswer == [c \in Calls |-> IF pc[c] = "done" THEN outcome[c] ELSE "pending"]

Contract == INSTANCE QueryContract WITH
  Answers <- {"rows"} \cup Labels, NoAnswer <- "pending", MaxOpens <- 2,
  phase <- AbsPhase, held <- AbsHeld, opens <- AbsOpens, answer <- AbsAnswer

\* Whatever fails, a query behaves as QueryContract promises: it holds one
\* connection at a time, opens two at most, holds none when it ends, and
\* ends with one answer that does not change until the thread's next query.
KeepsContract == Contract!ContractSafety

=============================================================================
