--------------------------- MODULE LiveQueryProofs ---------------------------
(***************************************************************************)
(* Proofs about LiveQuery for any number of threads, devices and rows:     *)
(* type correctness, the release of every connection, the single           *)
(* connection, the unmixed reply, the certificate of each attempt, what    *)
(* the label of a failure tells, and the refinement of QueryContract.  All *)
(* of them follow from one inductive invariant, which says for each        *)
(* program point which attempt is open, which is closed and how far the    *)
(* list has been built; the certificate has one of its own beside it.      *)
(***************************************************************************)
EXTENDS LiveQuery, SequenceTheorems, TLAPS

\* The list holds the first rows of the reply on connection k.
PrefixVia(c, k) == /\ Len(rows[c]) \in 0..NRows
                   /\ rows[c] = [i \in 1..Len(rows[c]) |-> [via |-> k, nr |-> i]]

Untouched(c, k) == link[c][k] = "none" /\ closes[c][k] = 0
OpenNow(c, k) == link[c][k] # "none" /\ closes[c][k] = 0
ClosedOnce(c, k) == link[c][k] # "none" /\ closes[c][k] = 1

NothingOpened(c) == conn[c] = 0 /\ Untouched(c, 1) /\ Untouched(c, 2)
FirstOpen(c) == conn[c] = 1 /\ OpenNow(c, 1) /\ Untouched(c, 2)
FirstClosed(c) == conn[c] = 0 /\ ClosedOnce(c, 1) /\ Untouched(c, 2)
SecondOpen(c) == conn[c] = 2 /\ ClosedOnce(c, 1) /\ OpenNow(c, 2)
\* RecloseFails: close() was called, raised, and finally calls it again.
CloseFailed(c) == conn[c] = 1 /\ ClosedOnce(c, 1) /\ Untouched(c, 2)

AtFinally(c) == \/ FirstClosed(c) /\ outcome[c] = "unreachable"
                \/ CloseFailed(c) /\ outcome[c] = "unreachable"
                \/ FirstOpen(c) /\ outcome[c] \in {"rows", "unreachable"}
                \/ SecondOpen(c) /\ outcome[c] \in {"rows", "unreachable"}

\* What a label tells of the query it ends.
Telling(c) == /\ outcome[c] = "auth" => link[c][1] = "none"
              /\ outcome[c] = "internal_error" => link[c][1] = "none" \/ conn[c] # 0

AtDone(c) == /\ Telling(c)
             /\ \A k \in Attempts : link[c][k] # "none" => closes[c][k] # 0
             /\ outcome[c] # "pending"
             /\ outcome[c] = "rows" =>
                  /\ conn[c] \in Attempts
                  /\ \A k \in Attempts : Untouched(c, k) \/ ClosedOnce(c, k)

\* What holds of call c at its program point.
Local(c) ==
  /\ pc[c] \in {"idle", "connect", "dial"} => NothingOpened(c) /\ rows[c] = <<>>
  /\ pc[c] = "read" => FirstOpen(c) /\ PrefixVia(c, 1)
  /\ pc[c] = "reclose" => FirstOpen(c) /\ rows[c] = <<>>
  /\ pc[c] \in {"reconnect", "redial"} => FirstClosed(c) /\ rows[c] = <<>>
  /\ pc[c] = "reread" => SecondOpen(c) /\ PrefixVia(c, 2)
  /\ pc[c] = "finally" => AtFinally(c)
  /\ pc[c] = "done" => AtDone(c)
  /\ pc[c] \in {"finally", "done"} /\ outcome[c] = "rows" =>
       Len(rows[c]) = NRows /\ PrefixVia(c, conn[c])
  /\ pc[c] \in {"finally", "done"} /\ outcome[c] # "rows" => rows[c] = <<>>
  /\ pc[c] \notin {"idle", "done"} => dev[c] \in Devices
  /\ pc[c] \notin {"finally", "done"} => outcome[c] = "pending"

IInv == TypeOK /\ \A c \in Calls : Local(c)

-----------------------------------------------------------------------------
USE LiveQueryAssumption DEF pins, Attempts, Links, Labels, Outcomes, Steps

LEMMA InitIInv == Init => IInv
BY DEF Init, IInv, TypeOK, Local, NothingOpened, Untouched

-----------------------------------------------------------------------------
(* One lemma per action.  A step of call c leaves the facts of the other   *)
(* calls alone, since it changes only c's entries.                         *)

LEMMA StartStep ==
  ASSUME IInv, NEW c \in Calls, NEW d \in Devices, Start(c, d)
  PROVE  IInv'
<1>1. TypeOK'
  BY DEF IInv, TypeOK, Start, Begin
<1>2. ASSUME NEW q \in Calls PROVE Local(q)'
  BY DEF IInv, TypeOK, Start,
         Local, NothingOpened, FirstOpen, FirstClosed, SecondOpen,
         CloseFailed, AtFinally, AtDone, Telling, Untouched, OpenNow, ClosedOnce,
         PrefixVia
<1> QED BY <1>1, <1>2 DEF IInv

LEMMA ConnectFailsStep ==
  ASSUME IInv, NEW c \in Calls, ConnectFails(c)
  PROVE  IInv'
<1>1. TypeOK'
  BY DEF IInv, TypeOK, ConnectFails, FailuresOf, FirstLabel
<1>2. ASSUME NEW q \in Calls PROVE Local(q)'
  BY DEF IInv, TypeOK, ConnectFails, FailuresOf, FirstLabel,
         Local, NothingOpened, FirstOpen, FirstClosed, SecondOpen,
         CloseFailed, AtFinally, AtDone, Telling, Untouched, OpenNow, ClosedOnce,
         PrefixVia
<1> QED BY <1>1, <1>2 DEF IInv

LEMMA PrepareStep ==
  ASSUME IInv, NEW c \in Calls, Prepare(c)
  PROVE  IInv'
<1>1. TypeOK'
  BY DEF IInv, TypeOK, Prepare
<1>2. ASSUME NEW q \in Calls PROVE Local(q)'
  BY DEF IInv, TypeOK, Prepare,
         Local, NothingOpened, FirstOpen, FirstClosed, SecondOpen,
         CloseFailed, AtFinally, AtDone, Telling, Untouched, OpenNow, ClosedOnce,
         PrefixVia
<1> QED BY <1>1, <1>2 DEF IInv

LEMMA ConnectStep ==
  ASSUME IInv, NEW c \in Calls, Connect(c)
  PROVE  IInv'
<1>1. TypeOK'
  BY DEF IInv, TypeOK, Connect, Open, LinkFor
<1>2. ASSUME NEW q \in Calls PROVE Local(q)'
  BY DEF IInv, TypeOK, Connect, Open, LinkFor,
         Local, NothingOpened, FirstOpen, FirstClosed, SecondOpen,
         CloseFailed, AtFinally, AtDone, Telling, Untouched, OpenNow, ClosedOnce,
         PrefixVia
<1> QED BY <1>1, <1>2 DEF IInv

LEMMA ReadRowStep ==
  ASSUME IInv, NEW c \in Calls, ReadRow(c)
  PROVE  IInv'
<1> DEFINE row == [via |-> conn[c], nr |-> Len(rows[c]) + 1]
           longer == Append(rows[c], row)
<1>1. /\ pc[c] \in {"read", "reread"} /\ Len(rows[c]) < NRows
      /\ rows' = [rows EXCEPT ![c] = longer]
      /\ UNCHANGED <<pc, dev, conn, link, closes, outcome, pins>>
  BY DEF ReadRow
<1>2. rows[c] \in Seq(Row) /\ Len(rows[c]) \in Nat /\ PrefixVia(c, conn[c])
      /\ conn[c] \in Attempts
  BY <1>1 DEF IInv, TypeOK, Local, FirstOpen, SecondOpen
<1>3. row \in Row
  BY <1>1, <1>2 DEF Row
<1>4. /\ longer \in Seq(Row)
      /\ Len(longer) = Len(rows[c]) + 1
      /\ \A i \in 1..Len(rows[c]) : longer[i] = rows[c][i]
      /\ longer[Len(rows[c]) + 1] = row
  BY <1>2, <1>3, AppendProperties
<1>5. longer = [i \in 1..Len(longer) |-> [via |-> conn[c], nr |-> i]]
  <2>1. DOMAIN longer = 1..Len(longer) /\ longer \in [1..Len(longer) -> Row]
    BY <1>4, LenProperties
  <2>2. ASSUME NEW i \in 1..Len(longer)
        PROVE  longer[i] = [via |-> conn[c], nr |-> i]
    <3>1. CASE i \in 1..Len(rows[c])
      BY <3>1, <1>2, <1>4 DEF PrefixVia
    <3>2. CASE i = Len(rows[c]) + 1
      BY <3>2, <1>4
    <3> QED BY <1>2, <1>4, <3>1, <3>2
  <2> QED BY <2>1, <2>2
<1>6. TypeOK'
  BY <1>1, <1>4 DEF IInv, TypeOK
<1>7. PrefixVia(c, conn[c])'
  <2>1. rows'[c] = longer /\ conn'[c] = conn[c] /\ Len(rows[c]) < NRows
    BY <1>1 DEF IInv, TypeOK
  <2> HIDE DEF longer
  <2> QED BY <1>2, <1>4, <1>5, <2>1 DEF PrefixVia
<1>8. Local(c)'
  BY <1>1, <1>7 DEF IInv, Local, FirstOpen, SecondOpen, Untouched, OpenNow,
                    ClosedOnce
<1>9. ASSUME NEW q \in Calls, q # c PROVE Local(q)'
  <2>1. rows'[q] = rows[q]
    BY <1>1, <1>9 DEF IInv, TypeOK
  <2>2. UNCHANGED <<pc, dev, conn, link, closes, outcome>> /\ Local(q)
    BY <1>1, <1>9 DEF IInv
  <2> HIDE DEF row, longer
  <2> QED BY <2>1, <2>2 DEF
         Local, NothingOpened, FirstOpen, FirstClosed, SecondOpen,
         CloseFailed, AtFinally, AtDone, Telling, Untouched, OpenNow, ClosedOnce,
         PrefixVia
<1> QED BY <1>6, <1>8, <1>9 DEF IInv

LEMMA EndOfReplyStep ==
  ASSUME IInv, NEW c \in Calls, EndOfReply(c)
  PROVE  IInv'
<1>1. TypeOK'
  BY DEF IInv, TypeOK, EndOfReply
<1>2. ASSUME NEW q \in Calls PROVE Local(q)'
  BY DEF IInv, TypeOK, EndOfReply,
         Local, NothingOpened, FirstOpen, FirstClosed, SecondOpen,
         CloseFailed, AtFinally, AtDone, Telling, Untouched, OpenNow, ClosedOnce,
         PrefixVia
<1> QED BY <1>1, <1>2 DEF IInv

LEMMA DecodeErrorStep ==
  ASSUME IInv, NEW c \in Calls, DecodeError(c)
  PROVE  IInv'
<1>1. TypeOK'
  BY DEF IInv, TypeOK, DecodeError
<1>2. Local(c)'
  BY DEF IInv, TypeOK, DecodeError, Local, FirstOpen, Untouched, OpenNow
<1>3. ASSUME NEW q \in Calls, q # c PROVE Local(q)'
  BY <1>3 DEF IInv, TypeOK, DecodeError,
         Local, NothingOpened, FirstOpen, FirstClosed, SecondOpen,
         CloseFailed, AtFinally, AtDone, Telling, Untouched, OpenNow, ClosedOnce,
         PrefixVia
<1> QED BY <1>1, <1>2, <1>3 DEF IInv

LEMMA ReadFailsStep ==
  ASSUME IInv, NEW c \in Calls, ReadFails(c)
  PROVE  IInv'
<1>1. TypeOK'
  BY DEF IInv, TypeOK, ReadFails, Unreachable
<1>2. ASSUME NEW q \in Calls PROVE Local(q)'
  BY DEF IInv, TypeOK, ReadFails, Unreachable,
         Local, NothingOpened, FirstOpen, FirstClosed, SecondOpen,
         CloseFailed, AtFinally, AtDone, Telling, Untouched, OpenNow, ClosedOnce,
         PrefixVia
<1> QED BY <1>1, <1>2 DEF IInv

LEMMA RecloseStep ==
  ASSUME IInv, NEW c \in Calls, Reclose(c)
  PROVE  IInv'
<1>1. conn[c] = 1 /\ closes[c][1] = 0
  BY DEF IInv, TypeOK, Reclose, Local, FirstOpen, OpenNow
<1>2. TypeOK'
  BY <1>1 DEF IInv, TypeOK, Reclose, CallsClose, Begin
<1>3. ASSUME NEW q \in Calls PROVE Local(q)'
  BY DEF IInv, TypeOK, Reclose, CallsClose,
         Local, NothingOpened, FirstOpen, FirstClosed, SecondOpen,
         CloseFailed, AtFinally, AtDone, Telling, Untouched, OpenNow, ClosedOnce,
         PrefixVia
<1> QED BY <1>2, <1>3 DEF IInv

LEMMA RecloseFailsStep ==
  ASSUME IInv, NEW c \in Calls, RecloseFails(c)
  PROVE  IInv'
<1>1. conn[c] = 1 /\ closes[c][1] = 0
  BY DEF IInv, TypeOK, RecloseFails, Local, FirstOpen, OpenNow
<1>2. TypeOK'
  BY <1>1 DEF IInv, TypeOK, RecloseFails, CallsClose, Unreachable
<1>3. ASSUME NEW q \in Calls PROVE Local(q)'
  BY DEF IInv, TypeOK, RecloseFails, CallsClose, Unreachable,
         Local, NothingOpened, FirstOpen, FirstClosed, SecondOpen,
         CloseFailed, AtFinally, AtDone, Telling, Untouched, OpenNow, ClosedOnce,
         PrefixVia
<1> QED BY <1>2, <1>3 DEF IInv

LEMMA ReconnectStep ==
  ASSUME IInv, NEW c \in Calls, Reconnect(c)
  PROVE  IInv'
<1>1. TypeOK'
  BY DEF IInv, TypeOK, Reconnect, Open, LinkFor
<1>2. ASSUME NEW q \in Calls PROVE Local(q)'
  BY DEF IInv, TypeOK, Reconnect, Open, LinkFor,
         Local, NothingOpened, FirstOpen, FirstClosed, SecondOpen,
         CloseFailed, AtFinally, AtDone, Telling, Untouched, OpenNow, ClosedOnce,
         PrefixVia
<1> QED BY <1>1, <1>2 DEF IInv

LEMMA ReconnectFailsStep ==
  ASSUME IInv, NEW c \in Calls, ReconnectFails(c)
  PROVE  IInv'
<1>1. TypeOK'
  BY DEF IInv, TypeOK, ReconnectFails, Unreachable
<1>2. ASSUME NEW q \in Calls PROVE Local(q)'
  BY DEF IInv, TypeOK, ReconnectFails, Unreachable,
         Local, NothingOpened, FirstOpen, FirstClosed, SecondOpen,
         CloseFailed, AtFinally, AtDone, Telling, Untouched, OpenNow, ClosedOnce,
         PrefixVia
<1> QED BY <1>1, <1>2 DEF IInv

LEMMA ReturnStep ==
  ASSUME IInv, NEW c \in Calls, Return(c)
  PROVE  IInv'
<1>1. closes[c][conn[c]] \in {0, 1} \/ conn[c] = 0
  BY DEF IInv, TypeOK, Return, Local, AtFinally, FirstOpen, FirstClosed,
         SecondOpen, CloseFailed, OpenNow, ClosedOnce
<1>2. TypeOK'
  <2>1. CASE conn[c] = 0
    BY <2>1 DEF IInv, TypeOK, Return
  <2>2. CASE conn[c] # 0
    <3>1. closes[c][conn[c]] \in {0, 1} /\ conn[c] \in {1, 2}
      BY <1>1, <2>2 DEF IInv, TypeOK
    <3>2. closes' = [closes EXCEPT ![c][conn[c]] = @ + 1]
      BY <2>2 DEF Return, CallsClose
    <3> QED BY <3>1, <3>2 DEF IInv, TypeOK, Return
  <2> QED BY <2>1, <2>2
<1>3. ASSUME NEW q \in Calls PROVE Local(q)'
  BY DEF IInv, TypeOK, Return, CallsClose,
         Local, NothingOpened, FirstOpen, FirstClosed, SecondOpen,
         CloseFailed, AtFinally, AtDone, Telling, Untouched, OpenNow, ClosedOnce,
         PrefixVia
<1> QED BY <1>2, <1>3 DEF IInv

LEMMA ReturnFailsStep ==
  ASSUME IInv, NEW c \in Calls, ReturnFails(c)
  PROVE  IInv'
<1>1. closes[c][conn[c]] \in {0, 1} \/ conn[c] = 0
  BY DEF IInv, TypeOK, ReturnFails, Local, AtFinally, FirstOpen, FirstClosed,
         SecondOpen, CloseFailed, OpenNow, ClosedOnce
<1>2. TypeOK'
  BY <1>1 DEF IInv, TypeOK, ReturnFails, CallsClose
<1>3. ASSUME NEW q \in Calls PROVE Local(q)'
  BY DEF IInv, TypeOK, ReturnFails, CallsClose,
         Local, NothingOpened, FirstOpen, FirstClosed, SecondOpen,
         CloseFailed, AtFinally, AtDone, Telling, Untouched, OpenNow, ClosedOnce,
         PrefixVia
<1> QED BY <1>2, <1>3 DEF IInv

LEMMA ReplaceCertificateStep ==
  ASSUME IInv, NEW d \in TlsDevices, ReplaceCertificate(d)
  PROVE  IInv'
BY DEF IInv, TypeOK, ReplaceCertificate,
       Local, NothingOpened, FirstOpen, FirstClosed, SecondOpen,
       CloseFailed, AtFinally, AtDone, Telling, Untouched, OpenNow, ClosedOnce,
       PrefixVia

LEMMA StutterStep == IInv /\ UNCHANGED vars => IInv'
BY DEF IInv, TypeOK, vars,
       Local, NothingOpened, FirstOpen, FirstClosed, SecondOpen,
       CloseFailed, AtFinally, AtDone, Telling, Untouched, OpenNow, ClosedOnce,
       PrefixVia

LEMMA NextStep == IInv /\ [Next]_vars => IInv'
<1> SUFFICES ASSUME IInv, [Next]_vars PROVE IInv'
  OBVIOUS
<1>1. ASSUME NEW c \in Calls, Continue(c) PROVE IInv'
  BY <1>1, PrepareStep, ConnectFailsStep, ConnectStep, ReadRowStep, EndOfReplyStep,
     DecodeErrorStep, ReadFailsStep, RecloseStep, RecloseFailsStep,
     ReconnectStep, ReconnectFailsStep, ReturnStep, ReturnFailsStep DEF Continue
<1>2. ASSUME NEW c \in Calls, NEW d \in Devices, Start(c, d) PROVE IInv'
  BY <1>2, StartStep
<1>3. ASSUME NEW d \in TlsDevices, ReplaceCertificate(d) PROVE IInv'
  BY <1>3, ReplaceCertificateStep
<1>4. CASE UNCHANGED vars
  BY <1>4, StutterStep
<1> QED BY <1>1, <1>2, <1>3, <1>4 DEF Next

THEOREM Invariance == Spec => []IInv
<1> QED BY InitIInv, NextStep, PTL DEF Spec

-----------------------------------------------------------------------------
(* What a reader wants to know, from the invariant.                        *)

\* Every variable keeps its type: in particular no connection is ever closed
\* more than twice, and a query ends with rows or with one of three labels.
THEOREM TypeCorrect == Spec => []TypeOK
<1>1. IInv => TypeOK
  BY DEF IInv
<1> QED BY <1>1, Invariance, PTL

\* However a query ends, close() was called on each connection it opened.
THEOREM Released == Spec => []ReleasedAtReturn
<1>1. IInv => ReleasedAtReturn
  BY DEF IInv, Local, AtDone, ReleasedAtReturn, Unclosed
<1> QED BY <1>1, Invariance, PTL

\* The UTF-8 and the latin-1 connection are never open together.
THEOREM SingleConnection == Spec => []OneConnection
<1>1. IInv => OneConnection
  <2> SUFFICES ASSUME IInv, NEW c \in Calls, NEW k \in Attempts, Unclosed(c, k)
               PROVE  conn[c] = k
    BY DEF OneConnection
  <2>1. pc[c] \in Steps /\ Local(c)
    BY DEF IInv, TypeOK
  <2> QED BY <2>1 DEF Unclosed, Local, NothingOpened, FirstOpen, FirstClosed,
                      SecondOpen, CloseFailed, AtFinally, AtDone, Telling, Untouched,
                      OpenNow, ClosedOnce
<1> QED BY <1>1, Invariance, PTL

\* A returned list is one reply, whole and from one connection.
THEOREM UnmixedAnswer == Spec => []AnswerIsOneReply
<1>1. IInv => AnswerIsOneReply
  <2> SUFFICES ASSUME IInv, NEW c \in Calls, pc[c] = "done", outcome[c] = "rows"
               PROVE  \E k \in Attempts : rows[c] = WholeReply(k)
    BY DEF AnswerIsOneReply
  <2>1. conn[c] \in Attempts /\ Len(rows[c]) = NRows /\ PrefixVia(c, conn[c])
    BY DEF IInv, Local, AtDone
  <2> QED BY <2>1 DEF PrefixVia, WholeReply
<1> QED BY <1>1, Invariance, PTL

\* A query that returns rows has closed each of its connections once.
THEOREM NoSecondClose == Spec => []ClosedOnceOnSuccess
<1>1. IInv => ClosedOnceOnSuccess
  BY DEF IInv, Local, AtDone, Untouched, ClosedOnce, ClosedOnceOnSuccess
<1> QED BY <1>1, Invariance, PTL

-----------------------------------------------------------------------------
\* What the service reports of a failed query tells how far it had got.
THEOREM LabelsTell == Spec => []LabelTellsStage
<1>1. IInv => LabelTellsStage
  BY DEF IInv, Local, AtDone, Telling, LabelTellsStage
<1> QED BY <1>1, Invariance, PTL

-----------------------------------------------------------------------------
(* The certificate.  While an attempt has not loaded it, its being there is *)
(* recorded; once it has, it was there.                                     *)

LoadedPin(c) == dev[c] \in TlsDevices =>
                  /\ pc[c] \in {"connect", "reconnect"} /\ certOk[dev[c]] => pinned[c]
                  /\ pc[c] \in {"dial", "read", "redial", "reread"} => pinned[c]

PinInv == \A c \in Calls : LoadedPin(c)

LEMMA ContinuePin ==
  ASSUME IInv, PinInv, NEW c \in Calls, Continue(c)
  PROVE  PinInv'
<1> SUFFICES ASSUME NEW q \in Calls PROVE LoadedPin(q)'
  BY DEF PinInv
<1>1. dev' = dev /\ certOk' = certOk /\ LoadedPin(q) /\ (q # c => pc'[q] = pc[q])
  BY DEF IInv, TypeOK, PinInv, Continue, Prepare, ConnectFails, Connect, ReadRow,
         EndOfReply, DecodeError, ReadFails, Unreachable, Reclose, RecloseFails,
         Reconnect, ReconnectFails, Return, ReturnFails
<1>2. CASE Prepare(c)
  BY <1>1, <1>2 DEF IInv, TypeOK, Prepare, CanOpen, LoadedPin
<1>3. CASE Reclose(c)
  BY <1>1, <1>3 DEF IInv, TypeOK, Reclose, Begin, LoadedPin
<1>4. CASE ~Prepare(c) /\ ~Reclose(c)
  <2>1. /\ pinned' = pinned
        /\ pc'[c] \in {"read", "reread", "reclose", "finally", "done"}
        /\ pc'[c] \in {"read", "reread"} =>
             pc[c] \in {"dial", "read", "redial", "reread"}
    BY <1>4 DEF IInv, TypeOK, Continue, ConnectFails, Connect, ReadRow, EndOfReply,
                DecodeError, ReadFails, Unreachable, RecloseFails, Reconnect,
                ReconnectFails, Return, ReturnFails
  <2> QED BY <1>1, <2>1 DEF LoadedPin
<1> QED BY <1>2, <1>3, <1>4

LEMMA PinStep == IInv /\ PinInv /\ [Next]_vars => PinInv'
<1> SUFFICES ASSUME IInv, PinInv, [Next]_vars PROVE PinInv'
  OBVIOUS
<1>1. ASSUME NEW c \in Calls, NEW d \in Devices, Start(c, d) PROVE PinInv'
  BY <1>1 DEF IInv, TypeOK, Start, Begin, PinInv, LoadedPin
<1>2. ASSUME NEW d \in TlsDevices, ReplaceCertificate(d) PROVE PinInv'
  BY <1>2 DEF IInv, TypeOK, ReplaceCertificate, PinInv, LoadedPin
<1>3. CASE UNCHANGED vars
  BY <1>3 DEF vars, PinInv, LoadedPin
<1> QED BY ContinuePin, <1>1, <1>2, <1>3 DEF Next

\* A connection to a TLS device goes by a certificate that was in its file
\* during the attempt that opened it: the retry does not live on the first's.
THEOREM PinnedAttempts == Spec => []PinOfThisAttempt
<1>1. Init => PinInv
  BY DEF Init, PinInv, LoadedPin, NoDevice
<1>2. PinInv => PinOfThisAttempt
  BY DEF PinInv, LoadedPin, PinOfThisAttempt
<1> QED BY <1>1, <1>2, PinStep, Invariance, PTL DEF Spec

-----------------------------------------------------------------------------
(* The refinement of QueryContract: each step is a step of the contract    *)
(* for its own call, or leaves the abstract state as it is.                *)

AbsState == <<AbsPhase, AbsHeld, AbsOpens, AbsAnswer>>

LEMMA InitRefines == Init => Contract!ContractInit
BY DEF Init, Contract!ContractInit, AbsPhase, AbsHeld, AbsOpens, AbsAnswer, Unclosed

\* Nothing is held when a query starts.
LEMMA StartRefines ==
  ASSUME IInv, NEW c \in Calls, NEW d \in Devices, Start(c, d)
  PROVE  Contract!Ask(c)
<1>1. \A k \in Attempts : ~Unclosed(c, k)
  BY DEF IInv, Start, Local, NothingOpened, Untouched, AtDone, Unclosed
<1>2. AbsHeld' = AbsHeld
  BY <1>1 DEF IInv, TypeOK, Start, AbsHeld, Unclosed
<1>3. AbsPhase[c] \in {"idle", "done"} /\ AbsPhase' = [AbsPhase EXCEPT ![c] = "busy"]
  BY DEF IInv, TypeOK, Start, AbsPhase
<1>4. AbsOpens' = [AbsOpens EXCEPT ![c] = 0]
  BY DEF IInv, TypeOK, Start, AbsOpens
<1>5. AbsAnswer' = [AbsAnswer EXCEPT ![c] = "pending"]
  BY DEF IInv, TypeOK, Start, AbsAnswer
<1> QED BY <1>2, <1>3, <1>4, <1>5 DEF Contract!Ask

\* Both connects acquire: nothing was held, and fewer than two were opened.
LEMMA OpenRefines ==
  ASSUME IInv, NEW c \in Calls, Connect(c) \/ Reconnect(c)
  PROVE  Contract!Acquire(c)
<1>1. AbsPhase[c] = "busy" /\ AbsPhase' = AbsPhase
  BY DEF IInv, TypeOK, Connect, Reconnect, Open, AbsPhase
<1>2. ~AbsHeld[c] /\ AbsHeld' = [AbsHeld EXCEPT ![c] = TRUE]
  <2>1. CASE Connect(c)
    <3>1. /\ \A k \in Attempts : ~Unclosed(c, k)
          /\ Unclosed(c, 1)'
          /\ \A q \in Calls, k \in Attempts : q # c => (Unclosed(q, k)' <=> Unclosed(q, k))
      BY <2>1 DEF IInv, TypeOK, Connect, Open, LinkFor, Local, NothingOpened,
                  Untouched, Unclosed
    <3> QED BY <3>1 DEF AbsHeld
  <2>2. CASE Reconnect(c)
    <3>1. /\ \A k \in Attempts : ~Unclosed(c, k)
          /\ Unclosed(c, 2)'
          /\ \A q \in Calls, k \in Attempts : q # c => (Unclosed(q, k)' <=> Unclosed(q, k))
      BY <2>2 DEF IInv, TypeOK, Reconnect, Open, LinkFor, Local, FirstClosed,
                  Untouched, ClosedOnce, Unclosed
    <3> QED BY <3>1 DEF AbsHeld
  <2> QED BY <2>1, <2>2
<1>3. AbsOpens[c] < 2 /\ AbsOpens' = [AbsOpens EXCEPT ![c] = @ + 1]
  <2>1. \A q \in Calls : q # c => AbsOpens'[q] = AbsOpens[q]
    BY DEF IInv, TypeOK, Connect, Reconnect, Open, AbsOpens
  <2>2. /\ AbsOpens = [q \in Calls |-> AbsOpens[q]]
        /\ AbsOpens' = [q \in Calls |-> AbsOpens'[q]]
    BY DEF AbsOpens
  <2>3. CASE Connect(c)
    <3>1. AbsOpens[c] = 0 /\ AbsOpens'[c] = 1
      BY <2>3 DEF IInv, TypeOK, Connect, Open, LinkFor, Local, NothingOpened,
                  Untouched, AbsOpens
    <3> QED BY <2>1, <2>2, <3>1
  <2>4. CASE Reconnect(c)
    <3>1. AbsOpens[c] = 1 /\ AbsOpens'[c] = 2
      BY <2>4 DEF IInv, TypeOK, Reconnect, Open, LinkFor, Local, FirstClosed,
                  ClosedOnce, Untouched, AbsOpens
    <3> QED BY <2>1, <2>2, <3>1
  <2> QED BY <2>3, <2>4
<1>4. AbsAnswer' = AbsAnswer
  BY DEF IInv, TypeOK, Connect, Reconnect, AbsAnswer
<1> QED BY <1>1, <1>2, <1>3, <1>4 DEF Contract!Acquire

\* Closing the UTF-8 connection releases it, whether close() raises or not.
LEMMA RecloseRefines ==
  ASSUME IInv, NEW c \in Calls, Reclose(c) \/ RecloseFails(c)
  PROVE  Contract!Release(c)
<1>1. AbsPhase[c] = "busy" /\ AbsPhase' = AbsPhase
  BY DEF IInv, TypeOK, Reclose, RecloseFails, Unreachable, AbsPhase
<1>2. AbsHeld[c] /\ AbsHeld' = [AbsHeld EXCEPT ![c] = FALSE]
  <2>1. /\ Unclosed(c, 1)
        /\ \A k \in Attempts : ~Unclosed(c, k)'
        /\ \A q \in Calls, k \in Attempts : q # c => (Unclosed(q, k)' <=> Unclosed(q, k))
    BY DEF IInv, TypeOK, Reclose, RecloseFails, Unreachable, CallsClose, Local,
           FirstOpen, OpenNow, Untouched, Unclosed
  <2> QED BY <2>1 DEF AbsHeld
<1>3. AbsOpens' = AbsOpens
  BY DEF Reclose, RecloseFails, AbsOpens
<1>4. AbsAnswer' = AbsAnswer
  BY DEF IInv, TypeOK, Reclose, RecloseFails, Unreachable, AbsAnswer
<1> QED BY <1>1, <1>2, <1>3, <1>4 DEF Contract!Release

\* The three ways out of _query end the call with nothing held.
LEMMA EndRefines ==
  ASSUME IInv, NEW c \in Calls, ConnectFails(c) \/ Return(c) \/ ReturnFails(c)
  PROVE  Contract!Answer(c)
<1>1. AbsPhase[c] = "busy" /\ AbsPhase' = [AbsPhase EXCEPT ![c] = "done"]
  BY DEF IInv, TypeOK, ConnectFails, Return, ReturnFails, AbsPhase
<1>2. AbsHeld' = [AbsHeld EXCEPT ![c] = FALSE]
  <2>1. IInv' /\ pc'[c] = "done"
    BY ConnectFailsStep, ReturnStep, ReturnFailsStep
       DEF ConnectFails, Return, ReturnFails, IInv, TypeOK
  <2>2. \A k \in Attempts : ~Unclosed(c, k)'
    BY <2>1 DEF IInv, Local, AtDone, Unclosed
  <2>3. ASSUME NEW q \in Calls, q # c, NEW k \in Attempts
        PROVE  Unclosed(q, k)' <=> Unclosed(q, k)
    BY <2>3 DEF IInv, TypeOK, ConnectFails, Return, ReturnFails, CallsClose, Unclosed
  <2> QED BY <2>2, <2>3 DEF AbsHeld
<1>3. AbsOpens' = AbsOpens
  BY DEF ConnectFails, Return, ReturnFails, AbsOpens
<1>4. \E a \in {"rows"} \cup Labels : AbsAnswer' = [AbsAnswer EXCEPT ![c] = a]
  <2>1. outcome'[c] \in {"rows"} \cup Labels /\ pc'[c] = "done"
    BY DEF IInv, TypeOK, ConnectFails, FirstLabel, FailuresOf, Return, ReturnFails,
           Local, AtFinally
  <2>2. AbsAnswer' = [AbsAnswer EXCEPT ![c] = outcome'[c]]
    BY <2>1 DEF IInv, TypeOK, ConnectFails, Return, ReturnFails, AbsAnswer
  <2> QED BY <2>1, <2>2
<1> QED BY <1>1, <1>2, <1>3, <1>4 DEF Contract!Answer

\* Loading a certificate, reading, and the failures that leave the connection
\* to finally, are not visible in the contract.
LEMMA InnerStepsRefine ==
  ASSUME IInv, NEW c \in Calls,
         \/ Prepare(c) \/ ReadRow(c) \/ EndOfReply(c) \/ DecodeError(c)
         \/ ReadFails(c) \/ ReconnectFails(c)
  PROVE  UNCHANGED AbsState
<1>1. AbsPhase' = AbsPhase /\ AbsAnswer' = AbsAnswer
  <2>1. /\ pc[c] \notin {"idle", "done"} /\ pc'[c] \notin {"idle", "done"}
        /\ \A q \in Calls : q # c => pc'[q] = pc[q] /\ outcome'[q] = outcome[q]
    BY DEF IInv, TypeOK, Prepare, ReadRow, EndOfReply, DecodeError, ReadFails,
           ReconnectFails, Unreachable
  <2> QED BY <2>1 DEF AbsPhase, AbsAnswer
<1>2. UNCHANGED <<link, closes>>
  BY DEF Prepare, ReadRow, EndOfReply, DecodeError, ReadFails, ReconnectFails,
         Unreachable
<1>3. AbsHeld' = AbsHeld /\ AbsOpens' = AbsOpens
  BY <1>2 DEF AbsHeld, AbsOpens, Unclosed
<1> QED BY <1>1, <1>3 DEF AbsState

LEMMA StepRefines ==
  IInv /\ [Next]_vars => [Contract!ContractNext]_(Contract!contractVars)
<1> SUFFICES ASSUME IInv, [Next]_vars
             PROVE  Contract!ContractNext \/ UNCHANGED AbsState
  BY DEF Contract!contractVars, AbsState
<1>1. ASSUME NEW c \in Calls, Continue(c)
      PROVE  Contract!ContractNext \/ UNCHANGED AbsState
  BY <1>1, OpenRefines, RecloseRefines, EndRefines, InnerStepsRefine
     DEF Continue, Contract!ContractNext
<1>2. ASSUME NEW c \in Calls, NEW d \in Devices, Start(c, d)
      PROVE  Contract!ContractNext
  BY <1>2, StartRefines DEF Contract!ContractNext
<1>3. ASSUME NEW d \in TlsDevices, ReplaceCertificate(d)
      PROVE  UNCHANGED AbsState
  BY <1>3 DEF ReplaceCertificate, AbsState, AbsPhase, AbsHeld, AbsOpens, AbsAnswer,
              Unclosed
<1>4. CASE UNCHANGED vars
  BY <1>4 DEF vars, AbsState, AbsPhase, AbsHeld, AbsOpens, AbsAnswer, Unclosed
<1> QED BY <1>1, <1>2, <1>3, <1>4 DEF Next

\* LiveQuery implements QueryContract, for every number of threads.
THEOREM Refinement == Spec => KeepsContract
<1> QED BY InitRefines, StepRefines, Invariance, PTL
        DEF Spec, KeepsContract, Contract!ContractSafety

=============================================================================
