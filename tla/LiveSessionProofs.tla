-------------------------- MODULE LiveSessionProofs --------------------------
(***************************************************************************)
(* The composition implements LiveQuery, for any numbers of threads,       *)
(* devices and references, and uses the resolver as Credentials allows, so  *)
(* that the invariants proved of each hold of a session; with them, what a  *)
(* session itself promises is shown:                                       *)
(* it logs in with its own device's account, whole, and with the one the    *)
(* device accepts unless the cache stands in the way.                       *)
(***************************************************************************)
EXTENDS LiveSession, TLAPS

QP == INSTANCE LiveQueryProofs
CP == INSTANCE CredentialsProofs WITH Threads <- Calls, pc <- cpc

-----------------------------------------------------------------------------
(* What a session does to the query is a step of LiveQuery, or none.        *)

\* Each step of a thread inside a query is a step of that query, or leaves it
\* alone.
LEMMA ContinueQuery ==
  ASSUME NEW c \in Calls, Continue(c)
  PROVE  Q!Continue(c) \/ UNCHANGED queryVars
<1>1. CASE Hit(c) \/ Miss(c) \/ View(c) \/ Resolved(c)
  BY <1>1 DEF Hit, Miss, View, Resolved
<1>2. CASE ResolveFails(c)
  BY <1>2 DEF ResolveFails, CredentialError, Q!Continue
<1>3. CASE Prepare(c) \/ LogIn(c)
  BY <1>3 DEF Prepare, LogIn, Q!Continue
<1>4. CASE LogInFails(c)
  BY <1>4 DEF LogInFails, Q!Continue
<1>5. CASE Converse(c)
  BY <1>5 DEF Converse
<1> QED
  BY <1>1, <1>2, <1>3, <1>4, <1>5 DEF Continue

LEMMA NextQuery == ASSUME LiveSessionAssumption, [Next]_vars
                   PROVE  [Q!Next]_(Q!vars)
<1>1. ASSUME NEW c \in Calls, Continue(c)  PROVE [Q!Next]_(Q!vars)
  BY <1>1, ContinueQuery DEF Q!Next, Q!vars, queryVars
<1>2. ASSUME NEW c \in Calls, NEW d \in Asked[c], Start(c, d)
      PROVE  [Q!Next]_(Q!vars)
  BY <1>2 DEF Start, Q!Next, LiveSessionAssumption
<1>3. ASSUME NEW r \in Refs, Save(r)  PROVE [Q!Next]_(Q!vars)
  BY <1>3 DEF Save, Q!vars, queryVars
<1>4. ASSUME NEW d \in Devices, Rotate(d)  PROVE [Q!Next]_(Q!vars)
  BY <1>4 DEF Rotate, Q!vars, queryVars
<1>5. ASSUME NEW d \in TlsDevices, ReplaceCertificate(d)  PROVE [Q!Next]_(Q!vars)
  BY <1>5 DEF ReplaceCertificate, Q!Next
<1>6. CASE UNCHANGED vars
  BY <1>6 DEF vars, Q!vars, queryVars
<1> QED
  BY <1>1, <1>2, <1>3, <1>4, <1>5, <1>6 DEF Next

\* Resolving credentials, with whatever failures, cached answers and rotations,
\* does not make a query do anything _query alone would not do: all that
\* LiveQueryProofs proves holds of a session as well.
THEOREM SessionKeepsQuery == ASSUME LiveSessionAssumption PROVE Spec => KeepsQuery
<1>1. Init => Q!Init
  BY DEF Init
<1>2. [Next]_vars => [Q!Next]_(Q!vars)
  BY NextQuery
<1> QED
  BY <1>1, <1>2, PTL DEF Spec, KeepsQuery, Q!Spec

-----------------------------------------------------------------------------
(* What it does to the cache and the vault is a step of Credentials.        *)

\* The reference of a device's account is the one _resolve_creds asks for.
LEMMA PrefixIsKeeper ==
  ASSUME LiveSessionAssumption, NEW d \in Devices
  PROVE  Prefix(d) = Keeper(d) /\ Keeper(d) \in Refs
<1>1. CredentialRef[d] \in Seq(Refs) /\ CredentialRef[d] # <<>>
  BY DEF LiveSessionAssumption
<1>2. Len(CredentialRef[d]) \in Nat /\ Len(CredentialRef[d]) >= 1
  BY <1>1
<1> QED
  BY <1>1, <1>2 DEF Prefix, Keeper

\* A call that is under way asks a device of the inventory.
Asking == Q!TypeOK /\ \A c \in Calls : pc[c] # "idle" => dev[c] \in Devices

LEMMA ContinueCredentials ==
  ASSUME LiveSessionAssumption, Asking, NEW c \in Calls, Continue(c)
  PROVE  \/ C!Continue(c)
         \/ \E r \in Refs : C!Hit(c, r) \/ C!Miss(c, r)
         \/ UNCHANGED credentialVars
<1>1. CASE Hit(c) \/ Miss(c)
  <2>1. Connecting(c)
    BY <1>1 DEF Hit, Miss
  <2>2. dev[c] \in Devices
    BY <2>1 DEF Connecting, Asking
  <2> QED
    BY <1>1, <2>2, PrefixIsKeeper DEF Hit, Miss
<1>2. CASE View(c) \/ Resolved(c) \/ ResolveFails(c)
  BY <1>2 DEF View, Resolved, ResolveFails, C!Continue
<1>3. CASE Prepare(c) \/ LogIn(c) \/ LogInFails(c) \/ Converse(c)
  BY <1>3 DEF Prepare, LogIn, LogInFails, Converse
<1> QED
  BY <1>1, <1>2, <1>3 DEF Continue

LEMMA NextCredentials == ASSUME LiveSessionAssumption, Asking, [Next]_vars
                         PROVE  [C!Next]_(C!vars)
<1>1. ASSUME NEW c \in Calls, Continue(c)  PROVE [C!Next]_(C!vars)
  BY <1>1, ContinueCredentials DEF C!Next, C!vars, credentialVars
<1>2. ASSUME NEW c \in Calls, NEW d \in Asked[c], Start(c, d)
      PROVE  [C!Next]_(C!vars)
  BY <1>2 DEF Start, C!vars, credentialVars
<1>3. ASSUME NEW r \in Refs, Save(r)  PROVE [C!Next]_(C!vars)
  BY <1>3 DEF Save, C!Next
<1>4. ASSUME NEW d \in Devices, Rotate(d)  PROVE [C!Next]_(C!vars)
  BY <1>4 DEF Rotate, C!vars, credentialVars
<1>5. ASSUME NEW d \in TlsDevices, ReplaceCertificate(d)  PROVE [C!Next]_(C!vars)
  BY <1>5 DEF ReplaceCertificate, C!vars, credentialVars
<1>6. CASE UNCHANGED vars
  BY <1>6 DEF vars, C!vars, credentialVars
<1> QED
  BY <1>1, <1>2, <1>3, <1>4, <1>5, <1>6 DEF Next

-----------------------------------------------------------------------------
(* The instances Q and QP of LiveQuery are the same, and so are C and CP:   *)
(* what is proved of one holds of the other.                                *)

LEMMA SameQuery == QP!Spec <=> Q!Spec
<1>1. QP!Init <=> Q!Init
  BY DEF QP!Init, Q!Init, QP!NoDevice, Q!NoDevice, QP!Attempts, Q!Attempts
<1>2. QP!Next <=> Q!Next
  BY DEF QP!Next, Q!Next, QP!Continue, Q!Continue, QP!Start, Q!Start,
         QP!ReplaceCertificate, Q!ReplaceCertificate, QP!ConnectFails, Q!ConnectFails,
         QP!Prepare, Q!Prepare, QP!Begin, Q!Begin, QP!pins, Q!pins,
         QP!Connect, Q!Connect, QP!ReadRow, Q!ReadRow, QP!EndOfReply, Q!EndOfReply,
         QP!DecodeError, Q!DecodeError, QP!ReadFails, Q!ReadFails,
         QP!Reclose, Q!Reclose, QP!RecloseFails, Q!RecloseFails,
         QP!Reconnect, Q!Reconnect, QP!ReconnectFails, Q!ReconnectFails,
         QP!Return, Q!Return, QP!ReturnFails, Q!ReturnFails,
         QP!Unreachable, Q!Unreachable, QP!CallsClose, Q!CallsClose,
         QP!Open, Q!Open, QP!CanOpen, Q!CanOpen, QP!LinkFor, Q!LinkFor,
         QP!FailuresOf, Q!FailuresOf, QP!FirstLabel, Q!FirstLabel,
         QP!Attempts, Q!Attempts
<1>3. [QP!Next]_(QP!vars) <=> [Q!Next]_(Q!vars)
  BY <1>2 DEF QP!vars, Q!vars
<1> QED
  BY <1>1, <1>3, PTL DEF QP!Spec, Q!Spec

LEMMA SameCredentials == CP!Spec <=> C!Spec
<1>1. CP!Init <=> C!Init
  BY DEF CP!Init, C!Init, CP!NoRef, C!NoRef, CP!Blank, C!Blank
<1>2. CP!Next <=> C!Next
  BY DEF CP!Next, C!Next, CP!Continue, C!Continue, CP!Hit, C!Hit, CP!Miss, C!Miss,
         CP!View, C!View, CP!ViewFails, C!ViewFails, CP!NotInVault, C!NotInVault,
         CP!Resolved, C!Resolved, CP!Save, C!Save, CP!Raise, C!Raise,
         CP!Leave, C!Leave, CP!Insert, C!Insert, CP!Recently, C!Recently,
         CP!PairOf, C!PairOf, CP!Usable, C!Usable, CP!Complete, C!Complete,
         CP!Keys, C!Keys, CP!NoRef, C!NoRef, CP!Blank, C!Blank
<1>3. [CP!Next]_(CP!vars) <=> [C!Next]_(C!vars)
  BY <1>2 DEF CP!vars, C!vars
<1> QED
  BY <1>1, <1>3, PTL DEF CP!Spec, C!Spec

LEMMA SessionQueryTypes == ASSUME LiveSessionAssumption PROVE Spec => []Q!TypeOK
<1>1. QP!LiveQueryAssumption
  BY DEF LiveSessionAssumption, QP!LiveQueryAssumption
<1>2. QP!Spec => []QP!TypeOK
  BY <1>1, QP!TypeCorrect
<1>3. QP!TypeOK <=> Q!TypeOK
  BY DEF QP!TypeOK, Q!TypeOK, QP!Steps, Q!Steps, QP!NoDevice, Q!NoDevice,
         QP!Attempts, Q!Attempts, QP!Links, Q!Links, QP!Row, Q!Row,
         QP!Outcomes, Q!Outcomes, QP!Labels, Q!Labels
<1> QED
  BY <1>2, <1>3, SameQuery, SessionKeepsQuery, PTL DEF KeepsQuery

LEMMA StaysAsking == ASSUME LiveSessionAssumption, Asking, [Next]_vars, Q!TypeOK'
                     PROVE  Asking'
<1>1. [Q!Next]_(Q!vars)
  BY NextQuery
<1>2. ASSUME NEW q \in Calls, pc'[q] # "idle"  PROVE dev'[q] \in Devices
  <2>1. ASSUME NEW c \in Calls, Q!Continue(c)  PROVE dev'[q] \in Devices
    <3>1. dev' = dev /\ pc[c] # "idle"
      BY <2>1 DEF Q!Continue, Q!Prepare, Q!ConnectFails, Q!Connect, Q!ReadRow,
              Q!EndOfReply,
              Q!DecodeError, Q!ReadFails, Q!Reclose, Q!RecloseFails, Q!Reconnect,
              Q!ReconnectFails, Q!Return, Q!ReturnFails
    <3>2. q # c => pc'[q] = pc[q]
      BY <2>1 DEF Q!Continue, Q!Prepare, Q!ConnectFails, Q!Connect, Q!ReadRow,
              Q!EndOfReply,
              Q!DecodeError, Q!ReadFails, Q!Reclose, Q!RecloseFails, Q!Reconnect,
              Q!ReconnectFails, Q!Return, Q!ReturnFails, Q!Unreachable, Asking, Q!TypeOK
    <3> QED
      BY <1>2, <3>1, <3>2 DEF Asking
  <2>2. ASSUME NEW c \in Calls, NEW d \in Devices, Q!Start(c, d)
        PROVE  dev'[q] \in Devices
    BY <1>2, <2>2 DEF Q!Start, Asking, Q!TypeOK
  <2>3. ASSUME NEW d \in TlsDevices, Q!ReplaceCertificate(d)  PROVE dev'[q] \in Devices
    BY <1>2, <2>3 DEF Q!ReplaceCertificate, Asking
  <2>4. CASE UNCHANGED Q!vars
    BY <1>2, <2>4 DEF Q!vars, Asking
  <2> QED
    BY <1>1, <2>1, <2>2, <2>3, <2>4 DEF Q!Next
<1> QED
  BY <1>2 DEF Asking

LEMMA AlwaysAsking == ASSUME LiveSessionAssumption PROVE Spec => []Asking
<1>1. Init /\ Q!TypeOK => Asking
  BY DEF Init, Q!Init, Asking
<1>2. Asking /\ [Next]_vars /\ Q!TypeOK' => Asking'
  BY StaysAsking
<1> QED
  BY <1>1, <1>2, SessionQueryTypes, PTL DEF Spec

\* So what CredentialsProofs proves of the resolver holds of a session as well.
LEMMA SessionKeepsCredentials ==
  ASSUME LiveSessionAssumption PROVE Spec => C!Spec
<1>1. Init => C!Init
  BY DEF Init
<1>2. Asking /\ [Next]_vars => [C!Next]_(C!vars)
  BY NextCredentials
<1> QED
  BY <1>1, <1>2, AlwaysAsking, PTL DEF Spec, C!Spec

-----------------------------------------------------------------------------
(* What a session promises itself.  AtCall(c) is what its two invariants    *)
(* need of a call between asking for its pair and logging in with it.       *)

\* What the components' own theorems give.
Known == Asking /\ C!TypeOK /\ C!CacheIsUsable

LEMMA AlwaysKnown == ASSUME LiveSessionAssumption PROVE Spec => []Known
<1>1. CP!CredentialsAssumption
  BY DEF LiveSessionAssumption, CP!CredentialsAssumption, CP!Pairs, C!Pairs,
         CP!Stamps, C!Stamps
<1>2. CP!Spec => []CP!TypeOK
  BY <1>1, CP!CredentialsTypeCorrect
<1>3. CP!Spec => []CP!CacheIsUsable
  BY <1>1, CP!NoHalfPair
<1>4. CP!TypeOK <=> C!TypeOK
  BY DEF CP!TypeOK, C!TypeOK, CP!Pairs, C!Pairs, CP!Stamps, C!Stamps, CP!NoRef, C!NoRef
<1>5. CP!CacheIsUsable <=> C!CacheIsUsable
  BY DEF CP!CacheIsUsable, C!CacheIsUsable, CP!Keys, C!Keys, CP!Complete, C!Complete
<1> QED
  BY <1>2, <1>3, <1>4, <1>5, SameCredentials, SessionKeepsCredentials, AlwaysAsking, PTL
     DEF Known

Whole(c) == /\ need[c] = "have" => Connecting(c) /\ C!Complete(answer[c])
            /\ need[c] = "run" => Connecting(c) /\ ref[c] = Keeper(dev[c])
            /\ cpc[c] # "idle" => need[c] = "run"

\* The pair on its way is the one the device accepts.
Current(c) == (fresh[c] /\ need[c] # "ask") =>
                /\ vault[Keeper(dev[c])] = accepts[dev[c]]
                /\ cpc[c] = "parse" => seen[c] = accepts[dev[c]]
                /\ need[c] = "have" => answer[c] = accepts[dev[c]]

AtCall(c) == Whole(c) /\ Current(c)

SessionTypes == /\ need \in [Calls -> {"ask", "run", "have"}]
                /\ accepts \in [Devices -> C!Pairs]
                /\ fresh \in [Calls -> BOOLEAN]

SInv == SessionTypes /\ \A c \in Calls : AtCall(c)

USE DEF SessionTypes, AtCall, Whole, Current

LEMMA InitSInv == ASSUME LiveSessionAssumption, Init PROVE SInv
<1>1. \A d \in Devices : vault[Keeper(d)] \in C!Pairs
  BY PrefixIsKeeper DEF Init, C!Init, C!Pairs, C!Stamps, LiveSessionAssumption
<1> QED
  BY <1>1 DEF SInv, Init, C!Init

LEMMA StartKeeps ==
  ASSUME Known, SInv, NEW c \in Calls, NEW d \in Devices, Start(c, d)
  PROVE  SInv'
<1>1. need[c] = "ask" /\ cpc[c] = "idle"
  BY DEF Start, Q!Start, SInv, Connecting
<1>2. ASSUME NEW q \in Calls PROVE AtCall(q)'
  BY <1>1 DEF Start, Q!Start, SInv, Connecting, Known, Asking, Q!TypeOK, credentialVars
<1> QED
  BY <1>2 DEF SInv, Start

LEMMA HitKeeps ==
  ASSUME LiveSessionAssumption, Known, SInv, NEW c \in Calls, Hit(c)
  PROVE  SInv'
<1>1. dev[c] \in Devices /\ Prefix(dev[c]) = Keeper(dev[c]) /\ Keeper(dev[c]) \in Refs
  BY PrefixIsKeeper DEF Hit, Connecting, Known, Asking
<1>2. C!Complete(answer'[c])
  BY <1>1 DEF Hit, C!Hit, Known, C!CacheIsUsable, C!TypeOK
<1>3. ASSUME NEW q \in Calls PROVE AtCall(q)'
  BY <1>2 DEF Hit, C!Hit, SInv, Connecting, Known, C!TypeOK, queryVars
<1> QED
  BY <1>3 DEF SInv, Hit

LEMMA MissKeeps ==
  ASSUME LiveSessionAssumption, Known, SInv, NEW c \in Calls, Miss(c)
  PROVE  SInv'
<1>1. dev[c] \in Devices /\ Prefix(dev[c]) = Keeper(dev[c])
  BY PrefixIsKeeper DEF Miss, Connecting, Known, Asking
<1>2. ASSUME NEW q \in Calls PROVE AtCall(q)'
  BY <1>1 DEF Miss, C!Miss, SInv, Connecting, Known, C!TypeOK, queryVars
<1> QED
  BY <1>2 DEF SInv, Miss

LEMMA ResolvingKeeps ==
  ASSUME Known, SInv, NEW c \in Calls, View(c) \/ Resolved(c)
  PROVE  SInv'
<1>1. CASE View(c)
  <2>1. ASSUME NEW q \in Calls PROVE AtCall(q)'
    BY <1>1 DEF View, C!View, SInv, Connecting, Known, C!TypeOK, queryVars
  <2> QED
    BY <1>1, <2>1 DEF SInv, View
<1>2. CASE Resolved(c)
  <2>1. C!Complete(answer'[c]) /\ answer'[c] = seen[c] /\ cpc[c] = "parse"
    BY <1>2 DEF Resolved, C!Resolved, C!PairOf, C!Usable, Known, C!TypeOK
  <2>2. ASSUME NEW q \in Calls PROVE AtCall(q)'
    BY <1>2, <2>1 DEF Resolved, C!Resolved, C!Leave, SInv, Connecting, Known, C!TypeOK,
                      queryVars
  <2> QED
    BY <1>2, <2>2 DEF SInv, Resolved
<1> QED
  BY <1>1, <1>2

\* A step that ends an attempt to connect.
LEMMA AttemptEnds ==
  ASSUME Known, SInv, NEW c \in Calls,
         need' = [need EXCEPT ![c] = "ask"], UNCHANGED <<vault, accepts, fresh>>,
         cpc'[c] = "idle",
         \A q \in Calls \ {c} : /\ cpc'[q] = cpc[q] /\ ref'[q] = ref[q]
                                /\ seen'[q] = seen[q] /\ answer'[q] = answer[q]
                                /\ pc'[q] = pc[q] /\ dev'[q] = dev[q]
  PROVE  SInv'
<1>1. ASSUME NEW q \in Calls PROVE AtCall(q)'
  <2>1. CASE q = c
    BY <2>1 DEF SInv
  <2>2. CASE q # c
    BY <2>2 DEF SInv, Connecting
  <2> QED
    BY <2>1, <2>2
<1> QED
  BY <1>1 DEF SInv

LEMMA OthersKeep ==
  ASSUME Known, NEW c \in Calls,
         \/ Q!Prepare(c) \/ Q!ConnectFails(c) \/ Q!ReconnectFails(c)
         \/ Q!Connect(c) \/ Q!Reconnect(c)
  PROVE  \A q \in Calls \ {c} : pc'[q] = pc[q] /\ dev'[q] = dev[q]
BY DEF Known, Asking, Q!TypeOK, Q!Prepare, Q!ConnectFails, Q!ReconnectFails, Q!Unreachable,
       Q!Connect, Q!Reconnect, Q!Open

LEMMA AttemptKeeps ==
  ASSUME Known, SInv, NEW c \in Calls, ResolveFails(c) \/ LogIn(c) \/ LogInFails(c)
  PROVE  SInv'
<1>1. CASE ResolveFails(c)
  <2>1. /\ cpc'[c] = "idle" /\ vault' = vault
        /\ \A q \in Calls \ {c} : /\ cpc'[q] = cpc[q] /\ ref'[q] = ref[q]
                                  /\ seen'[q] = seen[q] /\ answer'[q] = answer[q]
    BY <1>1 DEF ResolveFails, C!ViewFails, C!NotInVault, C!Raise, C!Leave, Known, C!TypeOK
  <2> QED
    BY <1>1, <2>1, OthersKeep, AttemptEnds DEF ResolveFails, CredentialError
<1>2. CASE LogIn(c) \/ LogInFails(c)
  <2>1. cpc[c] = "idle"
    BY <1>2 DEF LogIn, LogInFails, SInv, Known, C!TypeOK
  <2> QED
    BY <1>2, <2>1, OthersKeep, AttemptEnds DEF LogIn, LogInFails, credentialVars
<1> QED
  BY <1>1, <1>2

\* The pair that was there when the certificate was loaded is still there.
LEMMA PrepareKeeps ==
  ASSUME Known, SInv, NEW c \in Calls, Prepare(c)
  PROVE  SInv'
<1>1. dev' = dev /\ pc'[c] \in {"dial", "redial"}
  BY DEF Prepare, Q!Prepare, Known, Asking, Q!TypeOK
<1>2. ASSUME NEW q \in Calls PROVE AtCall(q)'
  <2>1. Connecting(q) => Connecting(q)'
    BY <1>1, OthersKeep DEF Prepare, Connecting
  <2> QED
    BY <1>1, <2>1 DEF Prepare, SInv, credentialVars
<1> QED
  BY <1>2 DEF SInv, Prepare

LEMMA ConverseKeeps ==
  ASSUME Known, SInv, NEW c \in Calls, Converse(c)
  PROVE  SInv'
<1>1. need[c] = "ask" /\ cpc[c] = "idle"
  BY DEF Converse, SInv
<1>2. \A q \in Calls \ {c} : pc'[q] = pc[q] /\ dev'[q] = dev[q]
  BY DEF Converse, Q!Continue, Q!Prepare, Q!ConnectFails, Q!Connect, Q!ReadRow, Q!EndOfReply,
         Q!DecodeError, Q!ReadFails, Q!Reclose, Q!RecloseFails, Q!Reconnect,
         Q!ReconnectFails, Q!Return, Q!ReturnFails, Q!Unreachable, Q!Open,
         Known, Asking, Q!TypeOK
<1>3. ASSUME NEW q \in Calls PROVE AtCall(q)'
  BY <1>1, <1>2 DEF Converse, SInv, Connecting, credentialVars
<1> QED
  BY <1>3 DEF SInv, Converse

\* A save of another account, or the account set on another device, leaves a
\* fresh call fresh.
LEMMA OperatorKeeps ==
  ASSUME LiveSessionAssumption, Known, SInv,
         \/ \E r \in Refs : Save(r)
         \/ \E d \in Devices : Rotate(d)
         \/ \E d \in TlsDevices : ReplaceCertificate(d)
  PROVE  SInv'
<1>1. ASSUME NEW r \in Refs, Save(r)  PROVE SInv'
  <2>1. \A p \in Refs \ {r} : vault'[p] = vault[p]
    BY <1>1 DEF Save, C!Save, Known, C!TypeOK
  <2>2. ASSUME NEW q \in Calls PROVE AtCall(q)'
    <3>1. Whole(q)'
      BY <1>1 DEF Save, C!Save, SInv, Connecting, queryVars
    <3>2. ASSUME fresh'[q], need[q] # "ask"
          PROVE  fresh[q] /\ Keeper(dev[q]) \in Refs \ {r}
      <4>1. dev[q] \in Devices
        BY <3>2 DEF SInv, Connecting, Known, Asking
      <4> QED
        BY <1>1, <3>2, <4>1, PrefixIsKeeper DEF Save, SInv
    <3>3. Current(q)'
      BY <1>1, <2>1, <3>2 DEF Save, C!Save, SInv, queryVars
    <3> QED
      BY <3>1, <3>3
  <2> QED
    BY <1>1, <2>2 DEF SInv, Save
<1>2. ASSUME NEW d \in Devices, Rotate(d)  PROVE SInv'
  <2>1. vault[Keeper(d)] \in C!Pairs
    BY PrefixIsKeeper DEF Known, C!TypeOK
  <2>2. ASSUME NEW q \in Calls PROVE AtCall(q)'
    BY <1>2 DEF Rotate, SInv, Connecting, queryVars, credentialVars
  <2> QED
    BY <1>2, <2>1, <2>2 DEF SInv, Rotate
<1>3. ASSUME NEW d \in TlsDevices, ReplaceCertificate(d)  PROVE SInv'
  BY <1>3 DEF ReplaceCertificate, Q!ReplaceCertificate, SInv, Connecting, credentialVars
<1> QED
  BY <1>1, <1>2, <1>3

LEMMA SessionStep == ASSUME LiveSessionAssumption, Known, SInv, [Next]_vars PROVE SInv'
<1>1. CASE \E c \in Calls : Continue(c)
  BY <1>1, HitKeeps, MissKeeps, ResolvingKeeps, AttemptKeeps, PrepareKeeps,
     ConverseKeeps DEF Continue
<1>2. ASSUME NEW c \in Calls, NEW d \in Asked[c], Start(c, d)  PROVE SInv'
  BY <1>2, StartKeeps DEF LiveSessionAssumption
<1>3. CASE UNCHANGED vars
  BY <1>3 DEF vars, queryVars, credentialVars, SInv, Connecting
<1> QED
  BY <1>1, <1>2, <1>3, OperatorKeeps DEF Next

THEOREM SessionInvariance == ASSUME LiveSessionAssumption PROVE Spec => []SInv
<1>1. Init => SInv
  BY InitSInv
<1>2. Known /\ SInv /\ [Next]_vars => SInv'
  BY SessionStep
<1> QED
  BY <1>1, <1>2, AlwaysKnown, PTL DEF Spec

\* Whatever is saved, evicted, refused or retried, the components' variables
\* and the session's own keep their types.
THEOREM SessionTypeCorrect == ASSUME LiveSessionAssumption PROVE Spec => []TypeOK
<1>1. Known /\ SInv => TypeOK
  BY DEF Known, Asking, SInv, TypeOK
<1> QED
  BY <1>1, AlwaysKnown, SessionInvariance, PTL

\* Every login, the retry's included, is with a whole pair of the account of
\* the device that is asked, whoever else resolves meanwhile.
THEOREM WholeLogins == ASSUME LiveSessionAssumption PROVE Spec => []LogsInWhole
<1>1. SInv => LogsInWhole
  BY DEF SInv, LogsInWhole
<1> QED
  BY <1>1, SessionInvariance, PTL

\* A pair that was viewed while the vault and the device agreed is the one the
\* device accepts: after a rotation only cached pairs are refused.
THEOREM FreshLogins == ASSUME LiveSessionAssumption PROVE Spec => []FreshLoginAccepted
<1>1. SInv => FreshLoginAccepted
  BY DEF SInv, FreshLoginAccepted
<1> QED
  BY <1>1, SessionInvariance, PTL

=============================================================================
