----------------------------- MODULE LiveSession -----------------------------
(***************************************************************************)
(* LiveQuery and Credentials together: a query of the live backend resolves *)
(* its credential reference before it connects, and once more before the   *)
(* latin-1 retry, and logs in with what it got.  Meanwhile the operator     *)
(* saves the vault and sets the account on a device, in two separate steps, *)
(* and the cache goes on answering what it holds.                           *)
(*                                                                         *)
(* Every step is a step of one of the two modules, or of both when a        *)
(* resolution that raises ends the query's attempt.                         *)
(***************************************************************************)
EXTENDS Naturals, Sequences

CONSTANTS Calls, Devices, TlsDevices, NRows,                \* of LiveQuery
          Refs, CacheSize, MaxSaves,                        \* of Credentials
          NotCached, Failed, NoAnswer,
          CredentialRef, \* CredentialRef[d]: d's credential_ref, cut at its colons
          Asked          \* bound: Asked[c] is the devices thread c is asked about

VARIABLES pc, dev, conn, link, closes, rows, outcome, certOk, pinned,
          vault, saves, cached, order, cpc, ref, seen, answer, since,
          need,     \* what the coming connect of c has: "ask", "run" or "have"
          accepts,  \* the pair device d accepts
          fresh     \* history: c's pair was viewed, not cached, and vault and
                    \* device have agreed since c asked for it

Q == INSTANCE LiveQuery
C == INSTANCE Credentials WITH Threads <- Calls, pc <- cpc

ASSUME LiveSessionAssumption ==
  /\ TlsDevices \subseteq Devices /\ NRows \in Nat
  /\ CacheSize \in Nat \ {0} /\ MaxSaves \in Nat
  /\ NotCached \notin C!Pairs /\ NoAnswer \notin C!Pairs
  /\ Failed \notin C!Pairs \cup {NoAnswer}
  /\ CredentialRef \in [Devices -> Seq(Refs)]
  /\ \A d \in Devices : CredentialRef[d] # <<>>
  /\ Asked \in [Calls -> SUBSET Devices]

queryVars == <<pc, dev, conn, link, closes, rows, outcome, certOk, pinned>>
credentialVars == <<vault, saves, cached, order, cpc, ref, seen, answer, since>>
vars == <<queryVars, credentialVars, need, accepts, fresh>>

\* The vault variables the operator keeps d's account under.
Keeper(d) == CredentialRef[d][Len(CredentialRef[d])]

\* A wrong variant (these show that a property can fail): what follows the
\* first colon.
PrefixFirst(d) == CredentialRef[d][IF Len(CredentialRef[d]) > 1 THEN 2 ELSE 1]

\* _resolve_creds: the reference as it is, or what follows its last colon.
Prefix(d) == IF Len(CredentialRef[d]) > 1 THEN CredentialRef[d][Len(CredentialRef[d])]
                                          ELSE CredentialRef[d][1]

-----------------------------------------------------------------------------
Init == /\ Q!Init
        /\ C!Init
        /\ need = [c \in Calls |-> "ask"]
        /\ accepts = [d \in Devices |-> vault[Keeper(d)]]
        /\ fresh = [c \in Calls |-> FALSE]

Connecting(c) == pc[c] \in {"connect", "dial", "reconnect", "redial"}

Start(c, d) == /\ Q!Start(c, d)
               /\ need' = [need EXCEPT ![c] = "ask"]
               /\ fresh' = [fresh EXCEPT ![c] = FALSE]
               /\ UNCHANGED <<credentialVars, accepts>>

\* resolve_credentials is answered by its cache, or runs.
Hit(c) == /\ Connecting(c) /\ need[c] = "ask"
          /\ C!Hit(c, Prefix(dev[c]))
          /\ need' = [need EXCEPT ![c] = "have"]
          /\ fresh' = [fresh EXCEPT ![c] = FALSE]
          /\ UNCHANGED <<queryVars, accepts>>

Miss(c) == /\ Connecting(c) /\ need[c] = "ask"
           /\ C!Miss(c, Prefix(dev[c]))
           /\ need' = [need EXCEPT ![c] = "run"]
           /\ fresh' = [fresh EXCEPT ![c] = vault[Keeper(dev[c])] = accepts[dev[c]]]
           /\ UNCHANGED <<queryVars, accepts>>

View(c) == /\ need[c] = "run"
           /\ C!View(c)
           /\ UNCHANGED <<queryVars, need, accepts, fresh>>

Resolved(c) == /\ need[c] = "run"
               /\ C!Resolved(c)
               /\ need' = [need EXCEPT ![c] = "have"]
               /\ UNCHANGED <<queryVars, accepts, fresh>>

\* A wrong variant: a CredentialError leaves _query from the retry, too, past
\* its finally clause.
CredentialErrorEscapes(c) ==
  /\ pc' = [pc EXCEPT ![c] = "done"]
  /\ outcome' = [outcome EXCEPT ![c] = Q!FirstLabel("credential")]
  /\ need' = [need EXCEPT ![c] = "ask"]
  /\ UNCHANGED <<dev, conn, link, closes, rows, certOk, pinned>>

\* _connect resolves outside its try, and the exception leaves _query; around
\* _connect_latin1 is the try of _query.
CredentialError(c) == /\ \/ Q!ConnectFails(c) /\ outcome'[c] = Q!FirstLabel("credential")
                         \/ Q!ReconnectFails(c)
                      /\ need' = [need EXCEPT ![c] = "ask"]

ResolveFails(c) == /\ need[c] = "run"
                   /\ C!ViewFails(c) \/ C!NotInVault(c)
                   /\ CredentialError(c)
                   /\ UNCHANGED <<accepts, fresh>>

\* The certificate of a TLS device is loaded once the pair is there.
Prepare(c) == /\ need[c] = "have"
              /\ Q!Prepare(c)
              /\ UNCHANGED <<credentialVars, need, accepts, fresh>>

\* The device accepts the pair: librouteros.connect returns the connection.
LogIn(c) == /\ need[c] = "have"
            /\ answer[c] = accepts[dev[c]]
            /\ Q!Connect(c) \/ Q!Reconnect(c)
            /\ need' = [need EXCEPT ![c] = "ask"]
            /\ UNCHANGED <<credentialVars, accepts, fresh>>

\* It does not, or cannot be reached; or the certificate cannot be loaded, which
\* only a TLS device has.  The cached pair stays where it is.
LogInFails(c) == /\ need[c] = "have"
                 /\ pc[c] \in {"dial", "redial"} \/ dev[c] \in TlsDevices
                 /\ \/ Q!ConnectFails(c) /\ outcome'[c] # Q!FirstLabel("credential")
                    \/ Q!ReconnectFails(c)
                 /\ need' = [need EXCEPT ![c] = "ask"]
                 /\ UNCHANGED <<credentialVars, accepts, fresh>>

\* What a query does while it is connected.
Converse(c) == /\ ~Connecting(c)
               /\ Q!Continue(c)
               /\ UNCHANGED <<credentialVars, need, accepts, fresh>>

Save(r) == /\ C!Save(r)
           /\ fresh' = [c \in Calls |-> fresh[c] /\ Keeper(dev[c]) # r]
           /\ UNCHANGED <<queryVars, need, accepts>>

\* The operator sets the account on the device to what the vault holds.
Rotate(d) == /\ C!Complete(vault[Keeper(d)])
             /\ accepts[d] # vault[Keeper(d)]
             /\ accepts' = [accepts EXCEPT ![d] = vault[Keeper(d)]]
             /\ fresh' = [c \in Calls |-> fresh[c] /\ dev[c] # d]
             /\ UNCHANGED <<queryVars, credentialVars, need>>

ReplaceCertificate(d) == /\ Q!ReplaceCertificate(d)
                         /\ UNCHANGED <<credentialVars, need, accepts, fresh>>

-----------------------------------------------------------------------------
Continue(c) == \/ Hit(c) \/ Miss(c) \/ View(c) \/ Resolved(c) \/ ResolveFails(c)
               \/ Prepare(c) \/ LogIn(c) \/ LogInFails(c) \/ Converse(c)

Next == \/ \E c \in Calls : Continue(c) \/ \E d \in Asked[c] : Start(c, d)
        \/ \E r \in Refs : Save(r)
        \/ \E d \in Devices : Rotate(d)
        \/ \E d \in TlsDevices : ReplaceCertificate(d)

Spec == Init /\ [][Next]_vars

-----------------------------------------------------------------------------
TypeOK == /\ Q!TypeOK /\ C!TypeOK
          /\ need \in [Calls -> {"ask", "run", "have"}]
          /\ accepts \in [Devices -> C!Pairs]
          /\ fresh \in [Calls -> BOOLEAN]

\* The pair a call is about to log in with is accepted if it was viewed (not
\* taken from the cache) and if the vault and the device have agreed since the
\* call asked: only the cache can make a settled rotation fail.
FreshLoginAccepted ==
  \A c \in Calls : (need[c] = "have" /\ fresh[c]) => answer[c] = accepts[dev[c]]

\* A call asks for and logs in with its own device's account, whole, and never
\* without one, in the retry as in the first attempt.
LogsInWhole ==
  \A c \in Calls :
    /\ need[c] = "have" => Connecting(c) /\ C!Complete(answer[c])
    /\ need[c] = "run" => Connecting(c) /\ ref[c] = Keeper(dev[c])
    /\ cpc[c] # "idle" => need[c] = "run"

\* Resolving does not change what a query does: with credentials that may be
\* missing, refused, stale or rotated, in either attempt, it does nothing that
\* _query alone would not do.
KeepsQuery == Q!Spec

==============================================================================
