----------------------------- MODULE Credentials -----------------------------
(***************************************************************************)
(* resolve_credentials (credentials.py): server threads ask for the        *)
(* username and password of a credential reference.  An lru_cache answers  *)
(* what it holds; a miss runs `ansible-vault view` as a subprocess, during *)
(* which the interpreter runs other threads, and picks both variables out  *)
(* of the one output.  Meanwhile the operator saves new versions of the    *)
(* vault.  A failed resolution raises CredentialError and caches nothing.  *)
(*                                                                         *)
(* The cache is CPython's: lookup and insertion are each atomic, the lock  *)
(* is not held while the function runs, and the result of a miss is not    *)
(* inserted when another thread inserted the key meanwhile.                *)
(***************************************************************************)
EXTENDS Naturals, Sequences

CONSTANTS Threads,
          Refs,       \* credential references of the inventory
          CacheSize,  \* maxsize of the lru_cache (16 in the code)
          MaxSaves,   \* bound: how often the operator saves the vault
          NotCached,  \* no entry in the cache
          Failed,     \* CredentialError
          NoAnswer    \* still running, or never ran

Stamps == 0..MaxSaves + 1       \* 0 stands for a variable that is not there
Pairs == [username : Stamps, password : Stamps]

ASSUME CredentialsAssumption == /\ CacheSize \in Nat \ {0}
                                /\ MaxSaves \in Nat
                                /\ NotCached \notin Pairs
                                /\ Failed \notin Pairs \cup {NoAnswer}
                                /\ NoAnswer \notin Pairs

VARIABLES vault,   \* vault[r]: the values of r's two variables, 0 if missing
          saves,   \* how often the vault was saved
          cached,  \* cached[r]: the pair lru_cache holds for r, or NotCached
          order,   \* the cached references, least recently used first
          pc,      \* where thread t is
          ref,     \* the reference it resolves
          seen,    \* what ansible-vault printed for it
          answer,  \* what its last resolution returned
          since    \* history: what the vault held for ref[t] since the call

vars == <<vault, saves, cached, order, pc, ref, seen, answer, since>>

Complete(pair) == pair.username # 0 /\ pair.password # 0
Blank == [username |-> 0, password |-> 0]
NoRef == "no reference"

Keys == {r \in Refs : cached[r] # NotCached}

-----------------------------------------------------------------------------
Init == /\ vault = [r \in Refs |-> [username |-> 1, password |-> 1]]
        /\ saves = 0
        /\ cached = [r \in Refs |-> NotCached]
        /\ order = <<>>
        /\ pc = [t \in Threads |-> "idle"]
        /\ ref = [t \in Threads |-> NoRef]
        /\ seen = [t \in Threads |-> Blank]
        /\ answer = [t \in Threads |-> NoAnswer]
        /\ since = [t \in Threads |-> {}]

\* The recency list with r moved to its end.
Recently(r) == LET at == CHOOSE i \in DOMAIN order : order[i] = r
               IN [i \in DOMAIN order |-> IF i < at THEN order[i]
                                          ELSE IF i < Len(order) THEN order[i + 1]
                                          ELSE r]

\* The cache holds r: the answer is the cached pair, whatever the vault says.
Hit(t, r) == /\ pc[t] = "idle"
             /\ r \in Keys
             /\ answer' = [answer EXCEPT ![t] = cached[r]]
             /\ order' = Recently(r)
             /\ since' = [since EXCEPT ![t] = {}]
             /\ UNCHANGED <<vault, saves, cached, pc, ref, seen>>

\* The cache does not: the function runs, and starts the subprocess.
Miss(t, r) == /\ pc[t] = "idle"
              /\ r \notin Keys
              /\ pc' = [pc EXCEPT ![t] = "view"]
              /\ ref' = [ref EXCEPT ![t] = r]
              /\ answer' = [answer EXCEPT ![t] = NoAnswer]
              /\ since' = [since EXCEPT ![t] = {vault[r]}]
              /\ UNCHANGED <<vault, saves, cached, order, seen>>

\* The subprocess reads the vault, at one moment of its run.
View(t) == /\ pc[t] = "view"
           /\ pc' = [pc EXCEPT ![t] = "parse"]
           /\ seen' = [seen EXCEPT ![t] = vault[ref[t]]]
           /\ UNCHANGED <<vault, saves, cached, order, ref, answer, since>>

\* The call's local variables go out of scope.
Leave(t) == /\ pc' = [pc EXCEPT ![t] = "idle"]
            /\ ref' = [ref EXCEPT ![t] = NoRef]
            /\ seen' = [seen EXCEPT ![t] = Blank]

Raise(t) == /\ Leave(t)
            /\ answer' = [answer EXCEPT ![t] = Failed]
            /\ since' = [since EXCEPT ![t] = {}]
            /\ UNCHANGED <<vault, saves, cached, order>>

\* No vault file or password file, no ansible-vault, a non-zero return code,
\* or no output within the 10 s timeout.
ViewFails(t) == /\ pc[t] = "view"
                /\ Raise(t)

\* A wrong variant: only the username is looked for.
UsableUser(pair) == pair.username # 0

\* if not username or not password
Usable(pair) == Complete(pair)

\* A wrong variant: the vault is viewed again until it holds the pair.
NotInVaultRetries(t) == /\ pc[t] = "parse"
                        /\ ~Usable(seen[t])
                        /\ pc' = [pc EXCEPT ![t] = "view"]
                        /\ UNCHANGED <<vault, saves, cached, order, ref, seen,
                                       answer, since>>

\* A wrong variant: nothing is returned where CredentialError is raised.
NotInVaultReturns(t) == /\ pc[t] = "parse"
                        /\ ~Usable(seen[t])
                        /\ Leave(t)
                        /\ answer' = [answer EXCEPT ![t] = NotCached]
                        /\ UNCHANGED <<vault, saves, cached, order, since>>

\* One of the two variables is missing or empty.
NotInVault(t) == /\ pc[t] = "parse"
                 /\ ~Usable(seen[t])
                 /\ Raise(t)

\* A wrong variant: a second view of the vault for the password.
PairViewedTwice(t) == [username |-> seen[t].username,
                       password |-> vault[ref[t]].password]

\* A wrong variant: what another thread has cached meanwhile is returned.
PairCached(t) == IF ref[t] \in Keys THEN cached[ref[t]] ELSE seen[t]

\* Credentials(username, password), both from the one output.
PairOf(t) == seen[t]

\* A wrong variant of the insertion: the result replaces what another thread
\* inserted.
InsertOver(r, pair) ==
  IF r \in Keys \/ Len(order) < CacheSize
  THEN /\ cached' = [cached EXCEPT ![r] = pair]
       /\ order' = IF r \in Keys THEN Recently(r) ELSE Append(order, r)
  ELSE /\ cached' = [cached EXCEPT ![Head(order)] = NotCached, ![r] = pair]
       /\ order' = Append(Tail(order), r)

\* lru_cache after the function returned: another thread may have inserted
\* the key, and a full cache loses its least recently used entry.
Insert(r, pair) ==
  \/ r \in Keys /\ UNCHANGED <<cached, order>>
  \/ /\ r \notin Keys /\ Len(order) < CacheSize
     /\ cached' = [cached EXCEPT ![r] = pair]
     /\ order' = Append(order, r)
  \/ /\ r \notin Keys /\ Len(order) = CacheSize
     /\ cached' = [cached EXCEPT ![Head(order)] = NotCached, ![r] = pair]
     /\ order' = Append(Tail(order), r)

Resolved(t) == /\ pc[t] = "parse"
               /\ Usable(seen[t])
               /\ answer' = [answer EXCEPT ![t] = PairOf(t)]
               /\ Insert(ref[t], PairOf(t))
               /\ Leave(t)
               /\ UNCHANGED <<vault, saves, since>>

\* The operator saves the vault with both variables of r new, with a new
\* password only, or with the password left out.
Save(r) ==
  LET stamp == saves + 2
      now == vault[r]
  IN /\ saves < MaxSaves
     /\ saves' = saves + 1
     /\ \E new \in {[username |-> stamp, password |-> stamp],
                    [username |-> now.username, password |-> stamp],
                    [username |-> now.username, password |-> 0]} :
          /\ vault' = [vault EXCEPT ![r] = new]
          /\ since' = [t \in Threads |-> IF pc[t] = "view" /\ ref[t] = r
                                         THEN since[t] \cup {new} ELSE since[t]]
     /\ UNCHANGED <<cached, order, pc, ref, seen, answer>>

-----------------------------------------------------------------------------
Continue(t) == View(t) \/ ViewFails(t) \/ NotInVault(t) \/ Resolved(t)

Next == \/ \E t \in Threads : Continue(t) \/ \E r \in Refs : Hit(t, r) \/ Miss(t, r)
        \/ \E r \in Refs : Save(r)

\* The subprocess ends within its timeout, and its thread is scheduled.
Fairness == \A t \in Threads : WF_vars(Continue(t))

Spec == Init /\ [][Next]_vars
FairSpec == Spec /\ Fairness

-----------------------------------------------------------------------------
TypeOK == /\ vault \in [Refs -> Pairs]
          /\ saves \in 0..MaxSaves
          /\ cached \in [Refs -> Pairs \cup {NotCached}]
          /\ order \in Seq(Refs)
          /\ pc \in [Threads -> {"idle", "view", "parse"}]
          /\ ref \in [Threads -> Refs \cup {NoRef}]
          /\ seen \in [Threads -> Pairs]
          /\ answer \in [Threads -> Pairs \cup {Failed, NoAnswer}]
          /\ since \in [Threads -> SUBSET Pairs]

\* The cache never holds more than its size, and its recency list names each
\* cached reference once, however concurrent misses of one reference end.
CacheBounded == /\ Len(order) <= CacheSize
                /\ {order[i] : i \in DOMAIN order} = Keys
                /\ \A i, j \in DOMAIN order : order[i] = order[j] => i = j

\* A resolution that ran ansible-vault returns a username and a password that
\* stood in the vault together, in one save, at some moment of that call: never
\* the old name with the new password, never half a pair.
MissIsOneSave == \A t \in Threads :
  (pc[t] = "idle" /\ since[t] # {})
     => answer[t] \in since[t] /\ Complete(answer[t])

\* No incomplete pair is ever cached: one bad save of the vault costs the calls
\* that read it, and no later one.
CacheIsUsable == \A r \in Keys : Complete(cached[r])

\* What the cache answers for a reference changes only by eviction: a slow miss
\* that read an older vault never overwrites what another thread cached.
StableUntilEvicted ==
  [][\A r \in Refs : (cached[r] # NotCached /\ cached'[r] # NotCached)
                       => cached'[r] = cached[r]]_vars

\* A thread that asks for credentials gets a pair or an error.
ResolveEnds == \A t \in Threads : pc[t] # "idle" ~> pc[t] = "idle"

\* What the docstring of resolve_credentials says: "Result is cached in-memory
\* for the process lifetime."  The lru_cache of bounded size evicts it.
CachedForLifetime == [][\A r \in Refs : cached[r] # NotCached
                                          => cached'[r] = cached[r]]_vars

=============================================================================
