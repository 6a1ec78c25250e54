-------------------------- MODULE CredentialsProofs --------------------------
(***************************************************************************)
(* Proofs about Credentials for any number of threads, references, saves   *)
(* and any size of the cache.  The invariant adds to the properties what   *)
(* holds while ansible-vault runs: the vault's present content is among    *)
(* what the call may return, and so is what the subprocess printed.        *)
(***************************************************************************)
EXTENDS Credentials, SequenceTheorems, TLAPS

\* A call under way knows its reference, and can only return what the vault
\* held since it began.
CallUnderWay == \A t \in Threads :
  /\ pc[t] \in {"view", "parse"} => ref[t] \in Refs
  /\ pc[t] = "view" => vault[ref[t]] \in since[t]
  /\ pc[t] = "parse" => seen[t] \in since[t]

CInv == TypeOK /\ CacheBounded /\ CacheIsUsable /\ MissIsOneSave /\ CallUnderWay

USE CredentialsAssumption DEF Pairs, Stamps, Complete, Blank, Keys

-----------------------------------------------------------------------------
(* The recency list.                                                       *)

\* A recency list of at most CacheSize references, none twice.
Recency(s) == /\ s \in Seq(Refs)
              /\ Len(s) <= CacheSize
              /\ \A i, j \in DOMAIN s : s[i] = s[j] => i = j

Listed(s) == {s[i] : i \in DOMAIN s}

\* Moving a listed reference to the end lists the same references.
LEMMA RecentlyKeeps ==
  ASSUME Recency(order), NEW r \in Listed(order)
  PROVE  /\ Recency(Recently(r))
         /\ Listed(Recently(r)) = Listed(order)
<1> DEFINE at == CHOOSE i \in DOMAIN order : order[i] = r
           n == Len(order)
           new == [i \in DOMAIN order |-> IF i < at THEN order[i]
                                          ELSE IF i < n THEN order[i + 1] ELSE r]
<1>1. /\ n \in Nat /\ DOMAIN order = 1..n
      /\ at \in 1..n /\ order[at] = r
      /\ \A i \in 1..n : order[i] \in Refs
  BY DEF Recency, Listed
<1>2. Recently(r) = new
  BY DEF Recently
<1> HIDE DEF at
<1>3. new \in Seq(Refs) /\ Len(new) = n /\ DOMAIN new = 1..n
  BY <1>1
<1>4. ASSUME NEW i \in 1..n, NEW j \in 1..n, new[i] = new[j]
      PROVE  i = j
  BY <1>1, <1>4 DEF Recency
<1>5. Listed(new) = Listed(order)
  <2>1. ASSUME NEW i \in 1..n PROVE \E j \in 1..n : new[i] = order[j]
    <3>1. CASE i < at
      BY <3>1, <1>1
    <3>2. CASE ~(i < at) /\ i < n
      BY <3>2, <1>1
    <3>3. CASE ~(i < at) /\ i = n
      BY <3>3, <1>1
    <3> QED BY <1>1, <3>1, <3>2, <3>3
  <2>2. ASSUME NEW j \in 1..n PROVE \E i \in 1..n : new[i] = order[j]
    <3>1. CASE j < at
      BY <3>1, <1>1
    <3>2. CASE j > at
      <4>1. j - 1 \in 1..n /\ ~(j - 1 < at) /\ j - 1 < n
        BY <3>2, <1>1
      <4>2. new[j - 1] = order[j]
        BY <4>1, <1>1
      <4> QED BY <4>1, <4>2
    <3>3. CASE j = at
      <4>1. n \in 1..n /\ ~(n < at) /\ ~(n < n)
        BY <1>1
      <4>2. new[n] = order[j]
        BY <3>3, <4>1, <1>1
      <4> QED BY <4>1, <4>2
    <3>4. j < at \/ j > at \/ j = at
      BY <1>1
    <3> HIDE DEF new
    <3> QED BY <3>1, <3>2, <3>3, <3>4
  <2>3. DOMAIN order = 1..n /\ DOMAIN new = 1..n
    BY <1>1, <1>3
  <2> HIDE DEF new, n
  <2>4. Listed(new) \subseteq Listed(order)
    BY <2>1, <2>3 DEF Listed
  <2>5. Listed(order) \subseteq Listed(new)
    BY <2>2, <2>3 DEF Listed
  <2> QED BY <2>4, <2>5
<1> QED BY <1>2, <1>3, <1>4, <1>5 DEF Recency

\* A reference that is not listed can be appended while there is room.
LEMMA AppendKeeps ==
  ASSUME NEW s, Recency(s), Len(s) < CacheSize, NEW r \in Refs, r \notin Listed(s)
  PROVE  /\ Recency(Append(s, r))
         /\ Listed(Append(s, r)) = Listed(s) \cup {r}
<1>1. /\ Append(s, r) \in Seq(Refs)
      /\ Len(Append(s, r)) = Len(s) + 1 /\ Len(s) \in Nat
      /\ DOMAIN s = 1..Len(s) /\ DOMAIN Append(s, r) = 1..Len(s) + 1
      /\ \A i \in 1..Len(s) : Append(s, r)[i] = s[i]
      /\ Append(s, r)[Len(s) + 1] = r
  BY AppendProperties, LenProperties DEF Recency
<1>2. \A i \in 1..Len(s) : s[i] # r
  BY <1>1 DEF Listed
<1>3. Listed(Append(s, r)) = Listed(s) \cup {r}
  BY <1>1 DEF Listed
<1> QED BY <1>1, <1>2, <1>3 DEF Recency

\* Dropping the least recently used reference unlists it and no other.
LEMMA TailKeeps ==
  ASSUME NEW s, Recency(s), s # <<>>
  PROVE  /\ Recency(Tail(s))
         /\ Len(Tail(s)) < CacheSize
         /\ Head(s) \in Refs
         /\ Listed(Tail(s)) = Listed(s) \ {Head(s)}
<1>1. /\ Tail(s) \in Seq(Refs) /\ Head(s) \in Refs
      /\ Len(Tail(s)) = Len(s) - 1 /\ Len(s) \in Nat /\ Len(s) > 0
      /\ DOMAIN s = 1..Len(s) /\ DOMAIN Tail(s) = 1..Len(s) - 1
      /\ \A i \in 1..Len(s) - 1 : Tail(s)[i] = s[i + 1]
      /\ Head(s) = s[1]
  BY HeadTailProperties, LenProperties, EmptySeq DEF Recency
<1>2. \A i \in 1..Len(s) : i # 1 => s[i] # s[1]
  BY <1>1 DEF Recency
<1>3. Listed(Tail(s)) = Listed(s) \ {Head(s)}
  <2>1. ASSUME NEW i \in 1..Len(s) - 1
        PROVE  Tail(s)[i] \in Listed(s) \ {Head(s)}
    BY <1>1, <1>2 DEF Listed
  <2>2. ASSUME NEW i \in 1..Len(s), s[i] # Head(s)
        PROVE  s[i] \in Listed(Tail(s))
    <3>1. i - 1 \in 1..Len(s) - 1 /\ Tail(s)[i - 1] = s[i]
      BY <1>1, <2>2
    <3> QED BY <3>1, <1>1 DEF Listed
  <2> QED BY <1>1, <2>1, <2>2 DEF Listed
<1> QED BY <1>1, <1>3 DEF Recency

-----------------------------------------------------------------------------
(* One lemma per action.                                                   *)

LEMMA InitCInv == Init => CInv
BY EmptySeq DEF Init, CInv, TypeOK, CacheBounded, CacheIsUsable, MissIsOneSave,
                CallUnderWay

\* CacheBounded in the terms of the lemmas on the recency list.
LEMMA Bounded == ASSUME order \in Seq(Refs)
                 PROVE  CacheBounded <=> Recency(order) /\ Listed(order) = Keys
BY DEF CacheBounded, Recency, Listed

LEMMA HitStep ==
  ASSUME CInv, NEW t \in Threads, NEW r \in Refs, Hit(t, r)
  PROVE  CInv'
<1>1. /\ pc[t] = "idle" /\ cached[r] # NotCached
      /\ answer' = [answer EXCEPT ![t] = cached[r]]
      /\ since' = [since EXCEPT ![t] = {}]
      /\ order' = Recently(r)
      /\ UNCHANGED <<vault, saves, cached, pc, ref, seen>>
  BY DEF Hit
<1>2. Recency(order) /\ Listed(order) = Keys /\ r \in Listed(order)
  BY Bounded, <1>1 DEF CInv, TypeOK
<1>3. Recency(order)' /\ Listed(order)' = Keys'
  <2>1. Recency(Recently(r)) /\ Listed(Recently(r)) = Listed(order)
    BY <1>2, RecentlyKeeps
  <2>2. Recency(order') /\ Listed(order') = Keys
    BY <2>1, <1>1, <1>2
  <2>3. Keys' = Keys
    BY <1>1
  <2> QED BY <2>2, <2>3 DEF Recency, Listed
<1>4. TypeOK'
  BY <1>1, <1>3 DEF CInv, TypeOK, Recency
<1>5. CacheBounded'
  BY <1>3 DEF CacheBounded, Recency, Listed
<1>6. (CacheIsUsable /\ MissIsOneSave /\ CallUnderWay)'
  BY <1>1 DEF CInv, TypeOK, CacheIsUsable, MissIsOneSave, CallUnderWay
<1> QED BY <1>4, <1>5, <1>6 DEF CInv

\* A step that leaves the cache alone keeps what is said of it.
LEMMA CacheAlone ==
  ASSUME CInv, UNCHANGED <<cached, order>>
  PROVE  (CacheBounded /\ CacheIsUsable)'
BY DEF CInv, CacheBounded, CacheIsUsable

LEMMA MissStep ==
  ASSUME CInv, NEW t \in Threads, NEW r \in Refs, Miss(t, r)
  PROVE  CInv'
<1>1. (CacheBounded /\ CacheIsUsable)'
  BY CacheAlone DEF Miss
<1>2. TypeOK'
  BY DEF CInv, TypeOK, Miss
<1>3. (MissIsOneSave /\ CallUnderWay)'
  BY DEF CInv, TypeOK, Miss, MissIsOneSave, CallUnderWay
<1> QED BY <1>1, <1>2, <1>3 DEF CInv

LEMMA ViewStep ==
  ASSUME CInv, NEW t \in Threads, View(t)
  PROVE  CInv'
<1>1. (CacheBounded /\ CacheIsUsable)'
  BY CacheAlone DEF View
<1>2. TypeOK'
  BY DEF CInv, TypeOK, View, CallUnderWay
<1>3. (MissIsOneSave /\ CallUnderWay)'
  BY DEF CInv, TypeOK, View, MissIsOneSave, CallUnderWay
<1> QED BY <1>1, <1>2, <1>3 DEF CInv

\* The vault has no say in it: both ways to raise end the call alike.
LEMMA RaiseStep ==
  ASSUME CInv, NEW t \in Threads, Raise(t)
  PROVE  CInv'
<1>1. (CacheBounded /\ CacheIsUsable)'
  BY CacheAlone DEF Raise
<1>2. TypeOK'
  BY DEF CInv, TypeOK, Raise, Leave
<1>3. (MissIsOneSave /\ CallUnderWay)'
  BY DEF CInv, TypeOK, Raise, Leave, MissIsOneSave, CallUnderWay
<1> QED BY <1>1, <1>2, <1>3 DEF CInv

\* lru_cache's insertion keeps the cache within its size, its list free of
\* repetitions, its pairs usable, and every reference it held and still holds.
LEMMA InsertKeeps ==
  ASSUME CInv, NEW r \in Refs, NEW pair \in Pairs, Usable(pair), Insert(r, pair)
  PROVE  /\ (CacheBounded /\ CacheIsUsable)'
         /\ order' \in Seq(Refs)
         /\ cached' \in [Refs -> Pairs \cup {NotCached}]
<1>1. /\ Recency(order) /\ Listed(order) = Keys
      /\ order \in Seq(Refs) /\ cached \in [Refs -> Pairs \cup {NotCached}]
      /\ \A q \in Keys : Complete(cached[q])
  BY Bounded DEF CInv, TypeOK, CacheIsUsable
<1>2. Complete(pair)
  BY DEF Usable
<1>3. CASE UNCHANGED <<cached, order>>
  BY <1>3, <1>1, CacheAlone
<1>4. CASE /\ r \notin Keys /\ Len(order) < CacheSize
           /\ cached' = [cached EXCEPT ![r] = pair]
           /\ order' = Append(order, r)
  <2>1. Recency(order') /\ Listed(order') = Keys \cup {r}
    BY <1>1, <1>4, AppendKeeps
  <2>2. Keys' = Keys \cup {r}
    BY <1>1, <1>4
  <2>3. CacheIsUsable'
    BY <1>1, <1>2, <1>4 DEF CacheIsUsable
  <2> QED BY <1>1, <1>4, <2>1, <2>2, <2>3 DEF CacheBounded, Recency, Listed
<1>5. CASE /\ r \notin Keys /\ Len(order) = CacheSize
           /\ cached' = [cached EXCEPT ![Head(order)] = NotCached, ![r] = pair]
           /\ order' = Append(Tail(order), r)
  <2>1. order # <<>>
    BY <1>5, EmptySeq
  <2>2. /\ Recency(Tail(order)) /\ Len(Tail(order)) < CacheSize
        /\ Head(order) \in Refs
        /\ Listed(Tail(order)) = Keys \ {Head(order)}
    BY <1>1, <2>1, TailKeeps
  <2>3. Recency(order') /\ Listed(order') = (Keys \ {Head(order)}) \cup {r}
    <3> DEFINE rest == Tail(order)
    <3>1. r \notin Listed(rest)
      BY <1>5, <2>2
    <3>2. Recency(Append(rest, r)) /\ Listed(Append(rest, r)) = Listed(rest) \cup {r}
      <4> HIDE DEF rest
      <4> SUFFICES Recency(rest) /\ Len(rest) < CacheSize
        BY <3>1, AppendKeeps
      <4> QED BY <2>2 DEF rest
    <3> QED BY <3>2, <2>2, <1>5
  <2>4. Keys' = (Keys \ {Head(order)}) \cup {r}
    BY <1>1, <1>5, <2>2
  <2>5. CacheIsUsable'
    BY <1>1, <1>2, <1>5, <2>2 DEF CacheIsUsable
  <2>6. cached' \in [Refs -> Pairs \cup {NotCached}]
    BY <1>1, <1>5
  <2> QED BY <2>3, <2>4, <2>5, <2>6 DEF CacheBounded, Recency, Listed
<1> QED BY <1>3, <1>4, <1>5 DEF Insert

LEMMA ResolvedStep ==
  ASSUME CInv, NEW t \in Threads, Resolved(t)
  PROVE  CInv'
<1>1. /\ pc[t] = "parse" /\ Usable(seen[t])
      /\ seen[t] \in Pairs /\ ref[t] \in Refs /\ seen[t] \in since[t]
      /\ Insert(ref[t], seen[t])
      /\ answer' = [answer EXCEPT ![t] = seen[t]]
      /\ Leave(t)
      /\ UNCHANGED <<vault, saves, since>>
  BY DEF CInv, TypeOK, CallUnderWay, Resolved, PairOf
<1>2. /\ (CacheBounded /\ CacheIsUsable)'
      /\ order' \in Seq(Refs)
      /\ cached' \in [Refs -> Pairs \cup {NotCached}]
  BY <1>1, InsertKeeps
<1>3. TypeOK'
  BY <1>1, <1>2 DEF CInv, TypeOK, Leave
<1>4. (MissIsOneSave /\ CallUnderWay)'
  BY <1>1 DEF CInv, TypeOK, Leave, MissIsOneSave, CallUnderWay, Usable
<1> QED BY <1>2, <1>3, <1>4 DEF CInv

LEMMA SaveStep ==
  ASSUME CInv, NEW r \in Refs, Save(r)
  PROVE  CInv'
<1>1. (CacheBounded /\ CacheIsUsable)'
  BY CacheAlone DEF Save
<1>2. PICK new \in Pairs :
        /\ vault' = [vault EXCEPT ![r] = new]
        /\ since' = [t \in Threads |-> IF pc[t] = "view" /\ ref[t] = r
                                       THEN since[t] \cup {new} ELSE since[t]]
  <2>1. saves + 2 \in Stamps /\ 0 \in Stamps /\ vault[r] \in Pairs
    BY DEF CInv, TypeOK, Save
  <2>2. \A new \in {[username |-> saves + 2, password |-> saves + 2],
                    [username |-> vault[r].username, password |-> saves + 2],
                    [username |-> vault[r].username, password |-> 0]} : new \in Pairs
    BY <2>1
  <2> QED BY <2>2, Zenon DEF Save
<1>3. saves' \in 0..MaxSaves /\ UNCHANGED <<cached, order, pc, ref, seen, answer>>
  BY DEF CInv, TypeOK, Save
<1>4. TypeOK'
  BY <1>2, <1>3 DEF CInv, TypeOK
<1>5. (MissIsOneSave /\ CallUnderWay)'
  BY <1>2, <1>3 DEF CInv, TypeOK, MissIsOneSave, CallUnderWay
<1> QED BY <1>1, <1>4, <1>5 DEF CInv

LEMMA CNextStep == CInv /\ [Next]_vars => CInv'
<1> SUFFICES ASSUME CInv, [Next]_vars PROVE CInv'
  OBVIOUS
<1>1. ASSUME NEW t \in Threads, Continue(t) PROVE CInv'
  BY <1>1, ViewStep, RaiseStep, ResolvedStep DEF Continue, ViewFails, NotInVault
<1>2. ASSUME NEW t \in Threads, NEW r \in Refs, Hit(t, r) \/ Miss(t, r) PROVE CInv'
  BY <1>2, HitStep, MissStep
<1>3. ASSUME NEW r \in Refs, Save(r) PROVE CInv'
  BY <1>3, SaveStep
<1>4. CASE UNCHANGED vars
  BY <1>4 DEF vars, CInv, TypeOK, CacheBounded, CacheIsUsable, MissIsOneSave,
              CallUnderWay
<1> QED BY <1>1, <1>2, <1>3, <1>4 DEF Next

THEOREM CInvariance == Spec => []CInv
<1> QED BY InitCInv, CNextStep, PTL DEF Spec

-----------------------------------------------------------------------------
(* What a reader wants to know, from the invariant.                        *)

\* Every variable keeps its type: a resolution returns a pair or an error.
THEOREM CredentialsTypeCorrect == Spec => []TypeOK
<1>1. CInv => TypeOK
  BY DEF CInv
<1> QED BY <1>1, CInvariance, PTL

\* The lru_cache stays within maxsize whatever misses of one reference overlap.
THEOREM CacheNeverOverfull == Spec => []CacheBounded
<1>1. CInv => CacheBounded
  BY DEF CInv
<1> QED BY <1>1, CInvariance, PTL

\* A resolution that ran ansible-vault returns one save of the vault.
THEOREM OneSave == Spec => []MissIsOneSave
<1>1. CInv => MissIsOneSave
  BY DEF CInv
<1> QED BY <1>1, CInvariance, PTL

\* No incomplete pair is ever cached.
THEOREM NoHalfPair == Spec => []CacheIsUsable
<1>1. CInv => CacheIsUsable
  BY DEF CInv
<1> QED BY <1>1, CInvariance, PTL

\* A slow miss never overwrites what the cache answers.
THEOREM NoOverwrite == Spec => StableUntilEvicted
<1> DEFINE Stable == \A r \in Refs : (cached[r] # NotCached /\ cached'[r] # NotCached)
                                       => cached'[r] = cached[r]
<1>1. CInv /\ [Next]_vars => [Stable]_vars
  <2> SUFFICES ASSUME CInv, Next PROVE Stable
    BY DEF vars
  <2>1. cached \in [Refs -> Pairs \cup {NotCached}]
    BY DEF CInv, TypeOK
  <2>2. ASSUME NEW r \in Refs, NEW pair \in Pairs, Insert(r, pair) PROVE Stable
    <3>1. CASE UNCHANGED cached
      BY <3>1
    <3>2. CASE r \notin Keys /\ cached' = [cached EXCEPT ![r] = pair]
      BY <3>2, <2>1
    <3>3. CASE r \notin Keys
               /\ cached' = [cached EXCEPT ![Head(order)] = NotCached, ![r] = pair]
      BY <3>3, <2>1
    <3> QED BY <2>2, <3>1, <3>2, <3>3 DEF Insert
  <2>3. ASSUME NEW t \in Threads, Resolved(t) PROVE Stable
    <3>1. ref[t] \in Refs /\ seen[t] \in Pairs /\ Insert(ref[t], seen[t])
      BY <2>3 DEF CInv, TypeOK, CallUnderWay, Resolved, PairOf
    <3> QED BY <3>1, <2>2
  <2>4. ASSUME UNCHANGED cached PROVE Stable
    BY <2>4
  <2> QED BY <2>3, <2>4 DEF Next, Continue, View, ViewFails, NotInVault, Raise,
                            Hit, Miss, Save
<1> QED BY <1>1, CInvariance, PTL DEF Spec, StableUntilEvicted

=============================================================================
