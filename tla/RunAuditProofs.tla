---------------------------- MODULE RunAuditProofs ----------------------------
(***************************************************************************)
(* Proofs about what a tool call of ToolServer is answered: a run_audit is  *)
(* refused exactly when it must be, and else has one row for each pair.     *)
(* They hold for any names asked for, any limit and any number of threads.  *)
(***************************************************************************)
EXTENDS ToolServer, SequenceTheorems, FiniteSetTheorems, TLAPS

-----------------------------------------------------------------------------
(* The names and the targets of a run_audit.                               *)

\* Any nonempty set of naturals has a least element.
LEMMA LeastNatural ==
  ASSUME NEW N \in SUBSET Nat, N # {}
  PROVE  \E m \in N : \A n \in N : m <= n
<1>1. PICK m \in N : \A n \in N : <<n, m>> \notin OpToRel(<, Nat)
  BY NatLessThanWellFounded, WFMin
<1>2. \A n \in N : ~(n < m)
  BY <1>1 DEF OpToRel
<1> QED
  BY <1>2

\* A finite set of naturals is numbered by rank: the k-th element has k elements
\* up to itself.
RankIn(F, i) == Cardinality({j \in F : j <= i})

LEMMA Ranks ==
  ASSUME NEW n \in Nat, NEW F \in SUBSET (1..n)
  PROVE  /\ Cardinality(F) \in Nat
         /\ \A k \in 1..Cardinality(F) : \E i \in F : RankIn(F, i) = k
         /\ \A i \in F : RankIn(F, i) \in 1..Cardinality(F)
         /\ \A i, j \in F : RankIn(F, i) = RankIn(F, j) => i = j
<1> DEFINE m == Cardinality(F)
           rank == [i \in F |-> RankIn(F, i)]
<1>1. IsFiniteSet(F) /\ m \in Nat
  <2>1. IsFiniteSet(1..n)
    BY FS_Interval
  <2>2. IsFiniteSet(F)
    BY <2>1, FS_Subset
  <2> QED
    BY <2>2, FS_CardinalityType
<1>2. ASSUME NEW i \in F
      PROVE  /\ IsFiniteSet({j \in F : j <= i}) /\ RankIn(F, i) \in Nat
             /\ RankIn(F, i) <= m /\ RankIn(F, i) # 0
  <2>1. {j \in F : j <= i} \in SUBSET F /\ i \in {j \in F : j <= i}
    OBVIOUS
  <2>2. IsFiniteSet({j \in F : j <= i}) /\ RankIn(F, i) <= m
    BY <1>1, <2>1, FS_Subset DEF RankIn
  <2>3. RankIn(F, i) \in Nat
    BY <2>2, FS_CardinalityType DEF RankIn
  <2>4. RankIn(F, i) # 0
    BY <2>1, <2>2, FS_EmptySet DEF RankIn
  <2> QED
    BY <2>2, <2>3, <2>4
<1>3. \A i \in F : RankIn(F, i) \in 1..m
  <2> TAKE i \in F
  <2>1. RankIn(F, i) \in Nat /\ RankIn(F, i) <= m /\ RankIn(F, i) # 0
    BY <1>2
  <2> QED
    BY <1>1, <2>1
<1>4. ASSUME NEW i \in F, NEW j \in F, RankIn(F, i) = RankIn(F, j), i < j  PROVE FALSE
  <2> DEFINE A == {k \in F : k <= i}
             B == {k \in F : k <= j}
  <2>1. i \in Int /\ j \in Int /\ \A k \in F : k \in Int
    OBVIOUS
  <2>2. A \in SUBSET B /\ j \in B /\ j \notin A
    <3>1. ~(j <= i) /\ j <= j /\ \A k \in F : k <= i => k <= j
      BY <1>4, <2>1
    <3> QED
      BY <3>1
  <2>3. IsFiniteSet(B) /\ Cardinality(A) = Cardinality(B)
    BY <1>2, <1>4 DEF RankIn
  <2> HIDE DEF A, B
  <2> QED
    BY <2>2, <2>3, FS_Subset
<1>5. \A i, j \in F : RankIn(F, i) = RankIn(F, j) => i = j
  <2>1. \A i, j \in F : i < j \/ j < i \/ i = j
    OBVIOUS
  <2> QED
    BY <1>4, <2>1
<1>6. rank \in Injection(F, 1..m)
  BY <1>3, <1>5 DEF Injection, IsInjective
<1>7. IsFiniteSet(1..m) /\ Cardinality(1..m) = m
  BY <1>1, FS_Interval
<1>8. rank \in Surjection(F, 1..m)
  BY <1>6, <1>7, FS_Injection
<1>9. \A k \in 1..m : \E i \in F : RankIn(F, i) = k
  BY <1>8 DEF Surjection
<1> QED
  BY <1>1, <1>3, <1>5, <1>9

\* list(dict.fromkeys(s)) has the elements of s, each once.
LEMMA DedupProperties ==
  ASSUME NEW S, NEW s \in Seq(S)
  PROVE  /\ Dedup(s) \in Seq(S)
         /\ Range(Dedup(s)) = Range(s)
         /\ \A i, j \in DOMAIN Dedup(s) : Dedup(s)[i] = Dedup(s)[j] => i = j
         /\ IsFiniteSet(Range(s))
         /\ Len(Dedup(s)) = Cardinality(Range(s))
         /\ Len(Dedup(s)) \in Nat
<1> DEFINE F == {i \in DOMAIN s : \A j \in 1..i - 1 : s[j] # s[i]}
           m == Cardinality(F)
           d == Dedup(s)
           at(k) == CHOOSE i \in F : RankIn(F, i) = k
<1>1. Len(s) \in Nat /\ DOMAIN s = 1..Len(s) /\ F \in SUBSET (1..Len(s))
      /\ \A i \in DOMAIN s : s[i] \in S
  BY LenProperties, ElementOfSeq
<1>2. d = [k \in 1..m |-> s[at(k)]]
  BY DEF Dedup, RankIn
<1>3. /\ m \in Nat
      /\ \A k \in 1..m : \E i \in F : RankIn(F, i) = k
      /\ \A i \in F : RankIn(F, i) \in 1..m
      /\ \A i, j \in F : RankIn(F, i) = RankIn(F, j) => i = j
  BY <1>1, Ranks
<1>4. \A k \in 1..m : at(k) \in F /\ RankIn(F, at(k)) = k
  BY <1>3
<1>5. \A i \in F : at(RankIn(F, i)) = i
  BY <1>3, <1>4
<1>6. \A i, j \in F : s[i] = s[j] => i = j
  <2>1. ASSUME NEW i \in F, NEW j \in F, i < j  PROVE s[i] # s[j]
    <3>1. i \in 1..j - 1
      BY <1>1, <2>1
    <3> QED
      BY <3>1
  <2>2. \A i, j \in F : i < j \/ j < i \/ i = j
    BY <1>1
  <2> QED
    BY <2>1, <2>2
<1>7. \A i \in DOMAIN s : \E j \in F : s[j] = s[i]
  <2> TAKE i \in DOMAIN s
  <2> DEFINE N == {j \in DOMAIN s : s[j] = s[i]}
  <2>1. N \in SUBSET Nat /\ i \in N
    BY <1>1
  <2>2. PICK j \in N : \A k \in N : j <= k
    BY <2>1, LeastNatural
  <2>3. \A k \in 1..j - 1 : s[k] # s[j]
    <3>1. \A k \in 1..j - 1 : k \in DOMAIN s /\ ~(j <= k)
      BY <1>1, <2>1, <2>2
    <3> QED
      BY <2>2, <3>1
  <2> QED
    BY <2>2, <2>3
<1> HIDE DEF F, m, at
<1>8. d \in [1..m -> S] /\ d \in Seq(S) /\ Len(d) = m /\ DOMAIN d = 1..m
  <2>1. \A k \in 1..m : s[at(k)] \in S
    BY <1>1, <1>4 DEF F
  <2>2. d \in [1..m -> S]
    BY <1>2, <2>1
  <2>3. d \in Seq(S)
    BY <1>3, <2>2, SeqDef
  <2>4. DOMAIN d = 1..m /\ DOMAIN d = 1..Len(d) /\ Len(d) \in Nat
    BY <2>2, <2>3, LenProperties
  <2>5. Len(d) = m
    BY <1>3, <2>4
  <2> QED
    BY <2>2, <2>3, <2>4, <2>5
<1>9. Range(d) = Range(s)
  <2>1. ASSUME NEW k \in 1..m  PROVE d[k] \in Range(s)
    BY <1>2, <1>4 DEF F, Range
  <2>2. ASSUME NEW i \in DOMAIN s  PROVE s[i] \in Range(d)
    <3>1. PICK j \in F : s[j] = s[i]
      BY <1>7
    <3>2. d[RankIn(F, j)] = s[j] /\ RankIn(F, j) \in DOMAIN d
      BY <1>2, <1>3, <1>5, <1>8
    <3> QED
      BY <3>1, <3>2 DEF Range
  <2> QED
    BY <1>8, <2>1, <2>2 DEF Range
<1>10. ASSUME NEW i \in 1..m, NEW j \in 1..m, d[i] = d[j]  PROVE i = j
  <2>1. s[at(i)] = s[at(j)]
    BY <1>2, <1>10
  <2>2. at(i) = at(j)
    BY <1>4, <1>6, <2>1
  <2> QED
    BY <1>4, <2>2
<1>11. d \in Bijection(1..m, Range(s))
  <2>1. d \in [1..m -> Range(s)]
    BY <1>8, <1>9 DEF Range
  <2>2. \A x \in Range(s) : \E k \in 1..m : d[k] = x
    BY <1>8, <1>9 DEF Range
  <2> QED
    BY <1>10, <2>1, <2>2 DEF Bijection, Injection, Surjection, IsInjective
<1>12. ExistsBijection(1..m, Range(s))
  BY <1>11 DEF ExistsBijection
<1>13. IsFiniteSet(Range(s)) /\ Cardinality(Range(s)) = m
  BY <1>3, <1>12, FS_NatBijection, FS_CountingElements
<1> QED
  BY <1>3, <1>8, <1>9, <1>10, <1>13

\* Row numbers 1..n * m and the pairs of n and m positions correspond.
LEMMA RowIndex ==
  ASSUME NEW n \in Nat, NEW m \in Nat, NEW i \in 1..n * m
  PROVE  /\ ((i - 1) \div n) + 1 \in 1..m
         /\ ((i - 1) % n) + 1 \in 1..n
<1>1. n * m \in Nat
  OBVIOUS
<1>2. n > 0
  BY <1>1
<1> DEFINE q == (i - 1) \div n
           r == (i - 1) % n
<1>3. i - 1 = n * q + r /\ q \in Int /\ r \in 0..n - 1
  BY <1>1, <1>2
<1>4. q >= 0 /\ q < m
  <2>1. n * q < n * m
    BY <1>1, <1>3
  <2>2. n * q > -n
    BY <1>1, <1>2, <1>3
  <2> HIDE DEF q
  <2> QED
    BY <1>2, <1>3, <2>1, <2>2
<1> QED
  BY <1>2, <1>3, <1>4

LEMMA IndexOf ==
  ASSUME NEW n \in Nat, NEW m \in Nat, NEW j \in 1..n, NEW k \in 1..m
  PROVE  LET i == n * (k - 1) + j
         IN  i \in 1..n * m /\ ((i - 1) \div n) + 1 = k /\ ((i - 1) % n) + 1 = j
<1> DEFINE i == n * (k - 1) + j
<1>1. n * (k - 1) \in Nat /\ n * (k - 1) <= n * m - n
  OBVIOUS
<1>2. i \in 1..n * m
  BY <1>1
<1>3. i - 1 = n * (k - 1) + (j - 1) /\ j - 1 \in 0..n - 1 /\ k - 1 \in Nat
  BY <1>1
<1>4. (i - 1) \div n = k - 1 /\ (i - 1) % n = j - 1
  BY <1>3
<1> QED
  BY <1>2, <1>4

-----------------------------------------------------------------------------
(* What becomes of a call.                                                 *)

PcNames == {"idle", "check", "run", "log", "logging", "reply", "answered"}

\* The shapes of the variables that TypeOK types only thread by thread.
Shapes == /\ req \in [Threads -> Requests \cup {NoRequest}]
          /\ DOMAIN names = Threads /\ DOMAIN targets = Threads
          /\ DOMAIN rows = Threads /\ DOMAIN touched = Threads

\* The rows of a run_audit are those of the first pairs, in order.
RowsInOrder(t) == /\ Len(rows[t]) <= Fanout(t)
                  /\ \A i \in DOMAIN rows[t] : rows[t][i].pair = PairAt(t, i)

\* How a run_audit may end.
Ended(t) == \/ answer[t] = Rejected /\ Refused(t) /\ touched[t] = {}
            \/ answer[t] = Payload /\ ~Refused(t) /\ AllPairsDone(t)
            \/ answer[t] = Error("OSError") /\ ~Refused(t)

Call(t) ==
  /\ names[t] = NamesIn(req[t]) /\ targets[t] = TargetsIn(req[t])
  /\ req[t] = NoRequest => pc[t] = "idle"
  /\ pc[t] # "idle" => id[t] \in 1..received
  /\ pc[t] \in {"run", "log", "logging", "reply"} => Tracked(t)
  /\ pc[t] = "check" => rows[t] = <<>> /\ touched[t] = {}
  /\ IsAudit(t) =>
       /\ RowsInOrder(t)
       /\ touched[t] # {} \/ pc[t] \in {"run", "log", "logging", "reply"} => ~Refused(t)
       /\ pc[t] \in {"log", "logging", "reply"} => answer[t] = Payload /\ AllPairsDone(t)
       /\ pc[t] = "answered" => Ended(t)

CallInv == TypeOK /\ Shapes /\ \A t \in Threads : Call(t)

\* The variables of thread t.
Mine(t) == <<req[t], id[t], names[t], targets[t], pc[t], reads[t], rows[t], answer[t], touched[t]>>

\* Call(t) depends on the variables of t only, and a later id does not matter.
LEMMA CallKept ==
  ASSUME NEW t, Call(t), UNCHANGED Mine(t), received \in Nat, received' \in Nat,
         received <= received'
  PROVE  Call(t)'
<1>1. /\ req'[t] = req[t] /\ id'[t] = id[t] /\ names'[t] = names[t] /\ targets'[t] = targets[t]
      /\ pc'[t] = pc[t] /\ rows'[t] = rows[t] /\ answer'[t] = answer[t] /\ touched'[t] = touched[t]
  BY DEF Mine
<1>2. /\ IsAudit(t)' = IsAudit(t) /\ Tracked(t)' = Tracked(t) /\ Fanout(t)' = Fanout(t)
      /\ \A i : PairAt(t, i)' = PairAt(t, i)
  BY <1>1 DEF IsAudit, Tracked, Fanout, PairAt
<1>3. /\ Refused(t)' = Refused(t) /\ AllPairsDone(t)' = AllPairsDone(t)
  BY <1>1, <1>2 DEF Refused, AllPairsDone
<1>4. RowsInOrder(t)' = RowsInOrder(t) /\ Ended(t)' = Ended(t)
  BY <1>1, <1>2, <1>3 DEF RowsInOrder, Ended
<1>5. 1..received \subseteq 1..received'
  OBVIOUS
<1> QED
  BY <1>1, <1>2, <1>3, <1>4, <1>5 DEF Call

LEMMA OthersKept ==
  ASSUME CallInv, NEW t \in Threads, TypeOK', Shapes', Call(t)', received <= received',
         \A u \in Threads \ {t} : UNCHANGED Mine(u)
  PROVE  CallInv'
<1>1. received \in Nat /\ received' \in Nat
  <2>1. received \in 0..MaxRequests /\ received' \in 0..MaxRequests
    BY DEF CallInv, TypeOK
  <2> QED
    BY <2>1
<1>2. \A u \in Threads \ {t} : Call(u)'
  BY <1>1, CallKept DEF CallInv
<1> QED
  BY <1>2 DEF CallInv

\* The names and targets of a call are lists without repetitions, of what was asked.
LEMMA Asked ==
  ASSUME NEW t \in Threads, req[t] \in Requests, IsAudit(t),
         names[t] = NamesIn(req[t]), targets[t] = TargetsIn(req[t])
  PROVE  /\ names[t] \in Seq(STRING) /\ targets[t] \in Seq(STRING)
         /\ Len(names[t]) \in Nat /\ Len(targets[t]) \in Nat /\ Fanout(t) \in Nat
         /\ Range(names[t]) = AskedAudits(t) /\ Range(targets[t]) = AskedDevices(t)
         /\ Fanout(t) = Cardinality(AskedAudits(t) \X AskedDevices(t))
<1>1. req[t] \in [tool : {"run_audit"}, audits : Seq(STRING), devices : Seq(STRING)]
  BY ToolServerAssumption DEF IsAudit, RequestType
<1> DEFINE a == OrAll(req[t].audits, Audits)
           d == OrAll(req[t].devices, Inventory)
<1>2. a \in Seq(STRING) /\ d \in Seq(STRING)
  BY <1>1, ToolServerAssumption DEF OrAll
<1>3. names[t] = Dedup(a) /\ targets[t] = Dedup(d)
  BY DEF NamesIn, TargetsIn, IsAudit
<1>4. Range(a) = AskedAudits(t) /\ Range(d) = AskedDevices(t)
  BY DEF OrAll, AskedAudits, AskedDevices, AuditNames, Devices
<1> HIDE DEF a, d
<1>5. /\ Dedup(a) \in Seq(STRING) /\ Range(Dedup(a)) = Range(a) /\ IsFiniteSet(Range(a))
      /\ Len(Dedup(a)) = Cardinality(Range(a)) /\ Len(Dedup(a)) \in Nat
  BY <1>2, DedupProperties
<1>6. /\ Dedup(d) \in Seq(STRING) /\ Range(Dedup(d)) = Range(d) /\ IsFiniteSet(Range(d))
      /\ Len(Dedup(d)) = Cardinality(Range(d)) /\ Len(Dedup(d)) \in Nat
  BY <1>2, DedupProperties
<1>7. Cardinality(Range(a) \X Range(d)) = Cardinality(Range(a)) * Cardinality(Range(d))
  BY <1>5, <1>6, FS_Product
<1>8. Fanout(t) = Len(Dedup(a)) * Len(Dedup(d)) /\ Fanout(t) \in Nat
  <2>1. Fanout(t) = Len(Dedup(a)) * Len(Dedup(d))
    BY <1>3 DEF Fanout
  <2>2. \A x, y \in Nat : x * y \in Nat
    OBVIOUS
  <2> QED
    BY <1>5, <1>6, <2>1, <2>2
<1> QED
  BY <1>3, <1>4, <1>5, <1>6, <1>7, <1>8

\* run_audit refuses just the calls that are not valid.
LEMMA RefusedUnlessValid ==
  ASSUME NEW t \in Threads, req[t] \in Requests, IsAudit(t),
         names[t] = NamesIn(req[t]), targets[t] = TargetsIn(req[t])
  PROVE  Refused(t) <=> ~Valid(t)
<1>1. Fanout(t) \in Nat /\ MaxFanout \in Nat
  BY Asked, ToolServerAssumption
<1> QED
  BY <1>1, Asked DEF Refused, Valid

\* Every pair of an admitted call is an audit and a device that there are.
LEMMA PairKnown ==
  ASSUME NEW t \in Threads, req[t] \in Requests, IsAudit(t), ~Refused(t),
         names[t] = NamesIn(req[t]), targets[t] = TargetsIn(req[t]), NEW i \in 1..Fanout(t)
  PROVE  /\ PairAt(t, i) \in [device : Devices, audit : AuditNames]
         /\ PairAt(t, i).audit \in Range(names[t]) /\ PairAt(t, i).device \in Range(targets[t])
<1> DEFINE n == Len(names[t])
           m == Len(targets[t])
<1>1. /\ names[t] \in Seq(STRING) /\ targets[t] \in Seq(STRING) /\ n \in Nat /\ m \in Nat
      /\ DOMAIN names[t] = 1..n /\ DOMAIN targets[t] = 1..m
  BY Asked, LenProperties
<1>2. i \in 1..n * m
  BY DEF Fanout
<1> HIDE DEF n, m
<1>3. ((i - 1) \div n) + 1 \in 1..m /\ ((i - 1) % n) + 1 \in 1..n
  BY <1>1, <1>2, RowIndex
<1>4. PairAt(t, i) = [device |-> targets[t][((i - 1) \div n) + 1],
                      audit |-> names[t][((i - 1) % n) + 1]]
  BY DEF PairAt, n
<1>5. /\ targets[t][((i - 1) \div n) + 1] \in Range(targets[t])
      /\ names[t][((i - 1) % n) + 1] \in Range(names[t])
  BY <1>1, <1>3 DEF Range
<1> QED
  BY <1>4, <1>5 DEF Refused

\* The pairs of a call are those of its names with its targets.
LEMMA PairsCovered ==
  ASSUME NEW t \in Threads, req[t] \in Requests, IsAudit(t),
         names[t] = NamesIn(req[t]), targets[t] = TargetsIn(req[t]),
         NEW a \in Range(names[t]), NEW d \in Range(targets[t])
  PROVE  \E i \in 1..Fanout(t) : PairAt(t, i).audit = a /\ PairAt(t, i).device = d
<1> DEFINE n == Len(names[t])
           m == Len(targets[t])
<1>1. /\ names[t] \in Seq(STRING) /\ targets[t] \in Seq(STRING) /\ n \in Nat /\ m \in Nat
      /\ DOMAIN names[t] = 1..n /\ DOMAIN targets[t] = 1..m
  BY Asked, LenProperties
<1>2. PICK j \in 1..n : names[t][j] = a
  BY <1>1 DEF Range
<1>3. PICK k \in 1..m : targets[t][k] = d
  BY <1>1 DEF Range
<1> HIDE DEF n, m
<1> DEFINE i == n * (k - 1) + j
<1>4. i \in 1..n * m /\ ((i - 1) \div n) + 1 = k /\ ((i - 1) % n) + 1 = j
  BY <1>1, IndexOf
<1> HIDE DEF i
<1>5. PairAt(t, i).audit = a /\ PairAt(t, i).device = d
  BY <1>2, <1>3, <1>4 DEF PairAt, n
<1> QED
  BY <1>4, <1>5 DEF Fanout, n, m

LEMMA CallInit == ASSUME Init PROVE CallInv
<1>1. TypeOK
  <2>1. log \in Seq(EntryType)
    BY EmptySeq DEF Init
  <2>2. \A t \in Threads : rows[t] \in Seq(RowType)
    BY EmptySeq DEF Init
  <2>3. id \in [Threads -> 0..MaxRequests] /\ received \in 0..MaxRequests
        /\ crashes \in 0..MaxCrashes
    <3>1. MaxRequests \in Nat /\ MaxCrashes \in Nat
      BY ToolServerAssumption
    <3>2. 0 \in 0..MaxRequests /\ 0 \in 0..MaxCrashes
      BY <3>1
    <3> QED
      BY <3>2 DEF Init
  <2>4. answer \in [Threads -> Answers]
    BY DEF Init, Answers
  <2> QED
    BY <2>1, <2>2, <2>3, <2>4 DEF Init, TypeOK
<1>2. Shapes
  BY DEF Init, Shapes
<1>3. \A t \in Threads : Call(t)
  BY DEF Init, Call, NamesIn, TargetsIn, IsAudit, NoRequest
<1> QED
  BY <1>1, <1>2, <1>3 DEF CallInv

\* A step of thread t that moves it on, answers perhaps, and leaves its call alone.
LEMMA MovingStep ==
  ASSUME CallInv, NEW t \in Threads, NEW step \in {"run", "log", "logging", "reply", "answered"},
         UNCHANGED <<override, fixed, reads, rows, touched, log, received, crashes>>,
         pc[t] # "idle", pc' = [pc EXCEPT ![t] = step],
         answer' \in [Threads -> Answers], \A u \in Threads \ {t} : answer'[u] = answer[u],
         step # "answered" => Tracked(t),
         IsAudit(t) =>
           /\ step # "answered" => ~Refused(t)
           /\ step \in {"log", "logging", "reply"} => answer'[t] = Payload /\ AllPairsDone(t)
           /\ step = "answered" =>
                \/ answer'[t] = Rejected /\ Refused(t) /\ touched[t] = {}
                \/ answer'[t] = Payload /\ ~Refused(t) /\ AllPairsDone(t)
                \/ answer'[t] = Error("OSError") /\ ~Refused(t)
  PROVE  CallInv'
<1>1. pc \in [Threads -> PcNames]
  BY DEF CallInv, TypeOK, PcNames
<1>2. TypeOK'
  BY <1>1 DEF CallInv, TypeOK, PcNames, fixed
<1>3. Shapes'
  BY DEF CallInv, Shapes, fixed
<1>4. pc'[t] = step /\ \A u \in Threads \ {t} : pc'[u] = pc[u]
  BY <1>1
<1>5. \A u \in Threads \ {t} : UNCHANGED Mine(u)
  BY <1>4 DEF Mine, fixed
<1>6. UNCHANGED <<req, id, names, targets, rows, touched, received>>
  BY DEF fixed
<1>7. /\ IsAudit(t)' = IsAudit(t) /\ Tracked(t)' = Tracked(t) /\ Refused(t)' = Refused(t)
      /\ AllPairsDone(t)' = AllPairsDone(t) /\ RowsInOrder(t)' = RowsInOrder(t)
  BY <1>6 DEF IsAudit, Tracked, Refused, AllPairsDone, RowsInOrder, Fanout, PairAt
<1>8. Call(t)
  BY DEF CallInv
<1>9. IsAudit(t) => /\ touched[t] # {} => ~Refused(t)
                    /\ RowsInOrder(t)
  BY <1>8 DEF Call
<1>10. IsAudit(t) /\ step = "answered" => Ended(t)'
  BY <1>6, <1>7 DEF Ended
<1>11. Call(t)'
  BY <1>4, <1>6, <1>7, <1>8, <1>9, <1>10 DEF Call
<1>12. received <= received'
  <2>1. received' = received /\ received \in 0..MaxRequests
    BY DEF CallInv, TypeOK
  <2> QED
    BY <2>1
<1> QED
  BY <1>2, <1>3, <1>5, <1>11, <1>12, OthersKept

\* Where a busy call stands.
LEMMA Standing ==
  ASSUME CallInv, NEW t \in Threads, pc[t] # "idle"
  PROVE  /\ req[t] \in Requests
         /\ names[t] = NamesIn(req[t]) /\ targets[t] = TargetsIn(req[t])
         /\ answer \in [Threads -> Answers]
         /\ Payload \in Answers /\ Rejected \in Answers /\ Error("OSError") \in Answers
<1>1. Call(t) /\ req[t] \in Requests \cup {NoRequest}
  BY DEF CallInv, Shapes
<1> QED
  BY <1>1 DEF Call, CallInv, TypeOK, Answers

LEMMA CallAnswerUntracked ==
  ASSUME CallInv, NEW t \in Threads, AnswerUntracked(t)  PROVE CallInv'
<1>1. pc[t] # "idle" /\ ~Tracked(t) /\ ~IsAudit(t)
  BY DEF AnswerUntracked, IsAudit, Tracked
<1>2. answer' \in [Threads -> Answers] /\ \A u \in Threads \ {t} : answer'[u] = answer[u]
  BY <1>1, Standing DEF AnswerUntracked, AnswerWith
<1> QED
  BY <1>1, <1>2, MovingStep DEF AnswerUntracked, AnswerWith, local, fixed

LEMMA CallReject == ASSUME CallInv, NEW t \in Threads, Reject(t)  PROVE CallInv'
<1>1. pc[t] = "check" /\ Refused(t)
  BY DEF Reject
<1>2. /\ answer' \in [Threads -> Answers] /\ answer'[t] = Rejected
      /\ \A u \in Threads \ {t} : answer'[u] = answer[u]
  BY <1>1, Standing DEF Reject, AnswerWith
<1>3. touched[t] = {}
  BY <1>1 DEF CallInv, Call
<1> QED
  BY <1>1, <1>2, <1>3, MovingStep DEF Reject, AnswerWith, local, fixed

LEMMA CallAdmit == ASSUME CallInv, NEW t \in Threads, Admit(t)  PROVE CallInv'
<1>1. pc[t] = "check" /\ ~Refused(t) /\ Tracked(t) /\ answer \in [Threads -> Answers]
  BY Standing DEF Admit, IsAudit, Tracked
<1> QED
  BY <1>1, MovingStep DEF Admit, local, fixed

LEMMA CallBodyDone == ASSUME CallInv, NEW t \in Threads, BodyDone(t)  PROVE CallInv'
<1>1. pc[t] = "run" /\ (IsAudit(t) => AllPairsDone(t))
  BY DEF BodyDone
<1>2. /\ answer' \in [Threads -> Answers] /\ answer'[t] = Payload
      /\ \A u \in Threads \ {t} : answer'[u] = answer[u]
  BY <1>1, Standing DEF BodyDone
<1>3. Tracked(t) /\ (IsAudit(t) => ~Refused(t))
  BY <1>1 DEF CallInv, Call
<1> QED
  BY <1>1, <1>2, <1>3, MovingStep DEF BodyDone, local, fixed

LEMMA CallReply == ASSUME CallInv, NEW t \in Threads, Reply(t)  PROVE CallInv'
<1>1. pc[t] = "reply" /\ answer \in [Threads -> Answers]
  BY Standing DEF Reply
<1>2. IsAudit(t) => ~Refused(t) /\ answer[t] = Payload /\ AllPairsDone(t)
  BY <1>1 DEF CallInv, Call
<1> QED
  BY <1>1, <1>2, MovingStep DEF Reply, local, fixed

LEMMA CallCrash == ASSUME CallInv, Crash  PROVE CallInv'
<1>1. TypeOK'
  <2>1. \A t \in Threads : rows'[t] \in Seq(RowType)
    BY EmptySeq DEF Crash
  <2>2. id' \in [Threads -> 0..MaxRequests] /\ crashes' \in 0..MaxCrashes
    <3>1. MaxRequests \in Nat /\ MaxCrashes \in Nat
      BY ToolServerAssumption
    <3>2. crashes \in 0..MaxCrashes /\ crashes < MaxCrashes
      BY DEF CallInv, TypeOK, Crash
    <3>3. 0 \in 0..MaxRequests /\ crashes + 1 \in 0..MaxCrashes
      BY <3>1, <3>2
    <3> QED
      BY <3>3 DEF Crash
  <2>3. answer' \in [Threads -> Answers]
    BY DEF Crash, Answers
  <2> QED
    BY <2>1, <2>2, <2>3 DEF Crash, CallInv, TypeOK
<1>2. Shapes'
  BY DEF Crash, Shapes
<1>3. \A t \in Threads : Call(t)'
  BY DEF Crash, Call, NamesIn, TargetsIn, IsAudit, NoRequest
<1> QED
  BY <1>1, <1>2, <1>3 DEF CallInv

\* A call is received: everything of the thread's last call is forgotten.
LEMMA CallReceive ==
  ASSUME CallInv, NEW t \in Threads, NEW q \in Requests, Receive(t, q)  PROVE CallInv'
<1>1. /\ received \in 0..MaxRequests /\ received < MaxRequests /\ received' = received + 1
      /\ MaxRequests \in Nat
  BY ToolServerAssumption DEF CallInv, TypeOK, Receive
<1>2. received' \in 0..MaxRequests /\ received <= received' /\ received + 1 \in 1..received'
  BY <1>1
<1>3. /\ id'[t] = received + 1 /\ req'[t] = q
      /\ names'[t] = NamesIn(q) /\ targets'[t] = TargetsIn(q)
      /\ pc'[t] = IF q.tool = "collector" THEN "run" ELSE "check"
      /\ rows'[t] = <<>> /\ answer'[t] = NoAnswer /\ touched'[t] = {}
      /\ \A u \in Threads \ {t} : UNCHANGED Mine(u)
  BY DEF CallInv, TypeOK, Shapes, Receive, Mine
<1>4. TypeOK'
  <2>1. id' \in [Threads -> 0..MaxRequests]
    BY <1>1, <1>2 DEF CallInv, TypeOK, Receive
  <2>2. \A u \in Threads : rows'[u] \in Seq(RowType)
    BY <1>3, EmptySeq DEF CallInv, TypeOK, Mine
  <2>3. \A u \in Threads : req'[u] = NoRequest \/ req'[u] \in Requests
    BY <1>3 DEF CallInv, TypeOK, Mine
  <2>4. \A u \in Threads : touched'[u] \subseteq ({"fixture", "api"} \X Devices)
    BY <1>3 DEF CallInv, TypeOK, Mine
  <2>5. /\ pc' \in [Threads -> PcNames]
        /\ reads' \in [Threads -> Nat]
    BY DEF CallInv, TypeOK, Receive, PcNames
  <2>6. answer' \in [Threads -> Answers]
    BY DEF CallInv, TypeOK, Receive, Answers
  <2> QED
    BY <1>2, <2>1, <2>2, <2>3, <2>4, <2>5, <2>6 DEF CallInv, TypeOK, Receive, PcNames
<1>5. Shapes'
  BY DEF CallInv, Shapes, Receive
<1>6. IsAudit(t)' => RowsInOrder(t)'
  <2> SUFFICES ASSUME IsAudit(t)'  PROVE RowsInOrder(t)'
    OBVIOUS
  <2>1. Fanout(t)' \in Nat
    <3>1. q \in [tool : {"run_audit"}, audits : Seq(STRING), devices : Seq(STRING)]
      BY <1>3, ToolServerAssumption DEF IsAudit, RequestType
    <3> DEFINE a == OrAll(q.audits, Audits)
               d == OrAll(q.devices, Inventory)
    <3>2. a \in Seq(STRING) /\ d \in Seq(STRING)
      BY <3>1, ToolServerAssumption DEF OrAll
    <3>3. names'[t] = Dedup(a) /\ targets'[t] = Dedup(d)
      BY <1>3, <3>1 DEF NamesIn, TargetsIn
    <3> HIDE DEF a, d
    <3>4. Len(Dedup(a)) \in Nat /\ Len(Dedup(d)) \in Nat
      BY <3>2, DedupProperties
    <3>5. \A x, y \in Nat : x * y \in Nat
      OBVIOUS
    <3> QED
      BY <3>3, <3>4, <3>5 DEF Fanout
  <2>2. Len(<<>>) = 0 /\ DOMAIN <<>> = {}
    BY EmptySeq
  <2> QED
    BY <1>3, <2>1, <2>2 DEF RowsInOrder
<1>7. q.tool = "collector" => ~IsAudit(t)' /\ Tracked(t)'
  BY <1>3 DEF IsAudit, Tracked
<1>8. q # NoRequest
  BY ToolServerAssumption DEF RequestType, NoRequest
<1>9. Call(t)'
  BY <1>2, <1>3, <1>6, <1>7, <1>8 DEF Call
<1> QED
  BY <1>2, <1>3, <1>4, <1>5, <1>9, OthersKept

\* What a tracked call needs while it reads and while its rows are made.
LEMMA RunStep ==
  ASSUME CallInv, NEW t \in Threads, pc[t] = "run",
         UNCHANGED <<override, fixed, pc, answer, log, received, crashes>>,
         reads' \in [Threads -> Nat], \A u \in Threads \ {t} : reads'[u] = reads[u],
         DOMAIN rows' = Threads, \A u \in Threads \ {t} : rows'[u] = rows[u],
         rows'[t] \in Seq(RowType), IsAudit(t) => RowsInOrder(t)',
         DOMAIN touched' = Threads, \A u \in Threads \ {t} : touched'[u] = touched[u],
         touched'[t] \subseteq ({"fixture", "api"} \X Devices)
  PROVE  CallInv'
<1>1. UNCHANGED <<req, id, names, targets>>
  BY DEF fixed
<1>2. TypeOK'
  <2>1. \A u \in Threads : rows'[u] \in Seq(RowType)
    BY DEF CallInv, TypeOK
  <2>2. \A u \in Threads : touched'[u] \subseteq ({"fixture", "api"} \X Devices)
    BY DEF CallInv, TypeOK
  <2> QED
    BY <1>1, <2>1, <2>2 DEF CallInv, TypeOK
<1>3. Shapes'
  BY <1>1 DEF CallInv, Shapes
<1>4. \A u \in Threads \ {t} : UNCHANGED Mine(u)
  BY <1>1 DEF Mine
<1>5. IsAudit(t)' = IsAudit(t) /\ Tracked(t)' = Tracked(t) /\ Refused(t)' = Refused(t)
  BY <1>1 DEF IsAudit, Tracked, Refused, Fanout
<1>6. Call(t)
  BY DEF CallInv
<1>7. Call(t)'
  BY <1>1, <1>5, <1>6 DEF Call
<1>8. received <= received'
  <2>1. received' = received /\ received \in 0..MaxRequests
    BY DEF CallInv, TypeOK
  <2> QED
    BY <2>1
<1> QED
  BY <1>2, <1>3, <1>4, <1>7, <1>8, OthersKept

\* A read the service lets through is of a device there is, by a backend there is.
LEMMA TouchTyped ==
  ASSUME CallInv, NEW t \in Threads, Permitted(Device(t)), Touch(t)
  PROVE  /\ DOMAIN touched' = Threads
         /\ \A u \in Threads \ {t} : touched'[u] = touched[u]
         /\ touched'[t] \subseteq ({"fixture", "api"} \X Devices)
<1>1. BackendFor(Device(t)) \in {"fixture", "api"} /\ Device(t) \in Devices
  BY ToolServerAssumption DEF Permitted, Backends
<1>2. touched[t] \subseteq ({"fixture", "api"} \X Devices) /\ DOMAIN touched = Threads
  BY DEF CallInv, TypeOK, Shapes
<1> QED
  BY <1>1, <1>2 DEF Touch

\* The next row of an audit is about the next pair.
LEMMA NextRow ==
  ASSUME CallInv, NEW t \in Threads, pc[t] = "run", IsAudit(t), ~AllPairsDone(t),
         UNCHANGED fixed, NEW outcome \in {"result"} \cup Labels, AddRow(t, outcome)
  PROVE  /\ DOMAIN rows' = Threads /\ \A u \in Threads \ {t} : rows'[u] = rows[u]
         /\ rows'[t] \in Seq(RowType) /\ RowsInOrder(t)'
<1> DEFINE r == rows[t]
           row == [pair |-> Pair(t), outcome |-> outcome]
<1>1. /\ Call(t) /\ r \in Seq(RowType) /\ DOMAIN rows = Threads
      /\ req[t] \in Requests /\ names[t] = NamesIn(req[t]) /\ targets[t] = TargetsIn(req[t])
  BY Standing DEF CallInv, TypeOK, Shapes
<1>2. RowsInOrder(t) /\ ~Refused(t)
  BY <1>1 DEF Call
<1>3. rows' = [rows EXCEPT ![t] = Append(r, row)]
  BY DEF AddRow
<1>4. rows'[t] = Append(r, row) /\ DOMAIN rows' = Threads
      /\ \A u \in Threads \ {t} : rows'[u] = rows[u]
  BY <1>1, <1>3
<1>5. Len(r) \in Nat /\ DOMAIN r = 1..Len(r) /\ Fanout(t) \in Nat
  BY <1>1, Asked, LenProperties
<1>6. Len(r) # Fanout(t) /\ Len(r) <= Fanout(t)
  BY <1>2 DEF AllPairsDone, RowsInOrder
<1>7. Len(r) + 1 \in 1..Fanout(t)
  BY <1>5, <1>6
<1>8. Pair(t) \in [device : Devices, audit : AuditNames]
  BY <1>1, <1>2, <1>7, PairKnown DEF Pair
<1>9. row \in RowType
  BY <1>8 DEF RowType
<1> HIDE DEF row
<1>10. /\ Append(r, row) \in Seq(RowType) /\ Len(Append(r, row)) = Len(r) + 1
       /\ \A i \in 1..Len(r) : Append(r, row)[i] = r[i]
       /\ Append(r, row)[Len(r) + 1] = row
  BY <1>1, <1>9, AppendProperties
<1>11. DOMAIN Append(r, row) = 1..Len(r) + 1
  BY <1>10, LenProperties
<1>12. \A i \in DOMAIN Append(r, row) : i \in DOMAIN r \/ i = Len(r) + 1
  BY <1>5, <1>11
<1>13. Fanout(t)' = Fanout(t) /\ \A i : PairAt(t, i)' = PairAt(t, i)
  BY DEF Fanout, PairAt, fixed
<1>14. row.pair = PairAt(t, Len(r) + 1)
  BY DEF row, Pair
<1>15. \A i \in DOMAIN Append(r, row) : Append(r, row)[i].pair = PairAt(t, i)
  BY <1>2, <1>5, <1>10, <1>12, <1>14 DEF RowsInOrder
<1>16. Len(Append(r, row)) <= Fanout(t)
  BY <1>7, <1>10
<1> QED
  BY <1>4, <1>10, <1>13, <1>15, <1>16 DEF RowsInOrder

\* The rows stay in order while they stay.
LEMMA SameRows ==
  ASSUME CallInv, NEW t \in Threads, UNCHANGED <<fixed, rows>>
  PROVE  /\ DOMAIN rows' = Threads /\ \A u \in Threads \ {t} : rows'[u] = rows[u]
         /\ rows'[t] \in Seq(RowType) /\ (IsAudit(t) => RowsInOrder(t)')
<1>1. Call(t) /\ rows[t] \in Seq(RowType) /\ DOMAIN rows = Threads
  BY DEF CallInv, TypeOK, Shapes
<1> QED
  BY <1>1 DEF Call, RowsInOrder, Fanout, PairAt, fixed

LEMMA CallReadOk == ASSUME CallInv, NEW t \in Threads, ReadOk(t)  PROVE CallInv'
<1>1. pc[t] = "run" /\ reads' \in [Threads -> Nat]
      /\ \A u \in Threads \ {t} : reads'[u] = reads[u]
  <2>1. reads \in [Threads -> Nat] /\ reads' = [reads EXCEPT ![t] = @ + 1]
    BY DEF ReadOk, CallInv, TypeOK
  <2> QED
    BY <2>1 DEF ReadOk, WantsRead
<1> QED
  BY <1>1, TouchTyped, SameRows, RunStep DEF ReadOk

LEMMA CallVerdict == ASSUME CallInv, NEW t \in Threads, Verdict(t)  PROVE CallInv'
<1>1. /\ pc[t] = "run" /\ IsAudit(t) /\ ~AllPairsDone(t) /\ reads' \in [Threads -> Nat]
      /\ \A u \in Threads \ {t} : reads'[u] = reads[u]
  BY DEF Verdict, WantsVerdict, CallInv, TypeOK
<1>2. PICK outcome \in {"result"} \cup Labels : AddRow(t, outcome)
  BY DEF Verdict, Labels
<1>3. /\ DOMAIN rows' = Threads /\ \A u \in Threads \ {t} : rows'[u] = rows[u]
      /\ rows'[t] \in Seq(RowType) /\ RowsInOrder(t)'
  BY <1>1, <1>2, NextRow DEF Verdict
<1>4. DOMAIN touched = Threads /\ touched[t] \subseteq ({"fixture", "api"} \X Devices)
  BY DEF CallInv, TypeOK, Shapes
<1> QED
  BY <1>1, <1>3, <1>4, RunStep DEF Verdict

\* An exception: a row of its own for an audit, the end of a collector.
LEMMA CallFail ==
  ASSUME CallInv, NEW t \in Threads, WantsRead(t), NEW label, Fail(t, label),
         IsAudit(t) => label \in Labels, ~IsAudit(t) => label \in Labels \cup {"ValueError"},
         UNCHANGED <<override, fixed, log, received, crashes>>, DOMAIN touched' = Threads,
         \A u \in Threads \ {t} : touched'[u] = touched[u],
         touched'[t] \subseteq ({"fixture", "api"} \X Devices)
  PROVE  CallInv'
<1>1. /\ pc[t] = "run" /\ ~AllPairsDone(t) /\ reads' \in [Threads -> Nat]
      /\ \A u \in Threads \ {t} : reads'[u] = reads[u]
  BY DEF WantsRead, Fail, CallInv, TypeOK
<1>2. CASE IsAudit(t)
  <2>1. AddRow(t, label) /\ UNCHANGED <<pc, answer>>
    BY <1>2 DEF Fail
  <2>2. /\ DOMAIN rows' = Threads /\ \A u \in Threads \ {t} : rows'[u] = rows[u]
        /\ rows'[t] \in Seq(RowType) /\ RowsInOrder(t)'
    BY <1>1, <1>2, <2>1, NextRow
  <2> QED
    BY <1>1, <2>1, <2>2, RunStep
<1>3. CASE ~IsAudit(t)
  <2>1. /\ pc' = [pc EXCEPT ![t] = "log"] /\ answer' = [answer EXCEPT ![t] = Error(label)]
        /\ UNCHANGED rows
    BY <1>3 DEF Fail
  <2>2. UNCHANGED <<req, id, names, targets>>
    BY DEF fixed
  <2>3. TypeOK'
    <3>1. pc' \in [Threads -> PcNames]
      BY <2>1 DEF CallInv, TypeOK, PcNames
    <3>2. Error(label) \in Answers
      BY <1>3 DEF Answers
    <3>3. answer' \in [Threads -> Answers]
      BY <2>1, <3>2 DEF CallInv, TypeOK
    <3>4. \A u \in Threads : touched'[u] \subseteq ({"fixture", "api"} \X Devices)
      BY DEF CallInv, TypeOK
    <3> QED
      BY <1>1, <2>1, <2>2, <3>1, <3>3, <3>4 DEF CallInv, TypeOK, PcNames
  <2>4. Shapes'
    BY <2>1, <2>2 DEF CallInv, Shapes
  <2>5. pc'[t] = "log" /\ \A u \in Threads \ {t} : UNCHANGED Mine(u)
    BY <1>1, <2>1, <2>2 DEF Mine, CallInv, TypeOK
  <2>6. Call(t) /\ IsAudit(t)' = IsAudit(t) /\ Tracked(t)' = Tracked(t)
    BY <2>2 DEF CallInv, IsAudit, Tracked
  <2>7. Call(t)'
    BY <1>1, <1>3, <2>2, <2>5, <2>6 DEF Call
  <2>8. received <= received'
    <3>1. received' = received /\ received \in 0..MaxRequests
      BY DEF CallInv, TypeOK
    <3> QED
      BY <3>1
  <2> QED
    BY <2>3, <2>4, <2>5, <2>7, <2>8, OthersKept
<1> QED
  BY <1>2, <1>3

LEMMA CallReadFails == ASSUME CallInv, NEW t \in Threads, ReadFails(t)  PROVE CallInv'
<1>1. PICK label \in Labels : Fail(t, label)
  BY DEF ReadFails
<1> QED
  BY <1>1, TouchTyped, CallFail DEF ReadFails

LEMMA CallReadDenied == ASSUME CallInv, NEW t \in Threads, ReadDenied(t)  PROVE CallInv'
<1>1. DOMAIN touched = Threads /\ touched[t] \subseteq ({"fixture", "api"} \X Devices)
  BY DEF CallInv, TypeOK, Shapes
<1>2. Fail(t, IF IsAudit(t) THEN "internal_error" ELSE "ValueError")
  BY DEF ReadDenied
<1> QED
  BY <1>1, <1>2, CallFail DEF ReadDenied, Labels

\* A write to the log keeps the invariant whatever part of the entry it is; the
\* answer goes on, or is replaced by the failure.
LEMMA LogStep ==
  ASSUME CallInv, NEW t \in Threads, NEW step \in {"logging", "reply", "answered"},
         NEW part \in {"line", "head", "rest"}, Write(t, part),
         pc[t] \in {"log", "logging"}, pc' = [pc EXCEPT ![t] = step],
         UNCHANGED <<override, fixed, reads, rows, touched, received, crashes>>,
         answer' = IF step = "answered" THEN [answer EXCEPT ![t] = Error("OSError")] ELSE answer
  PROVE  CallInv'
<1>1. Call(t) /\ Tracked(t) /\ id[t] \in 1..received
  BY DEF CallInv, Call
<1>2. id[t] \in 1..MaxRequests /\ received \in 0..MaxRequests
  <2>1. received \in 0..MaxRequests
    BY DEF CallInv, TypeOK
  <2>2. MaxRequests \in Nat
    BY ToolServerAssumption
  <2> QED
    BY <1>1, <2>1, <2>2
<1>3. Entry(t, part) \in EntryType
  BY <1>1, <1>2 DEF Entry, EntryType, Tracked
<1>4. log' \in Seq(EntryType)
  BY <1>3, AppendProperties DEF Write, CallInv, TypeOK
<1>5. UNCHANGED <<req, id, names, targets>>
  BY DEF fixed
<1>6. answer \in [Threads -> Answers] /\ answer' \in [Threads -> Answers]
  BY DEF CallInv, TypeOK, Answers
<1>7. TypeOK'
  <2>1. pc' \in [Threads -> PcNames]
    BY DEF CallInv, TypeOK, PcNames
  <2> QED
    BY <1>4, <1>5, <1>6, <2>1 DEF CallInv, TypeOK, PcNames
<1>8. Shapes'
  BY <1>5 DEF CallInv, Shapes
<1>9. /\ pc'[t] = step /\ \A u \in Threads \ {t} : UNCHANGED Mine(u)
      /\ answer'[t] = IF step = "answered" THEN Error("OSError") ELSE answer[t]
  BY <1>5, <1>6 DEF Mine, CallInv, TypeOK
<1>10. /\ IsAudit(t)' = IsAudit(t) /\ Tracked(t)' = Tracked(t) /\ Refused(t)' = Refused(t)
       /\ AllPairsDone(t)' = AllPairsDone(t) /\ RowsInOrder(t)' = RowsInOrder(t)
  BY <1>5 DEF IsAudit, Tracked, Refused, AllPairsDone, RowsInOrder, Fanout, PairAt
<1>11. IsAudit(t) => ~Refused(t)
  BY <1>1 DEF Call
<1>12. IsAudit(t) /\ step = "answered" => Ended(t)'
  BY <1>9, <1>10, <1>11 DEF Ended
<1>13. Call(t)'
  BY <1>1, <1>5, <1>9, <1>10, <1>11, <1>12 DEF Call
<1>14. received <= received'
  BY <1>2
<1> QED
  BY <1>7, <1>8, <1>9, <1>13, <1>14, OthersKept

LEMMA CallLogHead == ASSUME CallInv, NEW t \in Threads, LogHead(t)  PROVE CallInv'
  BY LogStep DEF LogHead, local, fixed

LEMMA CallLog == ASSUME CallInv, NEW t \in Threads, Log(t)  PROVE CallInv'
<1>1. CASE pc[t] = "log"
  BY <1>1, LogStep DEF Log, WriteToEnd, local, fixed
<1>2. CASE pc[t] = "logging"
  BY <1>2, LogStep DEF Log, WriteToEnd, local, fixed
<1> QED
  BY <1>1, <1>2 DEF Log

LEMMA CallLogFails == ASSUME CallInv, NEW t \in Threads, LogFails(t)  PROVE CallInv'
<1>1. pc[t] \in {"log", "logging"} /\ pc' = [pc EXCEPT ![t] = "answered"]
      /\ answer' = [answer EXCEPT ![t] = Error("OSError")]
  BY DEF LogFails, AnswerWith
<1>2. CASE WriteToEnd(t)
  <2>1. CASE pc[t] = "log"
    BY <1>1, <1>2, <2>1, LogStep DEF LogFails, WriteToEnd, local, fixed
  <2>2. CASE pc[t] = "logging"
    BY <1>1, <1>2, <2>2, LogStep DEF LogFails, WriteToEnd, local, fixed
  <2> QED
    BY <1>1, <2>1, <2>2
<1>3. CASE UNCHANGED log
  <2>1. /\ answer' \in [Threads -> Answers] /\ answer'[t] = Error("OSError")
        /\ \A u \in Threads \ {t} : answer'[u] = answer[u]
    BY <1>1, Standing
  <2>2. IsAudit(t) => ~Refused(t)
    BY <1>1 DEF CallInv, Call
  <2> QED
    BY <1>1, <1>3, <2>1, <2>2, MovingStep DEF LogFails, local, fixed
<1> QED
  BY <1>2, <1>3 DEF LogFails

LEMMA CallStutter == ASSUME CallInv, UNCHANGED vars  PROVE CallInv'
<1>1. TypeOK' /\ Shapes'
  BY DEF CallInv, TypeOK, Shapes, vars, fixed
<1>2. received \in Nat /\ received' = received
  <2>1. received \in 0..MaxRequests
    BY DEF CallInv, TypeOK
  <2> QED
    BY <2>1 DEF vars
<1>3. \A t \in Threads : UNCHANGED Mine(t)
  BY DEF Mine, vars, fixed
<1>4. \A t \in Threads : Call(t)'
  BY <1>2, <1>3, CallKept DEF CallInv
<1> QED
  BY <1>1, <1>4 DEF CallInv

LEMMA CallInvariance == Spec => []CallInv
<1>1. Init => CallInv
  BY CallInit
<1>2. CallInv /\ [Next]_vars => CallInv'
  <2> SUFFICES ASSUME CallInv, [Next]_vars  PROVE CallInv'
    OBVIOUS
  <2>1. ASSUME NEW t \in Threads, Continue(t)  PROVE CallInv'
    BY <2>1, CallAnswerUntracked, CallReject, CallAdmit, CallReadOk, CallReadFails,
       CallReadDenied, CallVerdict, CallBodyDone, CallLogHead, CallLog, CallLogFails,
       CallReply
    DEF Continue
  <2>2. ASSUME NEW t \in Threads, NEW q \in Requests, Receive(t, q)  PROVE CallInv'
    BY <2>2, CallReceive
  <2> QED
    BY <2>1, <2>2, CallCrash, CallStutter DEF Next
<1> QED
  BY <1>1, <1>2, PTL DEF Spec

\* The variables stay in their types, whatever is asked and whatever fails.
THEOREM ToolServerTypes == Spec => []TypeOK
<1>1. CallInv => TypeOK
  BY DEF CallInv
<1> QED
  BY <1>1, CallInvariance, PTL

\* run_audit answers with one row for each audit and device it was asked about,
\* of whatever number, in whatever order, and however often they were named.
THEOREM OneRowPerPair == Spec => []EachPairOnce
<1>1. CallInv => EachPairOnce
  <2> SUFFICES ASSUME CallInv, NEW t \in Threads,
                      IsAudit(t), pc[t] = "answered", answer[t] = Payload
               PROVE  /\ {<<rows[t][i].pair.audit, rows[t][i].pair.device>> : i \in DOMAIN rows[t]}
                           = AskedAudits(t) \X AskedDevices(t)
                      /\ Len(rows[t]) = Cardinality(AskedAudits(t) \X AskedDevices(t))
    BY DEF EachPairOnce
  <2>1. Ended(t) /\ RowsInOrder(t) /\ rows[t] \in Seq(RowType)
    BY DEF CallInv, TypeOK, Call
  <2>2. ~Refused(t) /\ AllPairsDone(t)
    BY <2>1 DEF Ended, Rejected, Error, Payload
  <2>3. req[t] \in Requests /\ names[t] = NamesIn(req[t]) /\ targets[t] = TargetsIn(req[t])
    BY Standing
  <2>4. /\ Len(rows[t]) = Fanout(t) /\ DOMAIN rows[t] = 1..Fanout(t)
        /\ \A i \in 1..Fanout(t) : rows[t][i].pair = PairAt(t, i)
    BY <2>1, <2>2, LenProperties DEF AllPairsDone, RowsInOrder
  <2>5. /\ Range(names[t]) = AskedAudits(t) /\ Range(targets[t]) = AskedDevices(t)
        /\ Fanout(t) = Cardinality(AskedAudits(t) \X AskedDevices(t))
    BY <2>3, Asked
  <2>6. \A i \in 1..Fanout(t) : /\ PairAt(t, i).audit \in AskedAudits(t)
                                /\ PairAt(t, i).device \in AskedDevices(t)
    BY <2>2, <2>3, <2>5, PairKnown
  <2>7. \A a \in AskedAudits(t), d \in AskedDevices(t) :
          \E i \in 1..Fanout(t) : PairAt(t, i).audit = a /\ PairAt(t, i).device = d
    BY <2>3, <2>5, PairsCovered
  <2>8. \A i \in DOMAIN rows[t] : rows[t][i].pair.audit \in AskedAudits(t)
                                  /\ rows[t][i].pair.device \in AskedDevices(t)
    BY <2>4, <2>6
  <2>9. \A a \in AskedAudits(t), d \in AskedDevices(t) :
          \E i \in DOMAIN rows[t] : rows[t][i].pair.audit = a /\ rows[t][i].pair.device = d
    BY <2>4, <2>7
  <2>10. {<<rows[t][i].pair.audit, rows[t][i].pair.device>> : i \in DOMAIN rows[t]}
           = AskedAudits(t) \X AskedDevices(t)
    BY <2>8, <2>9
  <2> QED
    BY <2>4, <2>5, <2>10
<1> QED
  BY <1>1, CallInvariance, PTL

\* run_audit refuses the calls that name something unknown or ask for too many
\* pairs, all of them and no others, and reads no device for them.
THEOREM RefusalReadsNothing == Spec => []RefusedUntouched
<1>1. CallInv => RefusedUntouched
  <2> SUFFICES ASSUME CallInv, NEW t \in Threads, IsAudit(t)
               PROVE  /\ touched[t] # {} \/ pc[t] \in {"run", "log", "logging", "reply"} => Valid(t)
                      /\ pc[t] = "answered" => (answer[t] = Rejected <=> ~Valid(t))
    BY DEF RefusedUntouched
  <2>1. Call(t) /\ req[t] \in Requests
    BY DEF IsAudit, NoRequest, CallInv, Shapes
  <2>2. Refused(t) <=> ~Valid(t)
    BY <2>1, RefusedUnlessValid DEF Call
  <2>3. Rejected # Payload /\ Rejected # Error("OSError")
    BY DEF Rejected, Payload, Error
  <2> QED
    BY <2>1, <2>2, <2>3 DEF Call, Ended
<1> QED
  BY <1>1, CallInvariance, PTL

===============================================================================
