------------------------- MODULE OperatorReportProofs -------------------------
(***************************************************************************)
(* Proofs about OperatorReport: what the command line prints and returns,   *)
(* whatever is asked for, whatever the audits read, and while the capture   *)
(* scripts rewrite the file it reads.                                      *)
(*                                                                         *)
(* The totals of a report, the list of devices and the redaction of a text  *)
(* are folds over sequences.  What a fold computes is shown here from the   *)
(* well-foundedness of < alone: the folds exist, and so obey their          *)
(* equations, and a set of numbers that has 0 and every successor has all.  *)
(***************************************************************************)
EXTENDS OperatorReport, FixtureCaptureProofs, FiniteSetTheorems

-----------------------------------------------------------------------------
(* Folds.  The library folds a sequence by a recursive function on the sets  *)
(* of its positions, greatest position last; so that there is such a function *)
(* has to be shown, and then what it is at every prefix.                     *)

\* h folds S by step: base at the empty set, a step from a set without the
\* element that pick names.
Folds(h, S, base, step, pick) ==
  \A s \in SUBSET S : h[s] = IF s = {} THEN base ELSE step[s][h[s \ {pick[s]}]]

\* Induction, over a set of numbers: one that has 0 and every successor has all.
LEMMA NatClosed ==
  ASSUME NEW G \in SUBSET Nat, 0 \in G, \A n \in G : n + 1 \in G
  PROVE  G = Nat
<1> DEFINE N == Nat \ G
<1>1. SUFFICES ASSUME N # {}  PROVE FALSE
  OBVIOUS
<1>2. N \subseteq Nat
  OBVIOUS
<1> HIDE DEF N
<1>3. PICK m \in N : \A n \in N : <<n, m>> \notin OpToRel(<, Nat)
  BY <1>1, <1>2, NatLessThanWellFounded, WFMin
<1>4. m \in Nat /\ m # 0 /\ m \notin G
  BY <1>2 DEF N
<1>5. m - 1 \in Nat /\ m - 1 < m /\ (m - 1) + 1 = m
  BY <1>4
<1>6. m - 1 \notin N
  <2>1. \A n \in N : ~(n < m)
    BY <1>2, <1>3, <1>4 DEF OpToRel
  <2> QED
    BY <1>5, <2>1
<1>7. m - 1 \in G
  BY <1>5, <1>6 DEF N
<1> QED
  BY <1>4, <1>5, <1>7

\* A fold of a finite set exists.
LEMMA FoldExists ==
  ASSUME NEW S, IsFiniteSet(S), NEW V, NEW base \in V, NEW step \in [SUBSET S -> [V -> V]],
         NEW pick \in [(SUBSET S) \ {{}} -> S], \A s \in (SUBSET S) \ {{}} : pick[s] \in s
  PROVE  \E h \in [SUBSET S -> V] : Folds(h, S, base, step, pick)
<1> DEFINE small(n) == {s \in SUBSET S : Cardinality(s) <= n}
           Good(n, h) == /\ h \in [small(n) -> V]
                         /\ \A s \in small(n) :
                              h[s] = IF s = {} THEN base ELSE step[s][h[s \ {pick[s]}]]
           G == {n \in Nat : \E h : Good(n, h)}
<1>1. \A s \in SUBSET S : IsFiniteSet(s) /\ Cardinality(s) \in Nat /\ Cardinality(s) <= Cardinality(S)
  BY FS_Subset, FS_CardinalityType
<1>2. ASSUME NEW s \in SUBSET S, s # {}
      PROVE  /\ s \ {pick[s]} \in SUBSET S /\ Cardinality(s \ {pick[s]}) = Cardinality(s) - 1
             /\ Cardinality(s) # 0
  <2>1. s \in (SUBSET S) \ {{}}
    BY <1>2
  <2>2. pick[s] \in s
    BY <2>1
  <2> QED
    BY <1>1, <2>2, FS_RemoveElement, FS_EmptySet
<1>3. Good(0, [s \in small(0) |-> base])
  <2>1. \A s \in small(0) : s = {}
    <3> TAKE s \in small(0)
    <3>1. Cardinality(s) = 0 /\ s \in SUBSET S
      BY <1>1
    <3> QED
      BY <1>2, <3>1
  <2> QED
    BY <2>1
<1>4. ASSUME NEW n \in Nat, NEW h, Good(n, h)
      PROVE  \E k : Good(n + 1, k)
  <2> DEFINE k == [s \in small(n + 1) |-> IF s = {} THEN base ELSE step[s][h[s \ {pick[s]}]]]
  <2>1. \A s \in small(n + 1) : s # {} => s \ {pick[s]} \in small(n)
    BY <1>1, <1>2
  <2>2. k \in [small(n + 1) -> V]
    BY <2>1, <1>4
  <2>3. ASSUME NEW s \in small(n) PROVE k[s] = h[s] /\ s \in small(n + 1)
    <3>1. s \in small(n + 1)
      BY <1>1
    <3>2. h[s] = IF s = {} THEN base ELSE step[s][h[s \ {pick[s]}]]
      BY <1>4
    <3> QED
      BY <3>1, <3>2
  <2>4. \A s \in small(n + 1) : s # {} => k[s \ {pick[s]}] = h[s \ {pick[s]}]
    BY <2>1, <2>3
  <2>5. Good(n + 1, k)
    BY <2>2, <2>4
  <2> QED
    BY <2>5
<1> HIDE DEF Good
<1>5. G = Nat
  <2>1. 0 \in G
    BY <1>3
  <2>2. \A n \in G : n + 1 \in G
    <3> TAKE n \in G
    <3>1. n \in Nat /\ \E h : Good(n, h)
      OBVIOUS
    <3>2. n + 1 \in Nat /\ \E h : Good(n + 1, h)
      BY <1>4, <3>1
    <3> QED
      BY <3>2
  <2>3. G \in SUBSET Nat
    OBVIOUS
  <2> HIDE DEF G
  <2> QED
    BY <2>1, <2>2, <2>3, NatClosed
<1>6. Cardinality(S) \in Nat /\ small(Cardinality(S)) = SUBSET S
  BY <1>1
<1>7. PICK h : Good(Cardinality(S), h)
  BY <1>5, <1>6
<1> HIDE DEF small
<1>8. /\ h \in [SUBSET S -> V]
      /\ \A s \in SUBSET S : h[s] = IF s = {} THEN base ELSE step[s][h[s \ {pick[s]}]]
  BY <1>6, <1>7 DEF Good
<1> QED
  BY <1>8 DEF Folds

\* Induction, over an initial segment.
LEMMA UpTo ==
  ASSUME NEW n \in Nat, NEW G, 0 \in G, \A k \in 1..n : k - 1 \in G => k \in G
  PROVE  \A k \in 0..n : k \in G
<1> DEFINE H == {k \in Nat : k <= n => k \in G}
<1>1. 0 \in H
  OBVIOUS
<1>2. ASSUME NEW k \in H PROVE k + 1 \in H
  <2>1. k \in Nat /\ (k <= n => k \in G)
    BY <1>2
  <2>2. k + 1 <= n => k + 1 \in 1..n /\ (k + 1) - 1 = k /\ k <= n
    BY <2>1
  <2>3. k + 1 <= n => k + 1 \in G
    BY <2>1, <2>2
  <2> QED
    BY <2>1, <2>3
<1>3. H \in SUBSET Nat
  OBVIOUS
<1> HIDE DEF H
<1>4. H = Nat
  BY <1>1, <1>2, <1>3, NatClosed
<1> QED
  BY <1>4 DEF H

\* The numbers up to n have a greatest among any of them.
LEMMA Greatest ==
  ASSUME NEW n \in Nat, NEW s \in SUBSET (1..n), s # {}
  PROVE  Max(s) \in s /\ \A i \in s : Max(s) >= i
<1> DEFINE N == {n - i : i \in s}
<1>1. N \in SUBSET Nat /\ N # {}
  <2>1. \A i \in s : n - i \in Nat
    OBVIOUS
  <2> QED
    BY <2>1
<1>2. \E m \in N : \A k \in N : m <= k
  <2> HIDE DEF N
  <2>1. PICK m \in N : \A k \in N : <<k, m>> \notin OpToRel(<, Nat)
    BY <1>1, NatLessThanWellFounded, WFMin
  <2>2. \A k \in N : ~(k < m)
    BY <1>1, <2>1 DEF OpToRel
  <2> QED
    BY <1>1, <2>2
<1>3. PICK i \in s : \A j \in s : n - i <= n - j
  BY <1>2
<1>4. \A j \in s : i >= j
  BY <1>3
<1> QED
  BY <1>4 DEF Max

\* The numbers up to k, as such a set: the greatest is k.
LEMMA Prefix ==
  ASSUME NEW n \in Nat, NEW k \in 1..n
  PROVE  /\ 1..k \in SUBSET (1..n) /\ 1..k # {} /\ Max(1..k) = k
         /\ (1..k) \ {k} = 1..k - 1
<1>1. 1..k \in SUBSET (1..n) /\ k \in 1..k
  OBVIOUS
<1>2. Max(1..k) \in 1..k /\ \A i \in 1..k : Max(1..k) >= i
  BY <1>1, Greatest
<1>3. Max(1..k) = k
  <2>1. Max(1..k) >= k
    BY <1>1, <1>2
  <2> QED
    BY <1>2, <2>1
<1> QED
  BY <1>1, <1>3

\* The fold over the numbers up to n, greatest last.
FoldsUp(h, n, base, step) ==
  \A s \in SUBSET (1..n) : h[s] = IF s = {} THEN base ELSE step[Max(s)][h[s \ {Max(s)}]]

\* Such a fold exists.
LEMMA FoldUp ==
  ASSUME NEW n \in Nat, NEW V, NEW base \in V, NEW step \in [1..n -> [V -> V]]
  PROVE  \E h \in [SUBSET (1..n) -> V] : FoldsUp(h, n, base, step)
<1> DEFINE S == 1..n
           pick == [s \in (SUBSET S) \ {{}} |-> Max(s)]
           by == [s \in SUBSET S |-> IF s = {} THEN [v \in V |-> v] ELSE step[Max(s)]]
<1>1. IsFiniteSet(S)
  BY FS_Interval
<1>2. \A s \in SUBSET S : s # {} => pick[s] = Max(s)
  OBVIOUS
<1>3. pick \in [(SUBSET S) \ {{}} -> S] /\ \A s \in (SUBSET S) \ {{}} : pick[s] \in s
  BY Greatest
<1>4. by \in [SUBSET S -> [V -> V]]
  BY Greatest
<1>5. \A s \in SUBSET S : s # {} => by[s] = step[Max(s)]
  OBVIOUS
<1> HIDE DEF by, pick, S
<1>6. PICK h \in [SUBSET S -> V] :
        Folds(h, S, base, by, pick)
  BY <1>1, <1>3, <1>4, FoldExists
<1>7. ASSUME NEW s \in SUBSET S
      PROVE  h[s] = IF s = {} THEN base ELSE step[Max(s)][h[s \ {Max(s)}]]
  BY <1>2, <1>5, <1>6 DEF Folds
<1> QED
  BY <1>6, <1>7 DEF S, FoldsUp

-----------------------------------------------------------------------------
(* Redaction.                                                              *)

\* What is used of the patterns.
LEMMA NinePatterns ==
  /\ DOMAIN Patterns = 1..9
  /\ \A i \in 1..9 : Patterns[i].token \in Secrets /\ Patterns[i].token # "redacted"
  /\ "redacted" \notin Secrets
<1>1. DOMAIN Patterns = 1..9
  BY DEF Patterns
<1>2. ASSUME NEW i \in 1..9  PROVE Patterns[i].token # "redacted"
  <2>1. CASE i = 1
    BY <2>1 DEF Patterns, Pattern
  <2>2. CASE i = 2
    BY <2>2 DEF Patterns, Pattern
  <2>3. CASE i = 3
    BY <2>3 DEF Patterns, Pattern
  <2>4. CASE i = 4
    BY <2>4 DEF Patterns, Pattern
  <2>5. CASE i = 5
    BY <2>5 DEF Patterns, Pattern
  <2>6. CASE i = 6
    BY <2>6 DEF Patterns, Pattern
  <2>7. CASE i = 7
    BY <2>7 DEF Patterns, Pattern
  <2>8. CASE i = 8
    BY <2>8 DEF Patterns, Pattern
  <2>9. CASE i = 9
    BY <2>9 DEF Patterns, Pattern
  <2> QED
    BY <2>1, <2>2, <2>3, <2>4, <2>5, <2>6, <2>7, <2>8, <2>9
<1> QED
  BY <1>1, <1>2 DEF Secrets

\* A replacement takes one token.
LEMMA SubstituteType ==
  ASSUME NEW n \in Nat, NEW text \in [1..n -> Tokens], NEW pattern
  PROVE  Substitute(text, pattern) \in [1..n -> Tokens]
BY DEF Substitute, Tokens

\* The patterns are applied one after the other.
LEMMA OneByOne ==
  ASSUME NEW n \in Nat, NEW text \in [1..n -> Tokens]
  PROVE  \E h : /\ h[1..0] = text
                /\ \A k \in 1..9 : h[1..k] = Substitute(h[1..k - 1], Patterns[k])
                /\ Redact(text) = h[1..9]
<1> DEFINE T == [1..n -> Tokens]
           step == [k \in 1..9 |-> [t \in T |-> Substitute(t, Patterns[k])]]
           Unfolds(h) == h = [s \in SUBSET DOMAIN Patterns |->
                                IF s = {} THEN text
                                ELSE Substitute(h[s \ {Max(s)}], Patterns[Max(s)])]
<1>1. \E h : Unfolds(h)
  <2>1. step \in [1..9 -> [T -> T]]
    BY SubstituteType
  <2> HIDE DEF T
  <2>2. PICK h \in [SUBSET (1..9) -> T] : FoldsUp(h, 9, text, step)
    <3>1. 9 \in Nat /\ text \in T
      BY DEF T
    <3> HIDE DEF step
    <3> QED
      BY <2>1, <3>1, FoldUp
  <2>3. ASSUME NEW s \in SUBSET (1..9), s # {}
        PROVE  h[s] = Substitute(h[s \ {Max(s)}], Patterns[Max(s)])
    <3>1. Max(s) \in 1..9 /\ h[s \ {Max(s)}] \in T
      BY <2>3, Greatest
    <3>2. h[s] = step[Max(s)][h[s \ {Max(s)}]]
      BY <2>2, <2>3 DEF FoldsUp
    <3> QED
      BY <3>1, <3>2
  <2>4. h[{}] = text
    BY <2>2 DEF FoldsUp
  <2>5. h = [s \in SUBSET (1..9) |-> h[s]]
    OBVIOUS
  <2>6. Unfolds(h)
    BY <2>3, <2>4, <2>5, NinePatterns
  <2> QED
    BY <2>6
<1>2. PICK h : Unfolds(h) /\ Redact(text) = h[DOMAIN Patterns]
  BY <1>1 DEF Redact, FoldLeft, MapThenFoldSet
<1>3. \A s \in SUBSET (1..9) : h[s] = IF s = {} THEN text
                                     ELSE Substitute(h[s \ {Max(s)}], Patterns[Max(s)])
  BY <1>2, NinePatterns
<1>4. h[1..0] = text
  <2>1. 1..0 = {}
    OBVIOUS
  <2> QED
    BY <1>3, <2>1
<1>5. ASSUME NEW k \in 1..9 PROVE h[1..k] = Substitute(h[1..k - 1], Patterns[k])
  <2>1. /\ 1..k \in SUBSET (1..9) /\ 1..k # {} /\ Max(1..k) = k
        /\ (1..k) \ {k} = 1..k - 1
    BY Prefix
  <2> QED
    BY <1>3, <2>1
<1> QED
  BY <1>2, <1>4, <1>5, NinePatterns

\* Redaction keeps the length.
LEMMA RedactType ==
  ASSUME NEW text \in Seq(Tokens)
  PROVE  Redact(text) \in Seq(Tokens) /\ DOMAIN Redact(text) = DOMAIN text
<1> DEFINE n == Len(text)
<1>1. n \in Nat /\ text \in [1..n -> Tokens]
  BY LenProperties
<1>2. PICK h : /\ h[1..0] = text
               /\ \A k \in 1..9 : h[1..k] = Substitute(h[1..k - 1], Patterns[k])
               /\ Redact(text) = h[1..9]
  BY <1>1, OneByOne
<1> DEFINE G == {k \in 0..9 : h[1..k] \in [1..n -> Tokens]}
<1>3. 0 \in G
  BY <1>1, <1>2
<1>4. ASSUME NEW k \in 1..9, k - 1 \in G PROVE k \in G
  <2>1. h[1..k - 1] \in [1..n -> Tokens] /\ k \in 0..9
    BY <1>4
  <2>2. h[1..k] = Substitute(h[1..k - 1], Patterns[k])
    BY <1>2
  <2>3. h[1..k] \in [1..n -> Tokens]
    BY <1>1, <2>1, <2>2, SubstituteType
  <2> QED
    BY <2>1, <2>3
<1>5. 9 \in G
  <2> HIDE DEF G
  <2>1. \A k \in 0..9 : k \in G
    BY <1>3, <1>4, UpTo
  <2> QED
    BY <2>1
<1>6. Redact(text) \in [1..n -> Tokens]
  BY <1>2, <1>5
<1> QED
  BY <1>1, <1>6, SeqDef

\* text once the first k patterns have been applied, if its secrets are words of
\* their own: a replacement is a boundary, too.
Blanked(text, k) ==
  [j \in DOMAIN text |-> IF \E i \in 1..k : text[j] = Patterns[i].token THEN "redacted"
                                                                       ELSE text[j]]

\* If the secrets are words of their own, the next pattern finds all of its own:
\* what has been replaced is no word character, either.
LEMMA BlankNext ==
  ASSUME NEW text \in Seq(Tokens), Separate(text), NEW k \in 1..9
  PROVE  Substitute(Blanked(text, k - 1), Patterns[k]) = Blanked(text, k)
<1> DEFINE b == Blanked(text, k - 1)
<1>1. /\ DOMAIN b = DOMAIN text /\ DOMAIN text = 1..Len(text) /\ Len(text) \in Nat
      /\ Len(b) = Len(text)
  <2>1. DOMAIN text = 1..Len(text) /\ Len(text) \in Nat /\ DOMAIN b = DOMAIN text
    BY LenProperties DEF Blanked
  <2>2. \A j \in DOMAIN text : b[j] \in Tokens
    BY ElementOfSeq, <2>1 DEF Blanked, Tokens
  <2>3. b \in [1..Len(text) -> Tokens]
    BY <2>1, <2>2 DEF Blanked
  <2>4. b \in Seq(Tokens)
    BY <2>1, <2>3, SeqDef
  <2>5. Len(b) = Len(text)
    BY <2>1, <2>4, LenProperties
  <2> QED
    BY <2>1, <2>5
<1>2. ASSUME NEW j \in DOMAIN text
      PROVE  Substitute(b, Patterns[k])[j] = Blanked(text, k)[j]
  <2>1. Patterns[k].token \in Secrets /\ Patterns[k].token # "redacted"
    BY NinePatterns
  <2>2. \A i : (i \in 1..k) <=> (i \in 1..k - 1 \/ i = k)
    OBVIOUS
  <2>3. Substitute(b, Patterns[k])[j] = IF Matches(Patterns[k], b, j) THEN "redacted" ELSE b[j]
    BY <1>1 DEF Substitute
  <2>4. /\ b[j] = IF \E i \in 1..k - 1 : text[j] = Patterns[i].token THEN "redacted" ELSE text[j]
        /\ Blanked(text, k)[j] = IF \E i \in 1..k : text[j] = Patterns[i].token THEN "redacted"
                                                                              ELSE text[j]
    BY DEF Blanked
  <2>5. CASE text[j] # Patterns[k].token \/ \E i \in 1..k - 1 : text[j] = Patterns[i].token
    <3>1. b[j] # Patterns[k].token
      BY <2>1, <2>4, <2>5
    <3>2. ~Matches(Patterns[k], b, j)
      BY <3>1 DEF Matches
    <3>3. b[j] = Blanked(text, k)[j]
      BY <2>2, <2>4, <2>5
    <3> QED
      BY <2>3, <3>2, <3>3
  <2>6. CASE text[j] = Patterns[k].token /\ ~\E i \in 1..k - 1 : text[j] = Patterns[i].token
    <3>1. b[j] = Patterns[k].token /\ Blanked(text, k)[j] = "redacted"
      BY <2>2, <2>4, <2>6
    <3>2. BoundaryBefore(text, j) /\ BoundaryAfter(text, j)
      BY <2>1, <2>6 DEF Separate
    <3>3. \A i \in DOMAIN text : b[i] = text[i] \/ b[i] = "redacted"
      BY DEF Blanked
    <3>4. BoundaryBefore(b, j)
      <4>1. CASE j = 1
        BY <4>1 DEF BoundaryBefore
      <4>2. CASE j # 1
        <5>1. j - 1 \in DOMAIN text /\ text[j - 1] \in EndsOutside
          BY <1>1, <3>2, <4>2 DEF BoundaryBefore
        <5> QED
          BY <3>3, <5>1 DEF BoundaryBefore, EndsOutside
      <4> QED
        BY <4>1, <4>2
    <3>5. BoundaryAfter(b, j)
      <4>1. CASE j = Len(text)
        BY <1>1, <4>1 DEF BoundaryAfter
      <4>2. CASE j # Len(text)
        <5>1. j + 1 \in DOMAIN text /\ text[j + 1] \in StartsOutside
          BY <1>1, <3>2, <4>2 DEF BoundaryAfter
        <5> QED
          BY <3>3, <5>1 DEF BoundaryAfter, StartsOutside
      <4> QED
        BY <4>1, <4>2
    <3>6. Matches(Patterns[k], b, j)
      BY <3>1, <3>4, <3>5 DEF Matches
    <3> QED
      BY <2>3, <3>1, <3>6
  <2> QED
    BY <2>5, <2>6
<1>3. DOMAIN Substitute(b, Patterns[k]) = DOMAIN text /\ DOMAIN Blanked(text, k) = DOMAIN text
  BY <1>1 DEF Substitute, Blanked
<1>4. /\ Substitute(b, Patterns[k]) = [j \in DOMAIN text |-> Substitute(b, Patterns[k])[j]]
      /\ Blanked(text, k) = [j \in DOMAIN text |-> Blanked(text, k)[j]]
  BY <1>1 DEF Substitute, Blanked
<1> QED
  BY <1>2, <1>4

\* So redaction replaces the secrets and nothing else ...
LEMMA RedactSeparate ==
  ASSUME NEW text \in Seq(Tokens), Separate(text)
  PROVE  Redact(text) = [j \in DOMAIN text |-> IF text[j] \in Secrets THEN "redacted" ELSE text[j]]
<1> DEFINE n == Len(text)
<1>1. n \in Nat /\ text \in [1..n -> Tokens] /\ DOMAIN text = 1..n
  BY LenProperties
<1>2. PICK h : /\ h[1..0] = text
               /\ \A k \in 1..9 : h[1..k] = Substitute(h[1..k - 1], Patterns[k])
               /\ Redact(text) = h[1..9]
  BY <1>1, OneByOne
<1> DEFINE G == {k \in 0..9 : h[1..k] = Blanked(text, k)}
<1>3. 0 \in G
  <2>1. Blanked(text, 0) = [j \in DOMAIN text |-> text[j]]
    BY DEF Blanked
  <2>2. text = [j \in DOMAIN text |-> text[j]]
    BY <1>1
  <2> QED
    BY <1>2, <2>1, <2>2
<1>4. ASSUME NEW k \in 1..9, k - 1 \in G PROVE k \in G
  <2>1. h[1..k - 1] = Blanked(text, k - 1) /\ k \in 0..9
    BY <1>4
  <2> QED
    BY <1>2, <2>1, BlankNext
<1>5. 9 \in G
  <2> HIDE DEF G
  <2>1. \A k \in 0..9 : k \in G
    BY <1>3, <1>4, UpTo
  <2> QED
    BY <2>1
<1>6. \A x : x \in Secrets <=> \E i \in 1..9 : x = Patterns[i].token
  BY NinePatterns DEF Secrets
<1>7. Blanked(text, 9) = [j \in DOMAIN text |-> IF text[j] \in Secrets THEN "redacted" ELSE text[j]]
  BY <1>6 DEF Blanked
<1> QED
  BY <1>2, <1>5, <1>7

\* What is proved of a redacted text: its secrets are gone, all else is there,
\* and redacting it again changes nothing.
LEMMA RedactTwice ==
  ASSUME NEW text \in Seq(Tokens), Separate(text)
  PROVE  Redact(Redact(text)) = Redact(text)
<1> DEFINE r == Redact(text)
<1>1. r \in Seq(Tokens) /\ DOMAIN r = DOMAIN text
  BY RedactType
<1>2. \A j \in DOMAIN r : r[j] \notin Secrets
  BY <1>1, RedactSeparate, NinePatterns
<1>3. Separate(r)
  BY <1>2 DEF Separate
<1>4. Redact(r) = [j \in DOMAIN r |-> IF r[j] \in Secrets THEN "redacted" ELSE r[j]]
  BY <1>1, <1>3, RedactSeparate
<1>5. r = [j \in DOMAIN r |-> r[j]]
  BY RedactSeparate
<1> HIDE DEF r
<1> QED
  BY <1>2, <1>4, <1>5 DEF r

-----------------------------------------------------------------------------
(* What is asked for, and the sums of a report.                            *)

\* The identifiers of an inventory are a list of strings.
LEMMA KeysType ==
  ASSUME NEW document \in Seq(ItemType)
  PROVE  KeysOf(document) \in Seq(STRING)
<1> DEFINE n == Len(document)
           K == Seq(STRING)
           With(keys, item) == IF Contains(keys, item.id) THEN keys ELSE Append(keys, item.id)
           step == [k \in 1..n |-> [keys \in K |-> With(keys, document[k])]]
           Unfolds(h) == h = [s \in SUBSET DOMAIN document |->
                                IF s = {} THEN <<>> ELSE With(h[s \ {Max(s)}], document[Max(s)])]
<1>1. n \in Nat /\ DOMAIN document = 1..n
  BY LenProperties
<1>2. ASSUME NEW keys \in K, NEW k \in 1..n PROVE With(keys, document[k]) \in K
  <2>1. document[k].id \in STRING
    <3>1. document[k] \in ItemType
      BY <1>1, ElementOfSeq
    <3> QED
      BY <3>1 DEF ItemType
  <2> QED
    BY <2>1, AppendProperties
<1>3. <<>> \in K
  OBVIOUS
<1> HIDE DEF With, K
<1>4. \E h : Unfolds(h)
  <2>1. step \in [1..n -> [K -> K]]
    BY <1>2
  <2>2. PICK h \in [SUBSET (1..n) -> K] : FoldsUp(h, n, <<>>, step)
    <3> HIDE DEF step
    <3> QED
      BY <1>1, <1>3, <2>1, FoldUp
  <2>3. ASSUME NEW s \in SUBSET (1..n), s # {}
        PROVE  h[s] = With(h[s \ {Max(s)}], document[Max(s)])
    <3>1. Max(s) \in 1..n /\ h[s \ {Max(s)}] \in K
      BY <1>1, <2>3, Greatest
    <3>2. h[s] = step[Max(s)][h[s \ {Max(s)}]]
      BY <2>2, <2>3 DEF FoldsUp
    <3> QED
      BY <3>1, <3>2
  <2>4. h[{}] = <<>>
    BY <2>2 DEF FoldsUp
  <2>5. h = [s \in SUBSET (1..n) |-> h[s]]
    OBVIOUS
  <2>6. Unfolds(h)
    BY <1>1, <2>3, <2>4, <2>5
  <2> QED
    BY <2>6
<1>5. PICK h : Unfolds(h) /\ KeysOf(document) = h[DOMAIN document]
  BY <1>4 DEF KeysOf, FoldLeft, MapThenFoldSet, With
<1> DEFINE G == {k \in 0..n : h[1..k] \in K}
<1>6. 0 \in G
  <2>1. h[{}] = <<>> /\ 1..0 = {}
    BY <1>5
  <2> QED
    BY <1>1, <1>3, <2>1
<1>7. ASSUME NEW k \in 1..n, k - 1 \in G PROVE k \in G
  <2>1. /\ 1..k \in SUBSET (1..n) /\ 1..k # {} /\ Max(1..k) = k /\ (1..k) \ {k} = 1..k - 1
    BY <1>1, Prefix
  <2>2. h[1..k] = With(h[1..k - 1], document[k])
    BY <1>1, <1>5, <2>1
  <2>3. h[1..k - 1] \in K /\ k \in 0..n
    BY <1>1, <1>7
  <2> QED
    BY <1>2, <2>2, <2>3
<1>8. n \in G
  <2> HIDE DEF G
  <2>1. \A k \in 0..n : k \in G
    BY <1>1, <1>6, <1>7, UpTo
  <2> QED
    BY <1>1, <2>1
<1> QED
  BY <1>1, <1>5, <1>8 DEF K

\* Results with finitely many findings each.
Countable(rs) == /\ Len(rs) \in Nat /\ DOMAIN rs = 1..Len(rs)
                 /\ \A i \in 1..Len(rs) : IsFiniteSet(rs[i].findings)

\* A status is counted as often as it is found.
LEMMA StatusCounts ==
  ASSUME NEW findings, IsFiniteSet(findings), NEW status
  PROVE  /\ StatusCount(findings, status) \in Nat
         /\ StatusCount(findings, status) = 0 <=> \A f \in findings : f.status # status
<1> DEFINE these == {f \in findings : f.status = status}
<1>1. IsFiniteSet(these)
  BY FS_Subset
<1>2. these = {} <=> \A f \in findings : f.status # status
  OBVIOUS
<1> HIDE DEF these
<1>3. Cardinality(these) \in Nat /\ (Cardinality(these) = 0 <=> these = {})
  BY <1>1, FS_CardinalityType, FS_EmptySet
<1> QED
  BY <1>2, <1>3 DEF StatusCount, these

\* The sums over the results, as far as they have been added up.
LEMMA SumsOneByOne ==
  ASSUME NEW rs, Countable(rs), NEW status \in STATUS_ORDER
  PROVE  \E sum \in [0..Len(rs) -> Nat] :
           /\ sum[0] = 0
           /\ \A k \in 1..Len(rs) : sum[k] = sum[k - 1] + StatusCount(rs[k].findings, status)
           /\ Counts(rs)[status] = sum[Len(rs)]
<1> DEFINE n == Len(rs)
           add(k) == StatusCount(rs[k].findings, status)
           step == [k \in 1..n |-> [m \in Nat |-> m + add(k)]]
           Unfolds(h) == h = [s \in SUBSET DOMAIN rs |->
                                IF s = {} THEN 0 ELSE h[s \ {Max(s)}] + add(Max(s))]
<1>1. n \in Nat /\ DOMAIN rs = 1..n
  BY DEF Countable
<1>2. \A k \in 1..n : add(k) \in Nat
  BY <1>1, StatusCounts DEF Countable
<1>3. \E h : Unfolds(h)
  <2> HIDE DEF add
  <2>1. step \in [1..n -> [Nat -> Nat]]
    BY <1>2
  <2>2. PICK h \in [SUBSET (1..n) -> Nat] : FoldsUp(h, n, 0, step)
    <3> HIDE DEF step
    <3> QED
      BY <1>1, <2>1, FoldUp
  <2>3. ASSUME NEW s \in SUBSET (1..n), s # {}
        PROVE  h[s] = h[s \ {Max(s)}] + add(Max(s))
    <3>1. Max(s) \in 1..n /\ h[s \ {Max(s)}] \in Nat
      BY <1>1, <2>3, Greatest
    <3>2. h[s] = step[Max(s)][h[s \ {Max(s)}]]
      BY <2>2, <2>3 DEF FoldsUp
    <3> QED
      BY <3>1, <3>2
  <2>4. h[{}] = 0
    BY <2>2 DEF FoldsUp
  <2>5. h = [s \in SUBSET (1..n) |-> h[s]]
    OBVIOUS
  <2>6. Unfolds(h)
    BY <1>1, <2>3, <2>4, <2>5
  <2> QED
    BY <2>6
<1>4. PICK h : Unfolds(h) /\ Counts(rs)[status] = h[DOMAIN rs]
  BY <1>3 DEF Counts, FoldLeft, MapThenFoldSet
<1>5. h[1..0] = 0
  <2>1. h[{}] = 0 /\ 1..0 = {}
    BY <1>4
  <2> QED
    BY <2>1
<1>6. ASSUME NEW k \in 1..n PROVE h[1..k] = h[1..k - 1] + add(k)
  <2>1. /\ 1..k \in SUBSET (1..n) /\ 1..k # {} /\ Max(1..k) = k /\ (1..k) \ {k} = 1..k - 1
    BY <1>1, Prefix
  <2> HIDE DEF add
  <2> QED
    BY <1>1, <1>4, <2>1
<1> DEFINE sum == [k \in 0..n |-> h[1..k]]
           G == {k \in 0..n : h[1..k] \in Nat}
<1> HIDE DEF add, Unfolds
<1>7. sum \in [0..n -> Nat]
  <2>1. 0 \in G
    BY <1>1, <1>5
  <2>2. ASSUME NEW k \in 1..n, k - 1 \in G PROVE k \in G
    <3>1. h[1..k - 1] \in Nat /\ k \in 0..n
      BY <1>1, <2>2
    <3> QED
      BY <1>2, <1>6, <3>1
  <2> HIDE DEF G
  <2>3. \A k \in 0..n : k \in G
    BY <1>1, <2>1, <2>2, UpTo
  <2> QED
    BY <2>3 DEF G
<1>8. /\ sum[0] = 0 /\ sum[n] = h[1..n]
      /\ \A k \in 1..n : sum[k] = sum[k - 1] + add(k)
  BY <1>1, <1>5, <1>6
<1> QED
  BY <1>1, <1>4, <1>7, <1>8 DEF add

\* A sum is 0 only if every result adds 0 to it.
LEMMA NothingCounted ==
  ASSUME NEW rs, Countable(rs), NEW status \in STATUS_ORDER
  PROVE  /\ Counts(rs)[status] \in Nat
         /\ Counts(rs)[status] = 0 =>
              \A i \in 1..Len(rs) : \A f \in rs[i].findings : f.status # status
<1> DEFINE n == Len(rs)
<1>1. n \in Nat
  BY DEF Countable
<1>2. PICK sum \in [0..n -> Nat] :
        /\ sum[0] = 0
        /\ \A k \in 1..n : sum[k] = sum[k - 1] + StatusCount(rs[k].findings, status)
        /\ Counts(rs)[status] = sum[n]
  BY SumsOneByOne
<1>3. \A k \in 1..n : StatusCount(rs[k].findings, status) \in Nat
  BY StatusCounts DEF Countable
<1> DEFINE G == {k \in 0..n : sum[k] = 0 => \A i \in 1..k : StatusCount(rs[i].findings, status) = 0}
<1>4. 0 \in G
  BY <1>1
<1>5. ASSUME NEW k \in 1..n, k - 1 \in G PROVE k \in G
  <2>1. k \in 0..n /\ k - 1 \in 0..n
    BY <1>1
  <2>2. ASSUME sum[k] = 0
        PROVE  \A i \in 1..k : StatusCount(rs[i].findings, status) = 0
    <3>1. sum[k - 1] = 0 /\ StatusCount(rs[k].findings, status) = 0
      <4> DEFINE c == StatusCount(rs[k].findings, status)
      <4>1. c \in Nat /\ sum[k - 1] \in Nat /\ sum[k] = sum[k - 1] + c
        BY <1>2, <1>3, <2>1
      <4> HIDE DEF c
      <4>2. sum[k - 1] = 0 /\ c = 0
        BY <2>2, <4>1
      <4> QED
        BY <4>2 DEF c
    <3>2. \A i \in 1..k - 1 : StatusCount(rs[i].findings, status) = 0
      BY <1>5, <3>1
    <3>3. \A i \in 1..k : i \in 1..k - 1 \/ i = k
      OBVIOUS
    <3> QED
      BY <3>1, <3>2, <3>3
  <2> QED
    BY <2>1, <2>2
<1>6. n \in G
  <2> HIDE DEF G
  <2>1. \A k \in 0..n : k \in G
    BY <1>1, <1>4, <1>5, UpTo
  <2> QED
    BY <1>1, <2>1
<1>7. Counts(rs)[status] \in Nat
  BY <1>1, <1>2
<1>8. ASSUME Counts(rs)[status] = 0, NEW i \in 1..n
      PROVE  \A f \in rs[i].findings : f.status # status
  <2>1. StatusCount(rs[i].findings, status) = 0 /\ IsFiniteSet(rs[i].findings)
    BY <1>2, <1>6, <1>8 DEF Countable
  <2> QED
    BY <2>1, StatusCounts
<1> QED
  BY <1>7, <1>8

-----------------------------------------------------------------------------
(* The devices of a report add up to its totals.                           *)

\* What the library's fold of a set takes from it next.
Member(s) == CHOOSE x \in s : TRUE

\* The element a fold over a set takes next.
LEMMA MemberOf == ASSUME NEW s, s # {} PROVE Member(s) \in s
BY DEF Member

\* Induction over the subsets of a finite set.
LEMMA BySubsets ==
  ASSUME NEW D, IsFiniteSet(D), NEW G, {} \in G,
         \A s \in SUBSET D : s # {} /\ s \ {Member(s)} \in G => s \in G
  PROVE  \A s \in SUBSET D : s \in G
<1> DEFINE H == {m \in Nat : \A s \in SUBSET D : Cardinality(s) <= m => s \in G}
<1>1. \A s \in SUBSET D : /\ IsFiniteSet(s) /\ Cardinality(s) \in Nat
                          /\ Cardinality(s) = 0 <=> s = {}
  BY FS_Subset, FS_CardinalityType, FS_EmptySet
<1>2. ASSUME NEW m \in H PROVE m + 1 \in H
  <2> SUFFICES ASSUME NEW s \in SUBSET D, Cardinality(s) <= m + 1, s # {}
               PROVE  s \in G
    BY <1>2
  <2>1. Cardinality(s \ {Member(s)}) = Cardinality(s) - 1
    BY <1>1, MemberOf, FS_RemoveElement
  <2>2. Cardinality(s \ {Member(s)}) <= m
    BY <1>1, <1>2, <2>1
  <2>3. s \ {Member(s)} \in G
    BY <1>2, <2>2
  <2> QED
    BY <2>3
<1>3. 0 \in H
  BY <1>1
<1>4. H \in SUBSET Nat
  OBVIOUS
<1> HIDE DEF H
<1>5. H = Nat
  BY <1>2, <1>3, <1>4, NatClosed
<1> QED
  BY <1>1, <1>5 DEF H

\* h[s] is the sum of f over s.
Sums(h, D, f) ==
  \A s \in SUBSET D : h[s] = IF s = {} THEN 0 ELSE h[s \ {Member(s)}] + f[Member(s)]

\* There is a sum ...
LEMMA SumsExist ==
  ASSUME NEW D, IsFiniteSet(D), NEW f \in [D -> Nat]
  PROVE  \E h \in [SUBSET D -> Nat] : Sums(h, D, f)
<1> DEFINE pick == [s \in (SUBSET D) \ {{}} |-> Member(s)]
           step == [s \in SUBSET D |-> [m \in Nat |-> IF s = {} THEN 0 ELSE m + f[Member(s)]]]
<1>1. pick \in [(SUBSET D) \ {{}} -> D] /\ \A s \in (SUBSET D) \ {{}} : pick[s] \in s
  BY MemberOf
<1>2. step \in [SUBSET D -> [Nat -> Nat]]
  <2>1. ASSUME NEW s \in SUBSET D, s # {} PROVE f[Member(s)] \in Nat
    BY <2>1, MemberOf
  <2> QED
    BY <2>1
<1>3. PICK h \in [SUBSET D -> Nat] : Folds(h, D, 0, step, pick)
  <2> HIDE DEF pick, step
  <2> QED
    BY <1>1, <1>2, FoldExists
<1>4. ASSUME NEW s \in SUBSET D, s # {} PROVE h[s] = h[s \ {Member(s)}] + f[Member(s)]
  <2>1. pick[s] = Member(s) /\ h[s \ {Member(s)}] \in Nat
    BY <1>4
  <2>2. h[s] = step[s][h[s \ {pick[s]}]]
    BY <1>3, <1>4 DEF Folds
  <2> QED
    BY <1>4, <2>1, <2>2
<1>5. h[{}] = 0
  BY <1>3 DEF Folds
<1> QED
  BY <1>4, <1>5 DEF Sums

\* ... which is a number ...
LEMMA SumsType ==
  ASSUME NEW D, IsFiniteSet(D), NEW f \in [D -> Nat], NEW h, Sums(h, D, f)
  PROVE  \A s \in SUBSET D : h[s] \in Nat
<1> DEFINE G == {s \in SUBSET D : h[s] \in Nat}
<1>1. {} \in G
  BY DEF Sums
<1>2. ASSUME NEW s \in SUBSET D, s # {}, s \ {Member(s)} \in G  PROVE s \in G
  <2>1. f[Member(s)] \in Nat /\ h[s \ {Member(s)}] \in Nat
    BY <1>2, MemberOf
  <2>2. h[s] = h[s \ {Member(s)}] + f[Member(s)]
    BY <1>2 DEF Sums
  <2> QED
    BY <2>1, <2>2
<1> HIDE DEF G
<1>3. \A s \in SUBSET D : s \in G
  BY <1>1, <1>2, BySubsets
<1> QED
  BY <1>3 DEF G

\* Nothing adds up to nothing.
LEMMA SumOfNone ==
  ASSUME NEW D, IsFiniteSet(D), NEW h, Sums(h, D, [d \in D |-> 0])
  PROVE  h[D] = 0
<1> DEFINE G == {s \in SUBSET D : h[s] = 0}
<1>1. {} \in G
  BY DEF Sums
<1>2. ASSUME NEW s \in SUBSET D, s # {}, s \ {Member(s)} \in G  PROVE s \in G
  <2>1. Member(s) \in D
    BY <1>2, MemberOf
  <2>2. [d \in D |-> 0][Member(s)] = 0
    BY <2>1
  <2>3. h[s] = h[s \ {Member(s)}] + [d \in D |-> 0][Member(s)]
    BY <1>2 DEF Sums
  <2>4. h[s \ {Member(s)}] = 0
    BY <1>2
  <2> QED
    BY <2>2, <2>3, <2>4
<1> HIDE DEF G
<1>3. \A s \in SUBSET D : s \in G
  BY <1>1, <1>2, BySubsets
<1> QED
  BY <1>3 DEF G

\* What is added to one term is added to the sum.
Adds(f, g, D, e, c) == g[e] = f[e] + c /\ \A d \in D : d # e => g[d] = f[d]

\* One more at e is one more in the sum.
LEMMA SumWithMore ==
  ASSUME NEW D, IsFiniteSet(D), NEW f \in [D -> Nat], NEW e \in D, NEW c \in Nat,
         NEW g \in [D -> Nat], Adds(f, g, D, e, c),
         NEW h, Sums(h, D, f), NEW k, Sums(k, D, g)
  PROVE  k[D] = h[D] + c
<1> DEFINE G == {s \in SUBSET D : k[s] = h[s] + (IF e \in s THEN c ELSE 0)}
<1>1. {} \in G
  <2>1. k[{}] = 0 /\ h[{}] = 0
    BY DEF Sums
  <2> QED
    BY <2>1
<1>2. ASSUME NEW s \in SUBSET D, s # {}, s \ {Member(s)} \in G PROVE s \in G
  <2> DEFINE x == Member(s)
             t == s \ {x}
  <2>1. x \in s /\ x \in D /\ t \in SUBSET D
    BY <1>2, MemberOf
  <2> HIDE DEF x
  <2>2. h[s] = h[t] + f[x] /\ k[s] = k[t] + g[x]
    BY <1>2 DEF Sums, x
  <2>3. k[t] = h[t] + (IF e \in t THEN c ELSE 0)
    BY <1>2 DEF x
  <2>4. h[t] \in Nat /\ f[x] \in Nat
    BY <2>1, SumsType
  <2>5. g[x] = IF x = e THEN f[x] + c ELSE f[x]
    BY <2>1 DEF Adds
  <2>6. CASE x = e
    <3>1. e \notin t /\ e \in s
      BY <2>1, <2>6
    <3>2. k[t] = h[t] /\ g[x] = f[x] + c
      BY <2>3, <2>4, <2>5, <2>6, <3>1
    <3> HIDE DEF t
    <3> QED
      BY <2>2, <2>4, <3>1, <3>2
  <2>7. CASE x # e
    <3>1. e \in t <=> e \in s
      BY <2>7
    <3>2. g[x] = f[x]
      BY <2>5, <2>7
    <3> HIDE DEF t
    <3> QED
      BY <2>2, <2>3, <2>4, <3>1, <3>2
  <2> QED
    BY <2>6, <2>7
<1> HIDE DEF G
<1>3. \A s \in SUBSET D : s \in G
  BY <1>1, <1>2, BySubsets
<1> QED
  BY <1>3 DEF G

\* The total of a status over the devices of a report, as a report adds up.
Total(byDevice, status) ==
  FoldSet(LAMBDA d, n : n + byDevice[d].counts[status], 0, DOMAIN byDevice)

CountsOf(byDevice, status) == [d \in DOMAIN byDevice |-> byDevice[d].counts[status]]

\* The total of a report is such a sum.
LEMMA TotalSums ==
  ASSUME NEW b, IsFiniteSet(DOMAIN b), NEW status, \A d \in DOMAIN b : b[d].counts[status] \in Nat
  PROVE  \E h : Sums(h, DOMAIN b, CountsOf(b, status)) /\ Total(b, status) = h[DOMAIN b]
<1> DEFINE D == DOMAIN b
           Unfolds(h) == h = [s \in SUBSET D |->
             IF s = {} THEN 0
             ELSE h[s \ {CHOOSE x \in s : TRUE}] + b[CHOOSE x \in s : TRUE].counts[status]]
<1>1. CountsOf(b, status) \in [D -> Nat]
  BY DEF CountsOf
<1>2. \A s \in SUBSET D : s # {} => CountsOf(b, status)[Member(s)] = b[Member(s)].counts[status]
  BY MemberOf DEF CountsOf
<1>3. \E h : Unfolds(h)
  <2>1. PICK h \in [SUBSET D -> Nat] : Sums(h, D, CountsOf(b, status))
    <3> HIDE DEF D
    <3> QED
      BY <1>1, SumsExist DEF D
  <2>2. h = [s \in SUBSET D |-> h[s]]
    OBVIOUS
  <2>3. \A s \in SUBSET D : h[s] = IF s = {} THEN 0 ELSE h[s \ {Member(s)}] + b[Member(s)].counts[status]
    BY <1>2, <2>1 DEF Sums
  <2>4. h = [s \in SUBSET D |-> IF s = {} THEN 0 ELSE h[s \ {Member(s)}] + b[Member(s)].counts[status]]
    BY <2>2, <2>3
  <2> QED
    BY <2>4 DEF Member
<1>4. PICK h : Unfolds(h) /\ Total(b, status) = h[D]
  BY <1>3 DEF Total, FoldSet, MapThenFoldSet
<1>5. \A s \in SUBSET D : h[s] = IF s = {} THEN 0 ELSE h[s \ {Member(s)}] + b[Member(s)].counts[status]
  BY <1>4 DEF Member
<1>6. Sums(h, D, CountsOf(b, status))
  BY <1>2, <1>5 DEF Sums
<1> QED
  BY <1>4, <1>6

\* The entries a report may have for a device.
Shown(rs) == UNION {{<<rs[i].audit, f>> : f \in rs[i].findings} : i \in DOMAIN rs}
EntryOver(rs) == [counts : [STATUS_ORDER -> Nat], shown : SUBSET Shown(rs)]

\* What a result adds to the entry of its device.
LEMMA WithResultType ==
  ASSUME NEW rs, Countable(rs), NEW entry \in EntryOver(rs), NEW i \in 1..Len(rs)
  PROVE  /\ WithResult(entry, rs[i]) \in EntryOver(rs)
         /\ \A status \in STATUS_ORDER :
              WithResult(entry, rs[i]).counts[status]
                = entry.counts[status] + StatusCount(rs[i].findings, status)
         /\ entry.shown \subseteq WithResult(entry, rs[i]).shown
         /\ \A f \in rs[i].findings : f.status \in ACTIONABLE_STATUSES
              => <<rs[i].audit, f>> \in WithResult(entry, rs[i]).shown
<1> DEFINE w == WithResult(entry, rs[i])
           more == {f \in rs[i].findings : \/ f.status \in ACTIONABLE_STATUSES
                                           \/ scenario.command = "report" /\ scenario.all}
<1>1. /\ w = [counts |-> w.counts, shown |-> w.shown]
      /\ w.counts = [status \in STATUS_ORDER |->
                       entry.counts[status] + StatusCount(rs[i].findings, status)]
      /\ w.shown = entry.shown \cup {<<rs[i].audit, f>> : f \in more}
  BY DEF WithResult
<1>2. i \in DOMAIN rs /\ IsFiniteSet(rs[i].findings)
  BY DEF Countable
<1>3. w.counts \in [STATUS_ORDER -> Nat]
  <2>1. \A status \in STATUS_ORDER : /\ entry.counts[status] \in Nat
                                     /\ StatusCount(rs[i].findings, status) \in Nat
    BY <1>2, StatusCounts DEF EntryOver
  <2> QED
    BY <1>1, <2>1
<1>4. w.shown \in SUBSET Shown(rs)
  <2>1. \A f \in more : <<rs[i].audit, f>> \in Shown(rs)
    BY <1>2 DEF Shown
  <2>2. entry.shown \in SUBSET Shown(rs)
    BY DEF EntryOver
  <2> QED
    BY <1>1, <2>1, <2>2
<1>5. w \in EntryOver(rs)
  BY <1>1, <1>3, <1>4 DEF EntryOver
<1> HIDE DEF w
<1>6. \A f \in rs[i].findings : f.status \in ACTIONABLE_STATUSES => <<rs[i].audit, f>> \in w.shown
  BY <1>1
<1> HIDE DEF more
<1>7. \A status \in STATUS_ORDER : w.counts[status]
        = entry.counts[status] + StatusCount(rs[i].findings, status)
  BY <1>1
<1>8. entry.shown \subseteq w.shown
  BY <1>1
<1> QED
  BY <1>5, <1>6, <1>7, <1>8 DEF w

\* The results are added to the devices one by one.
LEMMA AddedOneByOne ==
  ASSUME NEW rs, Countable(rs), NEW D, \A i \in 1..Len(rs) : rs[i].device \in D
  PROVE  \E b \in [0..Len(rs) -> [D -> EntryOver(rs)]] :
           /\ b[0] = [d \in D |-> NoFindings]
           /\ \A k \in 1..Len(rs) : b[k] = AddResult(b[k - 1], rs[k])
           /\ FoldLeft(AddResult, [d \in D |-> NoFindings], rs) = b[Len(rs)]
<1> DEFINE n == Len(rs)
           E == EntryOver(rs)
           none == [d \in D |-> NoFindings]
           step == [k \in 1..n |-> [b \in [D -> E] |-> AddResult(b, rs[k])]]
           Unfolds(h) == h = [s \in SUBSET DOMAIN rs |->
                                IF s = {} THEN none ELSE AddResult(h[s \ {Max(s)}], rs[Max(s)])]
<1>1. n \in Nat /\ DOMAIN rs = 1..n
  BY DEF Countable
<1>2. none \in [D -> E]
  <2>1. NoFindings \in E
    BY DEF NoFindings, EntryOver
  <2> QED
    BY <2>1
<1>3. ASSUME NEW b \in [D -> E], NEW k \in 1..n PROVE AddResult(b, rs[k]) \in [D -> E]
  <2>1. rs[k].device \in D /\ WithResult(b[rs[k].device], rs[k]) \in E
    BY WithResultType
  <2> QED
    BY <2>1 DEF AddResult
<1> HIDE DEF E, none
<1>4. \E h : Unfolds(h)
  <2>1. step \in [1..n -> [[D -> E] -> [D -> E]]]
    BY <1>3
  <2>2. PICK h \in [SUBSET (1..n) -> [D -> E]] : FoldsUp(h, n, none, step)
    <3> HIDE DEF step
    <3> QED
      BY <1>1, <1>2, <2>1, FoldUp
  <2>3. ASSUME NEW s \in SUBSET (1..n), s # {}
        PROVE  h[s] = AddResult(h[s \ {Max(s)}], rs[Max(s)])
    <3>1. Max(s) \in 1..n /\ h[s \ {Max(s)}] \in [D -> E]
      BY <1>1, <2>3, Greatest
    <3>2. h[s] = step[Max(s)][h[s \ {Max(s)}]]
      BY <2>2, <2>3 DEF FoldsUp
    <3> QED
      BY <3>1, <3>2
  <2>4. h[{}] = none
    BY <2>2 DEF FoldsUp
  <2>5. h = [s \in SUBSET (1..n) |-> h[s]]
    OBVIOUS
  <2>6. Unfolds(h)
    BY <1>1, <2>3, <2>4, <2>5
  <2> QED
    BY <2>6
<1>5. PICK h : Unfolds(h) /\ FoldLeft(AddResult, none, rs) = h[DOMAIN rs]
  BY <1>4 DEF FoldLeft, MapThenFoldSet
<1>6. h[1..0] = none
  <2>1. h[{}] = none /\ 1..0 = {}
    BY <1>5
  <2> QED
    BY <2>1
<1>7. ASSUME NEW k \in 1..n PROVE h[1..k] = AddResult(h[1..k - 1], rs[k])
  <2>1. /\ 1..k \in SUBSET (1..n) /\ 1..k # {} /\ Max(1..k) = k /\ (1..k) \ {k} = 1..k - 1
    BY <1>1, Prefix
  <2> QED
    BY <1>1, <1>5, <2>1
<1> DEFINE b == [k \in 0..n |-> h[1..k]]
           G == {k \in 0..n : h[1..k] \in [D -> E]}
<1> HIDE DEF Unfolds
<1>8. b \in [0..n -> [D -> E]]
  <2>1. 0 \in G
    BY <1>1, <1>2, <1>6
  <2>2. ASSUME NEW k \in 1..n, k - 1 \in G PROVE k \in G
    <3>1. h[1..k - 1] \in [D -> E] /\ k \in 0..n
      BY <1>1, <2>2
    <3>2. h[1..k] \in [D -> E]
      BY <1>3, <1>7, <3>1
    <3> QED
      BY <3>1, <3>2
  <2> HIDE DEF G
  <2>3. \A k \in 0..n : k \in G
    BY <1>1, <2>1, <2>2, UpTo
  <2> QED
    BY <2>3 DEF G
<1>9. /\ b[0] = none /\ b[n] = h[1..n]
      /\ \A k \in 1..n : b[k] = AddResult(b[k - 1], rs[k])
  BY <1>1, <1>6, <1>7
<1> HIDE DEF b
<1> QED
  BY <1>1, <1>5, <1>8, <1>9 DEF none, E

\* The total before the first result ...
LEMMA TotalOfNone ==
  ASSUME NEW D, IsFiniteSet(D), NEW status \in STATUS_ORDER
  PROVE  Total([d \in D |-> NoFindings], status) = 0
<1> DEFINE none == [d \in D |-> NoFindings]
<1>1. DOMAIN none = D /\ \A d \in D : none[d].counts[status] = 0
  BY DEF NoFindings
<1>2. CountsOf(none, status) = [d \in D |-> 0]
  BY <1>1 DEF CountsOf
<1> HIDE DEF none
<1>3. PICK h : Sums(h, D, [d \in D |-> 0]) /\ Total(none, status) = h[D]
  BY <1>1, <1>2, TotalSums
<1> QED
  BY <1>3, SumOfNone DEF none

\* ... when one entry has grown ...
LEMMA TotalGrows ==
  ASSUME NEW a, NEW b, NEW D, IsFiniteSet(D), DOMAIN a = D, DOMAIN b = D, NEW status,
         \A d \in D : b[d].counts[status] \in Nat, NEW e \in D, NEW c \in Nat,
         a[e].counts[status] = b[e].counts[status] + c,
         \A d \in D : d # e => a[d] = b[d]
  PROVE  Total(b, status) \in Nat /\ Total(a, status) = Total(b, status) + c
<1> DEFINE f == CountsOf(b, status)
           g == CountsOf(a, status)
<1>1. f \in [D -> Nat]
  BY DEF CountsOf
<1>2. Adds(f, g, D, e, c)
  BY DEF CountsOf, Adds
<1>3. \A d \in D : a[d].counts[status] \in Nat
  <2>1. a[e].counts[status] \in Nat
    OBVIOUS
  <2> QED
    BY <2>1
<1>4. g \in [D -> Nat]
  BY <1>3 DEF CountsOf
<1>5. PICK h : Sums(h, D, f) /\ Total(b, status) = h[D]
  BY TotalSums
<1>6. PICK k : Sums(k, D, g) /\ Total(a, status) = k[D]
  BY <1>3, TotalSums
<1> HIDE DEF f, g
<1>7. k[D] = h[D] + c
  BY <1>1, <1>2, <1>4, <1>5, <1>6, SumWithMore
<1>8. h[D] \in Nat
  BY <1>1, <1>5, SumsType
<1> QED
  BY <1>5, <1>6, <1>7, <1>8

\* ... and when a result has been added.
LEMMA TotalOfMore ==
  ASSUME NEW rs, Countable(rs), NEW D, IsFiniteSet(D), NEW b \in [D -> EntryOver(rs)],
         NEW i \in 1..Len(rs), rs[i].device \in D, NEW status \in STATUS_ORDER
  PROVE  /\ Total(b, status) \in Nat
         /\ Total(AddResult(b, rs[i]), status) = Total(b, status) + StatusCount(rs[i].findings, status)
<1> DEFINE e == rs[i].device
           c == StatusCount(rs[i].findings, status)
           w == WithResult(b[e], rs[i])
           a == AddResult(b, rs[i])
<1>1. c \in Nat
  BY StatusCounts DEF Countable
<1>2. \A d \in D : b[d] \in EntryOver(rs) /\ b[d].counts[status] \in Nat
  BY DEF EntryOver
<1>3. w.counts[status] = b[e].counts[status] + c
  BY <1>2, WithResultType
<1>4. a = [b EXCEPT ![e] = w]
  BY DEF AddResult
<1>5. e \in D
  OBVIOUS
<1> HIDE DEF a, c, e, w
<1>6. DOMAIN a = D /\ DOMAIN b = D /\ a[e] = w /\ \A d \in D : d # e => a[d] = b[d]
  BY <1>4, <1>5
<1>7. a[e].counts[status] = b[e].counts[status] + c
  BY <1>3, <1>6
<1>8. Total(b, status) \in Nat /\ Total(a, status) = Total(b, status) + c
  BY <1>1, <1>2, <1>5, <1>6, <1>7, TotalGrows
<1> QED
  BY <1>8 DEF a, c, e

\* The counts of the results are the totals over the devices, and if no device
\* shows anything, no result has anything to act on.
LEMMA ReportAdds ==
  ASSUME NEW rs, Countable(rs), NEW D, IsFiniteSet(D), \A i \in 1..Len(rs) : rs[i].device \in D,
         NEW b, b = FoldLeft(AddResult, [d \in D |-> NoFindings], rs)
  PROVE  /\ DOMAIN b = D
         /\ \A status \in STATUS_ORDER : Counts(rs)[status] = Total(b, status)
         /\ (\A d \in D : b[d].shown = {})
              => \A status \in ACTIONABLE_STATUSES : Counts(rs)[status] = 0
<1> DEFINE n == Len(rs)
<1>1. n \in Nat
  BY DEF Countable
<1>2. PICK bs \in [0..n -> [D -> EntryOver(rs)]] :
        /\ bs[0] = [d \in D |-> NoFindings]
        /\ \A k \in 1..n : bs[k] = AddResult(bs[k - 1], rs[k])
        /\ b = bs[n]
  BY AddedOneByOne
<1>3. DOMAIN b = D
  BY <1>1, <1>2
<1>4. ASSUME NEW status \in STATUS_ORDER PROVE Counts(rs)[status] = Total(b, status)
  <2>1. PICK sum \in [0..n -> Nat] :
          /\ sum[0] = 0
          /\ \A k \in 1..n : sum[k] = sum[k - 1] + StatusCount(rs[k].findings, status)
          /\ Counts(rs)[status] = sum[n]
    BY SumsOneByOne
  <2> DEFINE G == {k \in 0..n : Total(bs[k], status) = sum[k]}
  <2>2. 0 \in G
    BY <1>1, <1>2, <2>1, TotalOfNone
  <2>3. ASSUME NEW k \in 1..n, k - 1 \in G PROVE k \in G
    <3>0. k \in 0..n /\ k - 1 \in 0..n
      BY <1>1
    <3>1. bs[k - 1] \in [D -> EntryOver(rs)]
      BY <3>0
    <3>2. Total(bs[k - 1], status) = sum[k - 1]
      BY <2>3
    <3>3. bs[k] = AddResult(bs[k - 1], rs[k]) /\ rs[k].device \in D
      BY <1>2
    <3>4. Total(AddResult(bs[k - 1], rs[k]), status)
            = Total(bs[k - 1], status) + StatusCount(rs[k].findings, status)
      BY <3>1, <3>3, TotalOfMore
    <3>5. Total(bs[k], status) = sum[k]
      BY <2>1, <3>2, <3>3, <3>4
    <3> QED
      BY <3>0, <3>5
  <2>4. n \in G
    <3> HIDE DEF G
    <3>1. \A k \in 0..n : k \in G
      BY <1>1, <2>2, <2>3, UpTo
    <3> QED
      BY <1>1, <3>1
  <2> QED
    BY <1>2, <2>1, <2>4
<1>5. ASSUME \A d \in D : b[d].shown = {}, NEW status \in ACTIONABLE_STATUSES
      PROVE  Counts(rs)[status] = 0
  <2>1. status \in STATUS_ORDER
    BY DEF ACTIONABLE_STATUSES, STATUS_ORDER
  <2>2. PICK sum \in [0..n -> Nat] :
          /\ sum[0] = 0
          /\ \A k \in 1..n : sum[k] = sum[k - 1] + StatusCount(rs[k].findings, status)
          /\ Counts(rs)[status] = sum[n]
    BY <2>1, SumsOneByOne
  <2> DEFINE Empty(k) == \A d \in D : bs[k][d].shown = {}
             G == {k \in 0..n : Empty(k) => sum[k] = 0}
  <2>3. 0 \in G
    BY <1>1, <2>2
  <2>4. ASSUME NEW k \in 1..n, k - 1 \in G PROVE k \in G
    <3>1. k \in 0..n /\ k - 1 \in 0..n
      BY <1>1
    <3>2. ASSUME Empty(k) PROVE sum[k] = 0
      <4> DEFINE e == rs[k].device
                 w == WithResult(bs[k - 1][e], rs[k])
      <4>1. e \in D /\ bs[k - 1] \in [D -> EntryOver(rs)]
        BY <3>1
      <4>2. /\ bs[k - 1][e].shown \subseteq w.shown
            /\ \A f \in rs[k].findings : f.status \in ACTIONABLE_STATUSES
                 => <<rs[k].audit, f>> \in w.shown
        BY <4>1, WithResultType
      <4>3. bs[k] = [bs[k - 1] EXCEPT ![e] = w]
        BY <1>2 DEF AddResult
      <4> HIDE DEF e, w
      <4>4. bs[k][e] = w /\ \A d \in D : d # e => bs[k][d] = bs[k - 1][d]
        BY <4>1, <4>3
      <4>5. w.shown = {}
        BY <3>2, <4>1, <4>4
      <4>6. Empty(k - 1)
        BY <3>2, <4>2, <4>4, <4>5
      <4>7. StatusCount(rs[k].findings, status) = 0
        <5>1. \A f \in rs[k].findings : f.status # status
          BY <4>2, <4>5
        <5>2. IsFiniteSet(rs[k].findings)
          BY DEF Countable
        <5> QED
          BY <5>1, <5>2, StatusCounts
      <4>8. sum[k - 1] = 0
        BY <2>4, <4>6
      <4> QED
        BY <2>2, <4>7, <4>8
    <3> QED
      BY <3>1, <3>2
  <2>5. n \in G
    <3> HIDE DEF G
    <3>1. \A k \in 0..n : k \in G
      BY <1>1, <2>3, <2>4, UpTo
    <3> QED
      BY <1>1, <3>1
  <2> QED
    BY <1>2, <1>5, <2>2, <2>5
<1> QED
  BY <1>3, <1>4, <1>5

-----------------------------------------------------------------------------
(* The devices and audits asked for.                                       *)

Loaded == inventory = LoadInventory(scenario.document)

\* The i-th pair of m devices and n audits.
LEMMA PairIndex ==
  ASSUME NEW m \in Nat, NEW n \in Nat, NEW i \in 1..m * n
  PROVE  ((i - 1) \div n) + 1 \in 1..m /\ ((i - 1) % n) + 1 \in 1..n
<1>1. m * n \in Nat /\ n > 0
  <2>1. m * n \in Nat
    OBVIOUS
  <2> QED
    BY <2>1
<1> DEFINE q == (i - 1) \div n
           r == (i - 1) % n
<1>2. i - 1 = n * q + r /\ q \in Int /\ r \in 0..n - 1
  BY <1>1
<1>3. q >= 0 /\ q < m
  <2>1. n * q < m * n
    BY <1>1, <1>2
  <2>2. n * q > -n
    BY <1>1, <1>2
  <2> HIDE DEF q
  <2> QED
    BY <1>1, <1>2, <2>1, <2>2
<1> QED
  BY <1>1, <1>2, <1>3

\* Every pair is of a device and an audit that were asked for.
LEMMA Asked ==
  ASSUME OperatorReportAssumption, scenario \in Scenarios, Loaded
  PROVE  /\ Targets \in Seq(STRING)
         /\ PairCount \in Nat
         /\ \A i \in 1..PairCount : /\ PairAt(i)[1] \in ToSet(Targets)
                                    /\ PairAt(i)[2] \in ToSet(Names)
                                    /\ PairAt(i) = <<PairAt(i)[1], PairAt(i)[2]>>
<1>1. Targets \in Seq(STRING)
  <2>1. inventory.keys = KeysOf(scenario.document)
    BY DEF Loaded, LoadInventory
  <2>2. scenario.document \in Seq(ItemType) /\ scenario.devices \in Seq(STRING)
    BY DEF OperatorReportAssumption
  <2> QED
    BY <2>1, <2>2, KeysType DEF Targets
<1>2. Len(Names) \in Nat /\ DOMAIN Names = 1..Len(Names)
  <2>1. scenario.audits \in Seq(STRING)
    BY DEF OperatorReportAssumption
  <2>2. CASE Names = scenario.audits
    BY <2>1, <2>2, LenProperties
  <2>3. CASE Names = AUDIT_REGISTRY
    BY <2>3 DEF AUDIT_REGISTRY
  <2>4. CASE Names = BASELINE_AUDITS
    BY <2>4 DEF BASELINE_AUDITS
  <2> QED
    BY <2>2, <2>3, <2>4 DEF Names
<1> DEFINE m == Len(Targets)
           n == Len(Names)
<1>3. m \in Nat /\ n \in Nat /\ DOMAIN Targets = 1..m /\ DOMAIN Names = 1..n
  BY <1>1, <1>2, LenProperties
<1>4. PairCount \in Nat
  <2> HIDE DEF m, n
  <2>1. m * n \in Nat
    BY <1>3
  <2> QED
    BY <2>1 DEF PairCount, m, n
<1>5. ASSUME NEW i \in 1..PairCount
      PROVE  /\ PairAt(i)[1] \in ToSet(Targets)
             /\ PairAt(i)[2] \in ToSet(Names)
             /\ PairAt(i) = <<PairAt(i)[1], PairAt(i)[2]>>
  <2>1. ((i - 1) \div n) + 1 \in 1..m /\ ((i - 1) % n) + 1 \in 1..n
    <3>1. i \in 1..m * n
      BY DEF PairCount
    <3> HIDE DEF m, n
    <3> QED
      BY <1>3, <3>1, PairIndex
  <2>2. PairAt(i) = <<Targets[((i - 1) \div n) + 1], Names[((i - 1) % n) + 1]>>
    BY DEF PairAt
  <2> HIDE DEF m, n
  <2> QED
    BY <1>3, <2>1, <2>2 DEF ToSet
<1> QED
  BY <1>1, <1>2, <1>4, <1>5

-----------------------------------------------------------------------------
(* What an audit finds.                                                    *)

Registered == ToSet(AUDIT_REGISTRY)

\* The audits by name.
LEMMA FourAudits ==
  Registered = {"dead_mangle_rules", "firmware_drift", "route_ownership", "trunk_vlan_sanity"}
BY DEF Registered, AUDIT_REGISTRY, ToSet

\* A single finding.
LEMMA OnlyType ==
  ASSUME NEW status \in STATUS_ORDER,
         NEW about \in {"policy", "data", "version", "owned", "trunks", "dead"}
  PROVE  Only(status, about) \in SUBSET Finding /\ IsFiniteSet(Only(status, about))
<1>1. Only(status, about) = {[status |-> status, about |-> about, on |-> ""]}
  BY DEF Only, Found
<1>2. [status |-> status, about |-> about, on |-> ""] \in Finding
  BY DEF Finding
<1> QED
  BY <1>1, <1>2, FS_Singleton

\* The trunks: at most three findings for each.
TrunksFound(policy, ports, rows) ==
  UNION {TrunkFindings(policy, ports, rows, port) : port \in DOMAIN policy.trunks}

LEMMA TrunksType ==
  ASSUME NEW policy, NEW ports, NEW rows, policy = scenario.policy,
         IsFiniteSet(DOMAIN policy.trunks)
  PROVE  /\ TrunksFound(policy, ports, rows) \in SUBSET Finding
         /\ IsFiniteSet(TrunksFound(policy, ports, rows))
<1> DEFINE P == DOMAIN policy.trunks
           found == TrunksFound(policy, ports, rows)
           All(status, about) == {Found(status, about, port) : port \in P}
           all == (All("fail", "port") \cup All("fail", "tagged")) \cup All("warn", "pvid")
<1>1. found \subseteq all
  BY DEF TrunksFound, TrunkFindings
<1>2. all \in SUBSET Finding
  <2>1. ASSUME NEW status \in STATUS_ORDER, NEW about \in {"port", "tagged", "pvid"}, NEW port \in P
        PROVE  Found(status, about, port) \in Finding
    BY DEF Found, Finding
  <2>2. "fail" \in STATUS_ORDER /\ "warn" \in STATUS_ORDER
    BY DEF STATUS_ORDER
  <2> QED
    BY <2>1, <2>2
<1>3. ASSUME NEW status, NEW about PROVE IsFiniteSet(All(status, about))
  <2> DEFINE f == [port \in P |-> Found(status, about, port)]
  <2>1. f \in Surjection(P, All(status, about))
    BY DEF Surjection
  <2> HIDE DEF P, All, f
  <2> QED
    BY <2>1, FS_Surjection DEF P
<1>4. IsFiniteSet(all)
  <2> HIDE DEF All
  <2>1. IsFiniteSet(All("fail", "port") \cup All("fail", "tagged"))
    BY <1>3, FS_Union
  <2> QED
    BY <1>3, <2>1, FS_Union
<1> HIDE DEF found, all
<1> QED
  BY <1>1, <1>2, <1>4, FS_Subset DEF found

\* Whatever an audit read, it finds finitely many things, of the five statuses.
LEMMA JudgementType ==
  ASSUME OperatorReportAssumption, scenario \in Scenarios, NEW audit \in Registered,
         NEW role, NEW tables
  PROVE  Judgement(audit, role, tables) \in SUBSET Finding
         /\ IsFiniteSet(Judgement(audit, role, tables))
<1> DEFINE Fine(v) == v \in SUBSET Finding /\ IsFiniteSet(v)
<1>1. \A status \in {"pass", "warn", "fail", "unknown", "skip"} :
      \A about \in {"policy", "data", "version", "owned", "trunks", "dead"} : Fine(Only(status, about))
  BY OnlyType DEF STATUS_ORDER
<1>2. Fine(NoPolicy)
  BY <1>1 DEF NoPolicy
<1>3. ASSUME NEW rules PROVE Fine(DeadMangleRules(role, rules))
  <2>1. DeadMangleRules(role, rules) \in {Only("unknown", "data"), Only("pass", "data"),
                                          Only("warn", "dead"), Only("pass", "dead")}
    BY DEF DeadMangleRules
  <2> HIDE DEF Fine
  <2> QED
    BY <1>1, <2>1
<1>4. ASSUME NEW version PROVE Fine(FirmwareDrift(scenario.policy, version))
  <2>1. FirmwareDrift(scenario.policy, version) \in {NoPolicy, Only("pass", "version"),
                                                     Only("fail", "version")}
    BY DEF FirmwareDrift
  <2> HIDE DEF Fine
  <2> QED
    BY <1>1, <1>2, <2>1
<1>5. ASSUME NEW routes PROVE Fine(RouteOwnership(scenario.policy, routes))
  <2>1. RouteOwnership(scenario.policy, routes) \in {NoPolicy, Only("pass", "owned"),
                                                     Only("fail", "owned")}
    BY DEF RouteOwnership
  <2> HIDE DEF Fine
  <2> QED
    BY <1>1, <1>2, <2>1
<1>6. ASSUME NEW ports, NEW rows PROVE Fine(TrunkVlanSanity(scenario.policy, ports, rows))
  <2> DEFINE found == TrunksFound(scenario.policy, ports, rows)
  <2>1. Fine(found)
    <3>1. IsFiniteSet(DOMAIN scenario.policy.trunks)
      BY DEF OperatorReportAssumption
    <3> QED
      BY <3>1, TrunksType
  <2>2. TrunkVlanSanity(scenario.policy, ports, rows) \in {NoPolicy, found, Only("pass", "trunks")}
    BY DEF TrunkVlanSanity, TrunksFound
  <2> HIDE DEF Fine, found
  <2> QED
    BY <1>1, <1>2, <2>1, <2>2
<1> HIDE DEF Fine
<1>7. Fine(Judgement(audit, role, tables))
  BY <1>3, <1>4, <1>5, <1>6, FourAudits DEF Judgement
<1> QED
  BY <1>7 DEF Fine

\* The comments it quotes are redacted.
LEMMA EvidenceRedacted ==
  ASSUME NEW audit, NEW tables, NEW file,
         audit = "dead_mangle_rules" =>
           tables["firewall-mangle"] = Served("firewall-mangle", Load(file, "firewall-mangle"))
  PROVE  \A text \in Evidence(audit, tables) : text = Redact(scenario.note)
<1> SUFFICES ASSUME audit = "dead_mangle_rules"
             PROVE  \A text \in Evidence(audit, tables) : text = Redact(scenario.note)
  BY DEF Evidence
<1> DEFINE rule == [disabled |-> TRUE, comment |-> scenario.note]
           rows == Load(file, "firewall-mangle")
<1>1. \A r \in rows : r.comment = scenario.note
  <2>1. rows = {rule} \/ rows = {}
    BY DEF Load, RowsOf
  <2> QED
    BY <2>1
<1>2. \A r \in tables["firewall-mangle"] : r.comment = Redact(scenario.note)
  <2>1. tables["firewall-mangle"]
          = {[disabled |-> r.disabled, comment |-> Redact(r.comment),
              leftover |-> Contains(Redact(r.comment), "leftover")] : r \in rows}
    BY DEF Served
  <2> HIDE DEF rows
  <2> QED
    BY <1>1, <2>1
<1> QED
  BY <1>2 DEF Evidence, Suspicious

-----------------------------------------------------------------------------
(* The invariant.                                                          *)

\* From Begin on, unless the run is broken off.
Proceeding == cli = "run" \/ (Finished /\ exit # 2)

\* A result as VerdictsFromWholeFiles and SeparateSecretsGo want it.
Grounded(r) == \E fs \in FilesRead(r.device, r.audit) :
                 r.findings = VerdictOn(r.device, r.audit, fs)
Quotes(r) == \A text \in r.evidence : text = Redact(scenario.note)

\* A table of an audit of device d.
FromWhole(d, x, table) == \E f \in ReadableFiles(d) : table = Served(x, Load(f, x))

\* Where the command line is.
Stage == /\ scenario \in Scenarios
         /\ cli \in {"start", "arguments", "run", "ended"}
         /\ exit \in 0..NoExit /\ (exit = NoExit) = (cli # "ended")
         /\ printed.kind \in {"nothing", "devices", "results", "report"}
         /\ cli # "ended" \/ exit = 2 => printed = Nothing
         /\ cli \in {"start", "arguments"} => results = <<>> /\ got = NoTables /\ files = {}
         /\ cli \in {"arguments", "run"} => Loaded
         /\ cli = "run" => scenario.command # "list-devices" /\ fixture \in files

\* The results so far are those of the first pairs, and each goes back to whole
\* files.
SoFar == Proceeding =>
           /\ Loaded /\ Known
           /\ results \in Seq(Result) /\ Len(results) <= PairCount
           /\ \A i \in DOMAIN results : /\ results[i].device = PairAt(i)[1]
                                        /\ results[i].audit = PairAt(i)[2]
                                        /\ Grounded(results[i])

Quoted == \A i \in DOMAIN results : Quotes(results[i])

\* The tables of the audit under work do, too.
Gathered == cli = "run" =>
             /\ got = [x \in DOMAIN got |-> got[x]]
             /\ Len(results) = PairCount => got = NoTables
             /\ \A x \in DOMAIN got : x \in ToSet(Reads(Audit)) /\ FromWhole(Device, x, got[x])

\* No finding of a status the command line was told to fail on.
Clean == \A i \in DOMAIN results : \A f \in results[i].findings : f.status \notin FailedOn

\* What comes out is made of all the results.
Outcome == /\ (Finished /\ exit # 2) =>
                /\ Len(results) = PairCount /\ printed # Nothing
                /\ printed.kind = "report" => AddsUp(printed)
                /\ (exit = 0 /\ scenario.command # "audit") => Clean
           /\ (cli = "ended" /\ exit # 2 /\ scenario.command = "list-devices") => results = <<>>

RunInv == Stage /\ SoFar /\ Quoted /\ Gathered /\ Outcome

\* Before main has done anything.
LEMMA InitRuns == ASSUME OperatorReportAssumption, Init PROVE RunInv
<1>1. Stage
  BY DEF Init, Stage, NoExit, Nothing, NoTables
<1>2. SoFar /\ Gathered /\ Outcome
  BY DEF Init, SoFar, Gathered, Outcome, Proceeding, Finished
<1>3. Quoted
  BY DEF Init, Quoted
<1> QED
  BY <1>1, <1>2, <1>3 DEF RunInv

\* What is asked for, and what an audit says of given files, is fixed once the
\* inventory is loaded; and the files it may have read become no fewer.
LEMMA Frame ==
  ASSUME UNCHANGED <<scenario, inventory>>
  PROVE  /\ Targets' = Targets /\ Names' = Names /\ PairCount' = PairCount
         /\ \A i : PairAt(i)' = PairAt(i)
         /\ Result' = Result /\ (Known' <=> Known) /\ (Loaded' <=> Loaded)
         /\ \A audit : Reads(audit)' = Reads(audit)
         /\ \A x, rows : Served(x, rows)' = Served(x, rows)
         /\ \A file, x : Load(file, x)' = Load(file, x)
         /\ \A d, audit, fs : VerdictOn(d, audit, fs)' = VerdictOn(d, audit, fs)
         /\ \A r : Quotes(r)' <=> Quotes(r)
<1>1. /\ Targets' = Targets /\ Names' = Names
  BY DEF Targets, Names
<1>2. PairCount' = PairCount /\ (\A i : PairAt(i)' = PairAt(i)) /\ (Known' <=> Known)
  BY <1>1 DEF PairCount, PairAt, Known
<1>3. Result' = Result
  BY <1>1 DEF Result, Finding
<1>4. Loaded' <=> Loaded
  BY DEF Loaded
<1>5. \A audit : Reads(audit)' = Reads(audit)
  BY DEF Reads, DeadMangleReads
<1>6. \A file, x : Load(file, x)' = Load(file, x)
  BY DEF Load, RowsOf
<1>7. \A x, rows : Served(x, rows)' = Served(x, rows)
  BY DEF Served
<1>8. \A audit, role, tables : Judgement(audit, role, tables)' = Judgement(audit, role, tables)
  BY DEF Judgement
<1>9. \A d, audit, fs : VerdictOn(d, audit, fs)' = VerdictOn(d, audit, fs)
  BY <1>6, <1>7, <1>8 DEF VerdictOn, RoleOf
<1>10. \A r : Quotes(r)' <=> Quotes(r)
  BY DEF Quotes
<1> QED
  BY <1>1, <1>2, <1>3, <1>4, <1>5, <1>6, <1>7, <1>9, <1>10

\* More files to choose from: what went back to one still does.
LEMMA MoreFiles ==
  ASSUME UNCHANGED <<scenario, inventory>>, files \subseteq files'
  PROVE  /\ \A d : ReadableFiles(d) \subseteq ReadableFiles(d)'
         /\ \A r : Grounded(r) => Grounded(r)'
         /\ \A d, x, table : FromWhole(d, x, table) => FromWhole(d, x, table)'
<1>1. \A d : ReadableFiles(d) \subseteq ReadableFiles(d)'
  BY DEF ReadableFiles
<1>2. ASSUME NEW r, Grounded(r) PROVE Grounded(r)'
  <2>1. PICK fs \in FilesRead(r.device, r.audit) : r.findings = VerdictOn(r.device, r.audit, fs)
    BY <1>2 DEF Grounded
  <2>2. fs \in FilesRead(r.device, r.audit)'
    BY <1>1, Frame DEF FilesRead
  <2>3. r.findings = VerdictOn(r.device, r.audit, fs)'
    BY <2>1, Frame
  <2> QED
    BY <2>2, <2>3 DEF Grounded
<1>3. ASSUME NEW d, NEW x, NEW table, FromWhole(d, x, table) PROVE FromWhole(d, x, table)'
  <2>1. PICK f \in ReadableFiles(d) : table = Served(x, Load(f, x))
    BY <1>3 DEF FromWhole
  <2>2. Served(x, Load(f, x))' = Served(x, Load(f, x))
    BY Frame DEF Served, Load, RowsOf
  <2> QED
    BY <1>1, <2>1, <2>2 DEF FromWhole
<1> QED
  BY <1>1, <1>2, <1>3

\* A step of a script, or none: at most the files have changed.
LEMMA BesideHolds ==
  ASSUME RunInv, UNCHANGED <<scenario, cli, inventory, got, results, printed, exit>>,
         files' = IF cli = "run" THEN files \cup {fixture'} ELSE files
  PROVE  RunInv'
<1>1. files \subseteq files'
  OBVIOUS
<1>2. /\ PairCount' = PairCount /\ (\A i : PairAt(i)' = PairAt(i)) /\ Result' = Result
      /\ (Known' <=> Known) /\ (Loaded' <=> Loaded) /\ (\A audit : Reads(audit)' = Reads(audit))
      /\ (\A r : Quotes(r)' <=> Quotes(r)) /\ (\A r : Grounded(r) => Grounded(r)')
      /\ \A d, x, table : FromWhole(d, x, table) => FromWhole(d, x, table)'
  BY <1>1, Frame, MoreFiles
<1>3. (Proceeding' <=> Proceeding) /\ (Finished' <=> Finished)
  BY DEF Proceeding, Finished
<1>4. Stage'
  BY <1>2 DEF RunInv, Stage, Nothing
<1>5. SoFar'
  BY <1>2, <1>3 DEF RunInv, SoFar
<1>6. Quoted'
  BY <1>2 DEF RunInv, Quoted
<1>7. Gathered'
  <2>1. Device' = Device /\ Audit' = Audit
    BY <1>2 DEF Device, Audit
  <2> QED
    BY <1>2, <2>1 DEF RunInv, Gathered
<1>8. Outcome'
  <2>1. Clean' <=> Clean
    BY DEF Clean, FailedOn
  <2> QED
    BY <1>2, <1>3, <2>1 DEF RunInv, Outcome, Nothing
<1> QED
  BY <1>4, <1>5, <1>6, <1>7, <1>8 DEF RunInv

\* What goes on before the first audit.
LEMMA BuildHolds == ASSUME RunInv, BuildService PROVE RunInv'
<1>1. /\ cli = "start" /\ cli' = "arguments" /\ inventory' = LoadInventory(scenario.document)
      /\ UNCHANGED <<got, results, printed, exit, files, scenario>>
  BY DEF BuildService, still
<1>2. Stage'
  BY <1>1 DEF RunInv, Stage, Loaded, Nothing
<1>3. SoFar' /\ Gathered' /\ Outcome'
  BY <1>1 DEF SoFar, Gathered, Outcome, Proceeding, Finished
<1>4. results' = <<>>
  BY <1>1 DEF RunInv, Stage
<1>5. Quoted'
  BY <1>4 DEF Quoted
<1> QED
  BY <1>2, <1>3, <1>5 DEF RunInv

\* The run is broken off: what it had found is lost.
LEMMA RaiseHolds ==
  ASSUME RunInv, cli # "ended", Raise, UNCHANGED <<scenario, inventory, got, results, files>>
  PROVE  RunInv'
<1>1. cli' = "ended" /\ exit' = 2 /\ printed' = Nothing
  BY DEF Raise, End
<1>2. Stage'
  BY <1>1 DEF RunInv, Stage, NoExit, Nothing
<1>3. SoFar' /\ Gathered' /\ Outcome'
  BY <1>1 DEF SoFar, Gathered, Outcome, Proceeding
<1>4. Quoted'
  BY Frame DEF RunInv, Quoted
<1> QED
  BY <1>2, <1>3, <1>4 DEF RunInv

\* list-devices prints what the inventory names.
LEMMA ListHolds == ASSUME RunInv, ListDevices PROVE RunInv'
<1>1. /\ cli = "arguments" /\ scenario.command = "list-devices"
      /\ cli' = "ended" /\ exit' = 0 /\ printed' = [kind |-> "devices", devices |-> inventory.keys]
      /\ UNCHANGED <<scenario, inventory, got, results, files>>
  BY DEF ListDevices, End, still
<1>2. Stage'
  BY <1>1 DEF RunInv, Stage, NoExit
<1>3. results' = <<>>
  BY <1>1 DEF RunInv, Stage
<1>4. SoFar' /\ Gathered' /\ Outcome' /\ Quoted'
  BY <1>1, <1>3 DEF SoFar, Gathered, Outcome, Quoted, Proceeding, Finished
<1> QED
  BY <1>2, <1>4 DEF RunInv

\* The first audit begins.
LEMMA BeginHolds == ASSUME OperatorReportAssumption, RunInv, Begin PROVE RunInv'
<1>1. /\ cli = "arguments" /\ scenario.command # "list-devices" /\ Known /\ cli' = "run"
      /\ files' = {fixture} /\ fixture' = fixture
      /\ UNCHANGED <<scenario, inventory, got, results, printed, exit>>
  BY DEF Begin, still, captureVars
<1>2. scenario \in Scenarios /\ Loaded /\ results = <<>> /\ got = NoTables
  BY <1>1 DEF RunInv, Stage
<1>3. /\ PairCount' = PairCount /\ Result' = Result /\ (Known' <=> Known) /\ (Loaded' <=> Loaded)
  BY <1>1, Frame
<1>4. PairCount \in Nat
  BY <1>2, Asked
<1>5. Stage'
  BY <1>1, <1>2, <1>3 DEF RunInv, Stage
<1>6. SoFar'
  <2>1. results' = <<>> /\ <<>> \in Seq(Result) /\ Len(<<>>) = 0 /\ DOMAIN <<>> = {}
    BY <1>1, <1>2
  <2> QED
    BY <1>1, <1>2, <1>3, <1>4, <2>1 DEF SoFar
<1>7. Gathered'
  <2>1. got' = NoTables /\ DOMAIN NoTables = {} /\ NoTables = [x \in DOMAIN NoTables |-> NoTables[x]]
    BY <1>1, <1>2 DEF NoTables
  <2> QED
    BY <2>1 DEF Gathered
<1>8. Quoted' /\ Outcome'
  BY <1>1, <1>2 DEF Quoted, Outcome, Finished
<1> QED
  BY <1>5, <1>6, <1>7, <1>8 DEF RunInv

\* The pair under work is one that was asked for.
LEMMA UnderWork ==
  ASSUME OperatorReportAssumption, RunInv, Working
  PROVE  /\ Len(results) \in Nat /\ Len(results) + 1 \in 1..PairCount
         /\ Device \in ToSet(Targets) /\ Audit \in Registered
<1>1. PairCount \in Nat
  BY Asked DEF RunInv, Stage, Working
<1>2. Len(results) \in Nat
  BY LenProperties DEF RunInv, SoFar, Proceeding, Working
<1>3. Len(results) + 1 \in 1..PairCount
  BY <1>1, <1>2 DEF Working
<1>4. Device \in ToSet(Targets) /\ Audit \in ToSet(Names)
  BY <1>3, Asked DEF RunInv, Stage, Working, Device, Audit
<1> QED
  BY <1>2, <1>3, <1>4 DEF RunInv, SoFar, Proceeding, Working, Known, Registered

\* A table comes back: it was read in a whole file, or there was none.
LEMMA ReadHolds == ASSUME OperatorReportAssumption, RunInv, ReadTable PROVE RunInv'
<1> DEFINE x == Reads(Audit)[NextRead]
           file == FileOf(Device)
<1>1. /\ cli = "run" /\ Len(results) < PairCount /\ Unread # {} /\ CanRead
      /\ got' = [y \in DOMAIN got \cup {x} |-> IF y = x THEN Served(x, Load(file, x)) ELSE got[y]]
      /\ UNCHANGED <<scenario, cli, inventory, results, printed, exit, files, fixture>>
  BY DEF ReadTable, Working, still, captureVars
<1>2. /\ PairCount' = PairCount /\ (\A i : PairAt(i)' = PairAt(i)) /\ Result' = Result
      /\ (Known' <=> Known) /\ (Loaded' <=> Loaded) /\ (\A audit : Reads(audit)' = Reads(audit))
      /\ (\A r : Quotes(r)' <=> Quotes(r)) /\ (\A r : Grounded(r) => Grounded(r)')
      /\ \A d, y, table : FromWhole(d, y, table) => FromWhole(d, y, table)'
  BY <1>1, Frame, MoreFiles
<1>3. Device' = Device /\ Audit' = Audit /\ (Proceeding' <=> Proceeding) /\ (Finished' <=> Finished)
  BY <1>1, <1>2 DEF Device, Audit, Proceeding, Finished
<1>4. x \in ToSet(Reads(Audit))
  <2>1. \E i \in Unread : \A j \in Unread : i <= j
    <3>1. DOMAIN Reads(Audit) \in {{}, {1}, 1..2}
      <4>1. Audit \in Registered
        BY UnderWork DEF ReadTable
      <4>2. /\ DOMAIN <<"firewall-mangle">> = {1} /\ DOMAIN <<"system-resource">> = {1}
            /\ DOMAIN <<"routes">> = {1} /\ DOMAIN <<"bridge-ports", "bridge-vlans">> = 1..2
            /\ DOMAIN <<>> = {}
        OBVIOUS
      <4> QED
        BY <4>1, <4>2, FourAudits DEF Reads, DeadMangleReads
    <3>2. Unread \subseteq 1..2 /\ Unread # {}
      BY <1>1, <3>1 DEF Unread
    <3>3. CASE 1 \in Unread
      <4>1. \A j \in Unread : 1 <= j
        BY <3>2
      <4> QED
        BY <3>3, <4>1
    <3>4. CASE 1 \notin Unread
      <4>1. \A j \in Unread : j = 2
        BY <3>2, <3>4
      <4>2. PICK i \in Unread : i = 2
        BY <3>2, <4>1
      <4>3. \A j \in Unread : i <= j
        <5> TAKE j \in Unread
        <5>1. j = 2
          BY <4>1
        <5> QED
          BY <4>2, <5>1
      <4> QED
        BY <4>3
    <3> QED
      BY <3>3, <3>4
  <2>2. NextRead \in Unread
    BY <2>1 DEF NextRead
  <2> QED
    BY <2>2 DEF Unread, ToSet
<1>5. FromWhole(Device, x, Served(x, Load(file, x)))
  <2>1. Readable(file)
    BY <1>1 DEF CanRead, Parses
  <2>2. file \in (IF Device = Captured THEN files ELSE {Files[Device]})
    BY <1>1 DEF FileOf, RunInv, Stage
  <2>3. file \in ReadableFiles(Device)
    BY <2>1, <2>2 DEF ReadableFiles
  <2> QED
    BY <2>3 DEF FromWhole
<1> HIDE DEF x, file
<1>6. Gathered'
  <2>1. \A y \in DOMAIN got : y \in ToSet(Reads(Audit)) /\ FromWhole(Device, y, got[y])
    BY <1>1 DEF RunInv, Gathered
  <2>2. got' = [y \in DOMAIN got' |-> got'[y]] /\ DOMAIN got' = DOMAIN got \cup {x}
    BY <1>1
  <2>3. ASSUME NEW y \in DOMAIN got'
        PROVE  y \in ToSet(Reads(Audit)) /\ FromWhole(Device, y, got'[y])
    <3>1. CASE y = x
      BY <1>1, <1>4, <1>5, <3>1
    <3>2. CASE y # x
      BY <1>1, <2>1, <2>2, <3>2
    <3> QED
      BY <3>1, <3>2
  <2>4. \A y \in DOMAIN got' : y \in ToSet(Reads(Audit)') /\ FromWhole(Device, y, got[y])'
    <3>1. Reads(Audit)' = Reads(Audit)
      BY <1>2, <1>3
    <3> QED
      BY <1>2, <1>3, <2>3, <3>1
  <2>5. Len(results') # PairCount'
    BY <1>1, <1>2, UnderWork DEF ReadTable
  <2> QED
    BY <2>2, <2>4, <2>5 DEF Gathered
<1>7. Stage'
  BY <1>1, <1>2 DEF RunInv, Stage
<1>8. SoFar'
  BY <1>1, <1>2, <1>3 DEF RunInv, SoFar
<1>9. Quoted' /\ Outcome'
  BY <1>1, <1>2 DEF RunInv, Quoted, Outcome, Finished
<1> QED
  BY <1>6, <1>7, <1>8, <1>9 DEF RunInv

\* What a pair that is judged adds: a result that goes back to whole files.
LEMMA JudgedType ==
  ASSUME OperatorReportAssumption, RunInv, Judge
  PROVE  \E r \in Result : /\ results' = Append(results, r)
                            /\ r.device = Device /\ r.audit = Audit
                            /\ Grounded(r) /\ Quotes(r)
<1> DEFINE r == [device |-> Device, audit |-> Audit,
                 findings |-> Judgement(Audit, RoleOf(Device), got),
                 evidence |-> Evidence(Audit, got)]
<1>1. Working /\ Unread = {} /\ cli = "run" /\ results' = Append(results, r)
  BY DEF Judge, Working
<1>2. scenario \in Scenarios
  BY DEF RunInv, Stage
<1>3. DOMAIN got = ToSet(Reads(Audit)) /\ got = [x \in DOMAIN got |-> got[x]]
  <2>1. \A x \in DOMAIN got : x \in ToSet(Reads(Audit))
    BY <1>1 DEF RunInv, Gathered
  <2>2. \A i \in DOMAIN Reads(Audit) : Reads(Audit)[i] \in DOMAIN got
    BY <1>1 DEF Unread
  <2>3. got = [x \in DOMAIN got |-> got[x]]
    BY <1>1 DEF RunInv, Gathered
  <2> QED
    BY <2>1, <2>2, <2>3 DEF ToSet
<1>5. \A x \in DOMAIN got : FromWhole(Device, x, got[x])
  BY <1>1 DEF RunInv, Gathered
<1> DEFINE file(x) == CHOOSE f \in ReadableFiles(Device) : got[x] = Served(x, Load(f, x))
           fs == [x \in ToSet(Reads(Audit)) |-> file(x)]
<1>6. \A x \in DOMAIN got :
        file(x) \in ReadableFiles(Device) /\ got[x] = Served(x, Load(file(x), x))
  <2> TAKE x \in DOMAIN got
  <2>1. \E f \in ReadableFiles(Device) : got[x] = Served(x, Load(f, x))
    BY <1>5 DEF FromWhole
  <2> QED
    BY <2>1
<1>7. Grounded(r)
  <2> HIDE DEF file
  <2>1. fs \in FilesRead(Device, Audit) /\ DOMAIN fs = DOMAIN got
    BY <1>3, <1>6 DEF FilesRead
  <2>2. \A x \in DOMAIN got : got[x] = Served(x, Load(fs[x], x))
    BY <1>3, <1>6
  <2> HIDE DEF fs
  <2>3. got = [x \in DOMAIN fs |-> Served(x, Load(fs[x], x))]
    BY <1>3, <2>1, <2>2
  <2>4. r.findings = VerdictOn(Device, Audit, fs)
    BY <2>3 DEF VerdictOn
  <2> QED
    BY <2>1, <2>4 DEF Grounded
<1>8. \A text \in Evidence(Audit, got) : text = Redact(scenario.note)
  <2>1. CASE Audit = "dead_mangle_rules"
    <3>1. "firewall-mangle" \in ToSet(<<"firewall-mangle">>)
      BY DEF ToSet
    <3>2. "firewall-mangle" \in DOMAIN got
      BY <1>3, <2>1, <3>1 DEF Reads, DeadMangleReads
    <3>3. got["firewall-mangle"]
            = Served("firewall-mangle", Load(file("firewall-mangle"), "firewall-mangle"))
      BY <1>6, <3>2
    <3> HIDE DEF file
    <3> QED
      BY <3>3, EvidenceRedacted
  <2>2. CASE Audit # "dead_mangle_rules"
    BY <2>2 DEF Evidence
  <2> QED
    BY <2>1, <2>2
<1>9. r \in Result
  <2>1. Device \in ToSet(Targets) /\ Audit \in Registered
    BY <1>1, UnderWork
  <2>2. Judgement(Audit, RoleOf(Device), got) \in SUBSET Finding
    BY <1>2, <2>1, JudgementType
  <2>3. Evidence(Audit, got) \in SUBSET Seq(Tokens)
    <3>1. scenario.note \in Seq(Tokens)
      BY <1>2 DEF OperatorReportAssumption
    <3>2. Redact(scenario.note) \in Seq(Tokens)
      BY <3>1, RedactType
    <3> QED
      BY <1>8, <3>2
  <2> QED
    BY <2>1, <2>2, <2>3 DEF Result, Registered
<1>10. Quotes(r)
  BY <1>8 DEF Quotes
<1> HIDE DEF r
<1>11. r.device = Device /\ r.audit = Audit
  BY DEF r
<1> QED
  BY <1>1, <1>7, <1>9, <1>10, <1>11

\* The audit returns.
LEMMA JudgeHolds == ASSUME OperatorReportAssumption, RunInv, Judge PROVE RunInv'
<1>1. /\ cli = "run" /\ Len(results) < PairCount /\ got' = NoTables
      /\ UNCHANGED <<scenario, cli, inventory, printed, exit, files, fixture>>
  BY DEF Judge, Working, still, captureVars
<1>2. /\ PairCount' = PairCount /\ (\A i : PairAt(i)' = PairAt(i)) /\ Result' = Result
      /\ (Known' <=> Known) /\ (Loaded' <=> Loaded)
      /\ (\A r : Quotes(r)' <=> Quotes(r)) /\ (\A r : Grounded(r) => Grounded(r)')
  BY <1>1, Frame, MoreFiles
<1>3. PICK r \in Result : /\ results' = Append(results, r)
                          /\ r.device = Device /\ r.audit = Audit
                          /\ Grounded(r) /\ Quotes(r)
  BY JudgedType
<1> DEFINE n == Len(results)
<1>4. /\ results \in Seq(Result) /\ n \in Nat /\ DOMAIN results = 1..n
      /\ n + 1 \in 1..PairCount
  <2>1. results \in Seq(Result)
    BY <1>1 DEF RunInv, SoFar, Proceeding
  <2> QED
    BY <2>1, LenProperties, UnderWork DEF Judge
<1>5. /\ results' \in Seq(Result) /\ Len(results') = n + 1 /\ results'[n + 1] = r
      /\ \A i \in 1..n : results'[i] = results[i]
  BY <1>3, <1>4, AppendProperties
<1>6. DOMAIN results' = 1..n + 1
  BY <1>5, LenProperties
<1> HIDE DEF n
<1>7. Stage'
  BY <1>1, <1>2 DEF RunInv, Stage
<1>8. SoFar'
  <2>1. ASSUME NEW i \in 1..n + 1
        PROVE  /\ results'[i].device = PairAt(i)[1]
               /\ results'[i].audit = PairAt(i)[2]
               /\ Grounded(results'[i])
    <3>1. CASE i = n + 1
      BY <1>3, <1>5, <3>1 DEF Device, Audit, n
    <3>2. CASE i # n + 1
      <4>1. i \in 1..n /\ results'[i] = results[i]
        BY <1>4, <1>5, <3>2
      <4> QED
        BY <1>1, <1>4, <4>1 DEF RunInv, SoFar, Proceeding
    <3> QED
      BY <3>1, <3>2
  <2>2. \A i \in DOMAIN results' : /\ results'[i].device = PairAt(i)'[1]
                                   /\ results'[i].audit = PairAt(i)'[2]
                                   /\ Grounded(results[i])'
    BY <1>2, <1>6, <2>1
  <2>3. Loaded' /\ Known'
    BY <1>1, <1>2 DEF RunInv, SoFar, Proceeding
  <2>4. results' \in Seq(Result') /\ Len(results') <= PairCount'
    BY <1>2, <1>4, <1>5
  <2> QED
    BY <2>2, <2>3, <2>4 DEF SoFar
<1>9. Quoted'
  <2>1. ASSUME NEW i \in 1..n + 1 PROVE Quotes(results'[i])
    <3>1. CASE i = n + 1
      BY <1>3, <1>5, <3>1
    <3>2. CASE i # n + 1
      <4>1. i \in 1..n /\ results'[i] = results[i]
        BY <1>4, <1>5, <3>2
      <4> QED
        BY <1>4, <4>1 DEF RunInv, Quoted
    <3> QED
      BY <3>1, <3>2
  <2>2. \A i \in DOMAIN results' : Quotes(results[i])'
    BY <1>2, <1>6, <2>1
  <2> QED
    BY <2>2 DEF Quoted
<1>10. Gathered'
  <2>1. got' = NoTables /\ DOMAIN NoTables = {} /\ NoTables = [x \in DOMAIN NoTables |-> NoTables[x]]
    BY <1>1 DEF NoTables
  <2> QED
    BY <2>1 DEF Gathered
<1>11. Outcome'
  BY <1>1 DEF Outcome, Finished
<1> QED
  BY <1>7, <1>8, <1>9, <1>10, <1>11 DEF RunInv

\* The results can be counted, and the devices are finitely many.
LEMMA ResultsCountable ==
  ASSUME OperatorReportAssumption, RunInv, cli = "run"
  PROVE  /\ Countable(results) /\ IsFiniteSet(ToSet(Targets))
         /\ \A i \in 1..Len(results) : results[i].device \in ToSet(Targets)
<1>1. scenario \in Scenarios /\ Loaded /\ results \in Seq(Result)
  BY DEF RunInv, Stage, SoFar, Proceeding
<1>2. Len(results) \in Nat /\ DOMAIN results = 1..Len(results)
  BY <1>1, LenProperties
<1>3. ASSUME NEW i \in 1..Len(results)
      PROVE  results[i].device \in ToSet(Targets) /\ IsFiniteSet(results[i].findings)
  <2>1. results[i] \in Result /\ Grounded(results[i])
    BY <1>1, <1>2, ElementOfSeq DEF RunInv, SoFar, Proceeding
  <2>2. results[i].device \in ToSet(Targets) /\ results[i].audit \in Registered
    BY <2>1 DEF Result, Registered
  <2>3. PICK fs \in FilesRead(results[i].device, results[i].audit) :
          results[i].findings = VerdictOn(results[i].device, results[i].audit, fs)
    BY <2>1 DEF Grounded
  <2>4. IsFiniteSet(VerdictOn(results[i].device, results[i].audit, fs))
    BY <1>1, <2>2, JudgementType DEF VerdictOn
  <2> QED
    BY <2>2, <2>3, <2>4
<1>4. IsFiniteSet(ToSet(Targets))
  <2> DEFINE m == Len(Targets)
  <2>1. Targets \in Seq(STRING)
    BY <1>1, Asked
  <2>2. m \in Nat /\ DOMAIN Targets = 1..m
    BY <2>1, LenProperties
  <2>3. Targets \in [1..m -> ToSet(Targets)]
    BY <2>1, <2>2, LenProperties DEF ToSet
  <2>4. Targets \in Surjection(1..m, ToSet(Targets))
    BY <2>2, <2>3 DEF Surjection, ToSet
  <2>5. IsFiniteSet(1..m)
    BY <2>2, FS_Interval
  <2> QED
    BY <2>4, <2>5, FS_Surjection
<1> QED
  BY <1>2, <1>3, <1>4 DEF Countable

\* The report that is printed adds up.
LEMMA ReportAddsUp ==
  ASSUME OperatorReportAssumption, RunInv, cli = "run"
  PROVE  AddsUp(Report)
<1> DEFINE D == ToSet(Targets)
           b == FoldLeft(AddResult, [d \in D |-> NoFindings], results)
<1>1. Countable(results) /\ IsFiniteSet(D) /\ \A i \in 1..Len(results) : results[i].device \in D
  BY ResultsCountable
<1>2. Report.counts = Counts(results) /\ Report.byDevice = b
  BY DEF Report
<1> HIDE DEF D
<1>3. \E c : c = b
  OBVIOUS
<1>4. /\ DOMAIN b = D
      /\ \A status \in STATUS_ORDER : Counts(results)[status] = Total(b, status)
      /\ (\A d \in D : b[d].shown = {})
           => \A status \in ACTIONABLE_STATUSES : Counts(results)[status] = 0
  BY <1>1, <1>3, ReportAdds
<1> HIDE DEF b
<1>5. \A status \in STATUS_ORDER : Report.counts[status] = Total(Report.byDevice, status)
  BY <1>2, <1>4
<1>6. (\A d \in DOMAIN Report.byDevice : Report.byDevice[d].shown = {})
        => \A status \in ACTIONABLE_STATUSES : Report.counts[status] = 0
  BY <1>2, <1>4
<1> QED
  BY <1>5, <1>6 DEF AddsUp, Total

\* Exit code 0: nothing was found of what the command line was to fail on.
LEMMA ZeroIsClean ==
  ASSUME OperatorReportAssumption, RunInv, cli = "run", ExitCode(Counts(results)) = 0
  PROVE  Clean
<1>1. /\ Countable(results) /\ DOMAIN results = 1..Len(results)
  BY ResultsCountable DEF Countable
<1>2. /\ Counts(results)["warn"] \in Nat
      /\ Counts(results)["warn"] = 0
           => \A i \in DOMAIN results : \A f \in results[i].findings : f.status # "warn"
      /\ Counts(results)["fail"] \in Nat
      /\ Counts(results)["fail"] = 0
           => \A i \in DOMAIN results : \A f \in results[i].findings : f.status # "fail"
  BY <1>1, NothingCounted DEF STATUS_ORDER
<1>3. CASE scenario.failOn = "warn"
  <2>1. Counts(results)["warn"] = 0 /\ Counts(results)["fail"] = 0
    <3>1. ~(Counts(results)["warn"] + Counts(results)["fail"] > 0)
      BY <1>3 DEF ExitCode
    <3> QED
      BY <1>2, <3>1
  <2>2. FailedOn = {"warn", "fail"}
    BY <1>3 DEF FailedOn
  <2> QED
    BY <1>2, <2>1, <2>2 DEF Clean
<1>4. CASE scenario.failOn = "fail"
  <2>1. Counts(results)["fail"] = 0
    <3>1. ~(Counts(results)["fail"] > 0)
      BY <1>4 DEF ExitCode
    <3> QED
      BY <1>2, <3>1
  <2>2. FailedOn = {"fail"}
    BY <1>4 DEF FailedOn
  <2> QED
    BY <1>2, <2>1, <2>2 DEF Clean
<1>5. CASE scenario.failOn \notin {"warn", "fail"}
  <2>1. FailedOn = {}
    BY <1>5 DEF FailedOn
  <2> QED
    BY <2>1 DEF Clean
<1> QED
  BY <1>3, <1>4, <1>5

\* The report is printed.
LEMMA FinishHolds == ASSUME OperatorReportAssumption, RunInv, Finish PROVE RunInv'
<1>1. /\ cli = "run" /\ Len(results) = PairCount /\ cli' = "ended"
      /\ UNCHANGED <<scenario, inventory, got, results, files, fixture>>
      /\ \/ /\ scenario.command = "audit" /\ exit' = 0
            /\ printed' = [kind |-> "results", results |-> results]
         \/ /\ scenario.command # "audit"
            /\ exit' = ExitCode(Counts(results)) /\ printed' = Report
  BY DEF Finish, End, still, captureVars
<1>2. /\ PairCount' = PairCount /\ (\A i : PairAt(i)' = PairAt(i)) /\ Result' = Result
      /\ (Known' <=> Known) /\ (Loaded' <=> Loaded)
      /\ (\A r : Quotes(r)' <=> Quotes(r)) /\ (\A r : Grounded(r) => Grounded(r)')
  BY <1>1, Frame, MoreFiles
<1>3. exit' \in {0, 1}
  BY <1>1 DEF ExitCode
<1>4. printed'.kind \in {"results", "report"}
  BY <1>1 DEF Report
<1>5. printed'.kind = "report" => printed' = Report
  BY <1>1
<1>6. exit' = 0 /\ scenario.command # "audit" => Clean
  BY <1>1, ZeroIsClean
<1>7. Stage'
  BY <1>1, <1>2, <1>3, <1>4 DEF RunInv, Stage, NoExit
<1>8. SoFar'
  BY <1>1, <1>2 DEF RunInv, SoFar, Proceeding
<1>9. Quoted' /\ Gathered'
  BY <1>1, <1>2 DEF RunInv, Quoted, Gathered
<1>10. Outcome'
  <2>1. printed' # Nothing
    BY <1>4 DEF Nothing
  <2>2. printed'.kind = "report" => AddsUp(printed')
    BY <1>1, <1>5, ReportAddsUp
  <2>3. exit' = 0 /\ scenario.command # "audit" => Clean'
    BY <1>1, <1>6 DEF Clean, FailedOn
  <2>4. scenario.command # "list-devices"
    BY <1>1 DEF RunInv, Stage
  <2> QED
    BY <1>1, <1>2, <2>1, <2>2, <2>3, <2>4 DEF Outcome
<1> QED
  BY <1>7, <1>8, <1>9, <1>10 DEF RunInv

\* The steps of the run.
LEMMA StepsHold == ASSUME OperatorReportAssumption, RunInv, [Next]_vars PROVE RunInv'
<1>1. CASE BuildService
  BY <1>1, BuildHolds
<1>2. CASE ConfigRefused
  <2>1. cli # "ended" /\ Raise /\ UNCHANGED <<scenario, inventory, got, results, files>>
    BY <1>2 DEF ConfigRefused, still
  <2> QED
    BY <2>1, RaiseHolds
<1>3. CASE ListDevices
  BY <1>3, ListHolds
<1>4. CASE ArgumentRefused
  <2>1. cli # "ended" /\ Raise /\ UNCHANGED <<scenario, inventory, got, results, files>>
    BY <1>4 DEF ArgumentRefused, still
  <2> QED
    BY <2>1, RaiseHolds
<1>5. CASE Begin
  BY <1>5, BeginHolds
<1>6. CASE ReadTable
  BY <1>6, ReadHolds
<1>7. CASE ReadFails
  <2>1. cli # "ended" /\ Raise /\ UNCHANGED <<scenario, inventory, got, results, files>>
    BY <1>7 DEF ReadFails, Working, still
  <2> QED
    BY <2>1, RaiseHolds
<1>8. CASE Judge
  BY <1>8, JudgeHolds
<1>9. CASE Finish
  BY <1>9, FinishHolds
<1>10. CASE Scripting
  <2>1. /\ UNCHANGED <<scenario, cli, inventory, got, results, printed, exit>>
        /\ files' = IF cli = "run" THEN files \cup {fixture'} ELSE files
    BY <1>10 DEF Scripting
  <2> QED
    BY <2>1, BesideHolds
<1>11. CASE UNCHANGED vars
  <2>1. UNCHANGED <<scenario, cli, inventory, got, results, printed, exit, files, fixture>>
    BY <1>11 DEF vars, cliVars, captureVars
  <2>2. files' = IF cli = "run" THEN files \cup {fixture'} ELSE files
    BY <2>1 DEF RunInv, Stage
  <2> QED
    BY <2>1, <2>2, BesideHolds
<1> QED
  BY <1>1, <1>2, <1>3, <1>4, <1>5, <1>6, <1>7, <1>8, <1>9, <1>10, <1>11 DEF Next, Cli

LEMMA RunInvariant == ASSUME OperatorReportAssumption PROVE Spec => []RunInv
<1>1. Init => RunInv
  BY InitRuns
<1>2. RunInv /\ [Next]_vars => RunInv'
  BY StepsHold
<1> QED
  BY <1>1, <1>2, PTL DEF Spec

-----------------------------------------------------------------------------
(* What is proved of the scripts holds while the file is read.              *)

\* The command line only reads: every step is one of a script, or leaves the
\* artifacts, the scripts and the fixture file alone.
LEMMA OnlyReads == ASSUME [Next]_vars PROVE [CaptureNext]_captureVars
<1>1. CASE Cli
  BY <1>1 DEF Cli, BuildService, ConfigRefused, ListDevices, ArgumentRefused, Begin,
              ReadTable, ReadFails, Judge, Finish, Raise, End, still
<1>2. CASE Scripting
  BY <1>2 DEF Scripting
<1>3. CASE UNCHANGED vars
  BY <1>3 DEF vars
<1> QED
  BY <1>1, <1>2, <1>3 DEF Next

\* Reading the file in between, as often as an audit wants to, does not make the
\* scripts do anything they would not do alone.
THEOREM ReaderKeepsScripts == Spec => CaptureSpec
<1>1. Init => CaptureInit
  BY DEF Init
<1>2. [Next]_vars => [CaptureNext]_captureVars
  BY OnlyReads
<1> QED
  BY <1>1, <1>2, PTL DEF Spec, CaptureSpec

\* So while a report is made, too, what --capture-live publishes is one capture,
\* and a file the report cannot read has a cause.
THEOREM WhileReading ==
  ASSUME FixtureCaptureAssumption
  PROVE  Spec => [](LiveBuildIsOneCapture /\ UnreadableHasCause)
<1>1. CaptureSpec => []LiveBuildIsOneCapture
  BY OneCapture
<1>2. CaptureSpec => []UnreadableHasCause
  BY CauseOfUnreadable
<1> QED
  BY <1>1, <1>2, ReaderKeepsScripts, PTL

-----------------------------------------------------------------------------
(* What the run promises.                                                  *)

\* main is always in one of its phases, and its results are of the devices and
\* audits that were asked for.
THEOREM RunTypeCorrect ==
  ASSUME FixtureCaptureAssumption, OperatorReportAssumption
  PROVE  Spec => []TypeOK
<1>1. RunInv /\ CaptureTypeOK => TypeOK
  <2> SUFFICES ASSUME RunInv, CaptureTypeOK PROVE TypeOK
    OBVIOUS
  <2>1. cli = "run" => results \in Seq(Result)
    BY DEF RunInv, SoFar, Proceeding
  <2>2. files # {} => fixture \in files \/ cli = "ended"
    BY DEF RunInv, Stage
  <2> QED
    BY <2>1, <2>2 DEF TypeOK, RunInv, Stage
<1>2. CaptureSpec => []CaptureTypeOK
  BY CaptureTypeCorrect
<1> QED
  BY <1>1, <1>2, RunInvariant, ReaderKeepsScripts, PTL

\* A run that ends well has a result for every device and audit asked for, in
\* order, and a report that adds up; any other prints nothing.
THEOREM WholeOrNothing ==
  ASSUME OperatorReportAssumption PROVE Spec => []AllOrNothing
<1>1. RunInv => AllOrNothing
  <2> SUFFICES ASSUME RunInv, Finished PROVE AllOrNothing
    BY DEF AllOrNothing
  <2>1. CASE exit = 2
    BY <2>1 DEF RunInv, Stage, AllOrNothing
  <2>2. CASE exit # 2
    <3>1. /\ Len(results) = PairCount /\ printed # Nothing
          /\ printed.kind = "report" => AddsUp(printed)
      BY <2>2 DEF RunInv, Outcome
    <3>2. results \in Seq(Result) /\ Loaded /\ scenario \in Scenarios
      BY <2>2 DEF RunInv, Stage, SoFar, Proceeding
    <3>3. DOMAIN results = 1..PairCount
      BY <3>1, <3>2, LenProperties
    <3>4. \A i \in 1..PairCount : <<results[i].device, results[i].audit>> = PairAt(i)
      <4> TAKE i \in 1..PairCount
      <4>1. results[i].device = PairAt(i)[1] /\ results[i].audit = PairAt(i)[2]
        BY <2>2, <3>3 DEF RunInv, SoFar, Proceeding
      <4>2. PairAt(i) = <<PairAt(i)[1], PairAt(i)[2]>>
        BY DEF PairAt
      <4> QED
        BY <4>1, <4>2
    <3>5. [i \in DOMAIN results |-> <<results[i].device, results[i].audit>>]
            = [i \in 1..PairCount |-> PairAt(i)]
      BY <3>3, <3>4
    <3> QED
      BY <2>2, <3>1, <3>5 DEF AllOrNothing
  <2> QED
    BY <2>1, <2>2
<1> QED
  BY <1>1, RunInvariant, PTL

\* While the scripts rewrite the file, every finding still goes back to tables
\* as they stood in a whole one.
THEOREM NeverHalfAFile ==
  ASSUME OperatorReportAssumption PROVE Spec => []VerdictsFromWholeFiles
<1>1. RunInv => VerdictsFromWholeFiles
  <2> SUFFICES ASSUME RunInv, cli = "run" \/ exit \in {0, 1}, NEW i \in DOMAIN results
               PROVE  Grounded(results[i])
    BY DEF VerdictsFromWholeFiles, Grounded
  <2>1. CASE Proceeding
    BY <2>1 DEF RunInv, SoFar
  <2>2. CASE ~Proceeding
    <3>1. cli = "ended" /\ exit # 2 /\ scenario.command = "list-devices"
      BY <2>2 DEF RunInv, Stage, Proceeding, Finished, NoExit
    <3>2. results = <<>>
      BY <3>1 DEF RunInv, Outcome
    <3> QED
      BY <3>2
  <2> QED
    BY <2>1, <2>2
<1> QED
  BY <1>1, RunInvariant, PTL

\* Exit code 0 of a baseline or a report: behind every pair asked for there are
\* files in which the audit finds nothing of what it was to fail on.
THEOREM GreenIsClean ==
  ASSUME OperatorReportAssumption PROVE Spec => []GreenMeansClean
<1>1. RunInv => GreenMeansClean
  <2> SUFFICES ASSUME RunInv, Finished, exit = 0, scenario.command # "audit",
                      NEW i \in 1..PairCount
               PROVE  \E fs \in FilesRead(PairAt(i)[1], PairAt(i)[2]) :
                        \A f \in VerdictOn(PairAt(i)[1], PairAt(i)[2], fs) : f.status \notin FailedOn
    BY DEF GreenMeansClean
  <2>1. Len(results) = PairCount /\ Clean /\ results \in Seq(Result)
    BY DEF RunInv, Outcome, SoFar, Proceeding
  <2>2. i \in DOMAIN results
    BY <2>1, LenProperties
  <2>3. /\ results[i].device = PairAt(i)[1] /\ results[i].audit = PairAt(i)[2]
        /\ Grounded(results[i])
    BY <2>2 DEF RunInv, SoFar, Proceeding
  <2>4. PICK fs \in FilesRead(PairAt(i)[1], PairAt(i)[2]) :
          results[i].findings = VerdictOn(PairAt(i)[1], PairAt(i)[2], fs)
    BY <2>3 DEF Grounded
  <2>5. \A f \in results[i].findings : f.status \notin FailedOn
    BY <2>1, <2>2 DEF Clean
  <2> QED
    BY <2>4, <2>5
<1> QED
  BY <1>1, RunInvariant, PTL

\* Secrets that are words of their own are gone from the evidence, whatever the
\* text, and a second redaction finds nothing to do.
THEOREM NoSeparateSecret ==
  ASSUME OperatorReportAssumption PROVE Spec => []SeparateSecretsGo
<1>1. RunInv => SeparateSecretsGo
  <2> SUFFICES ASSUME RunInv, Separate(scenario.note), NEW i \in DOMAIN results,
                      NEW text \in results[i].evidence
               PROVE  /\ \A j \in DOMAIN text : text[j] = IF scenario.note[j] \in Secrets
                                                          THEN "redacted" ELSE scenario.note[j]
                      /\ Redact(text) = text
    BY DEF SeparateSecretsGo
  <2>1. scenario.note \in Seq(Tokens)
    BY DEF RunInv, Stage, OperatorReportAssumption
  <2>2. text = Redact(scenario.note)
    BY DEF RunInv, Quoted, Quotes
  <2>3. text = [j \in DOMAIN scenario.note |-> IF scenario.note[j] \in Secrets
                                               THEN "redacted" ELSE scenario.note[j]]
    BY <2>1, <2>2, RedactSeparate
  <2>4. Redact(text) = text
    BY <2>1, <2>2, RedactTwice
  <2> QED
    BY <2>3, <2>4
<1> QED
  BY <1>1, RunInvariant, PTL

===============================================================================
