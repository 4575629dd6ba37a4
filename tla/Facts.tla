------------------------------- MODULE Facts -------------------------------
(***************************************************************************)
(* The lemmas that the proofs share: what queueing and dequeueing do to    *)
(* the elements of a sequence and to their number, and what the reference  *)
(* walks of module Dag meet.                                               *)
(***************************************************************************)
EXTENDS Dag, Sequences, Integers, Functions, FiniteSetTheorems, TLAPS

\* The positions and the elements of a sequence.
LEMMA SeqRange ==
  ASSUME NEW T, NEW s \in Seq(T)
  PROVE  /\ Len(s) \in Nat
         /\ DOMAIN s = 1 .. Len(s)
         /\ Range(s) \subseteq T
         /\ \A i \in 1 .. Len(s) : s[i] \in Range(s)
<1>1. Len(s) \in Nat /\ DOMAIN s = 1 .. Len(s) /\ \A i \in 1 .. Len(s) : s[i] \in T
  OBVIOUS
<1>2. QED
  BY <1>1 DEF Range

\* Appending adds one element at the end.
LEMMA AppendFacts ==
  ASSUME NEW T, NEW s \in Seq(T), NEW x \in T
  PROVE  /\ Append(s, x) \in Seq(T)
         /\ Range(Append(s, x)) = Range(s) \cup {x}
         /\ IsInjective(s) /\ x \notin Range(s) => IsInjective(Append(s, x))
<1> DEFINE t == Append(s, x)
           n == Len(s)
<1>1. n \in Nat /\ DOMAIN s = 1 .. n /\ t \in Seq(T) /\ DOMAIN t = 1 .. n + 1
  OBVIOUS
<1>2. (\A i \in 1 .. n : t[i] = s[i]) /\ t[n + 1] = x
  OBVIOUS
<1>3. \A i \in 1 .. n + 1 : i \in 1 .. n \/ i = n + 1
  BY <1>1
<1>4. 1 .. n \subseteq 1 .. n + 1 /\ n + 1 \in 1 .. n + 1
  BY <1>1
<1> HIDE DEF n, t
<1>5. Range(t) = Range(s) \cup {x}
  BY <1>1, <1>2, <1>3, <1>4 DEF Range
<1>6. ASSUME IsInjective(s), x \notin Range(s) PROVE IsInjective(t)
  <2>1. \A i \in 1 .. n : s[i] # x
    BY <1>1, <1>6 DEF Range
  <2>2. QED
    BY <1>1, <1>2, <1>3, <1>6, <2>1 DEF IsInjective
<1>7. QED
  BY <1>1, <1>5, <1>6 DEF t

\* Taking the head away leaves the other elements.
LEMMA TailFacts ==
  ASSUME NEW T, NEW s \in Seq(T), s # <<>>
  PROVE  /\ Head(s) \in T
         /\ Tail(s) \in Seq(T)
         /\ Range(s) = Range(Tail(s)) \cup {Head(s)}
         /\ IsInjective(s) => IsInjective(Tail(s)) /\ Head(s) \notin Range(Tail(s))
<1> DEFINE t == Tail(s)
           n == Len(s)
<1>1. /\ n \in Nat /\ n >= 1 /\ DOMAIN s = 1 .. n
      /\ t \in Seq(T) /\ DOMAIN t = 1 .. n - 1
      /\ Head(s) = s[1] /\ s[1] \in T
  OBVIOUS
<1>2. \A i \in 1 .. n - 1 : t[i] = s[i + 1]
  OBVIOUS
<1>3. \A i \in 1 .. n - 1 : i + 1 \in 1 .. n /\ i + 1 # 1
  BY <1>1
<1>4. \A i \in 1 .. n : i = 1 \/ (i - 1 \in 1 .. n - 1 /\ (i - 1) + 1 = i)
  BY <1>1
<1>5. 1 \in 1 .. n
  BY <1>1
<1> HIDE DEF n, t
<1>6. Range(s) = Range(t) \cup {s[1]}
  <2>1. ASSUME NEW y \in Range(s) PROVE y \in Range(t) \cup {s[1]}
    <3>1. PICK i \in 1 .. n : y = s[i]
      BY <1>1, <2>1 DEF Range
    <3>2. i = 1 \/ y = t[i - 1]
      BY <1>2, <1>4, <3>1
    <3>3. QED
      BY <1>1, <1>4, <3>1, <3>2 DEF Range
  <2>2. ASSUME NEW y \in Range(t) PROVE y \in Range(s)
    <3>1. PICK i \in 1 .. n - 1 : y = t[i]
      BY <1>1, <2>2 DEF Range
    <3>2. y = s[i + 1] /\ i + 1 \in 1 .. n
      BY <1>2, <1>3, <3>1
    <3>3. QED
      BY <1>1, <3>2 DEF Range
  <2>3. s[1] \in Range(s)
    BY <1>1, <1>5 DEF Range
  <2>4. QED
    BY <2>1, <2>2, <2>3
<1>7. ASSUME IsInjective(s) PROVE IsInjective(t) /\ s[1] \notin Range(t)
  <2>1. ASSUME NEW i \in 1 .. n - 1, NEW j \in 1 .. n - 1, t[i] = t[j] PROVE i = j
    <3>1. s[i + 1] = s[j + 1]
      BY <1>2, <2>1
    <3>2. i + 1 = j + 1
      BY <1>1, <1>3, <1>7, <3>1 DEF IsInjective
    <3>3. QED
      BY <1>1, <3>2
  <2>2. ASSUME NEW i \in 1 .. n - 1 PROVE t[i] # s[1]
    BY <1>1, <1>2, <1>3, <1>5, <1>7 DEF IsInjective
  <2>3. QED
    BY <1>1, <2>1, <2>2 DEF IsInjective, Range
<1>8. QED
  BY <1>1, <1>6, <1>7 DEF t

\* What a stack is made of: what is under its top, and the top.
LEMMA TopFacts ==
  ASSUME NEW T, NEW s \in Seq(T), s # <<>>
  PROVE  /\ s[Len(s)] \in T
         /\ SubSeq(s, 1, Len(s) - 1) \in Seq(T)
         /\ Range(s) = Range(SubSeq(s, 1, Len(s) - 1)) \cup {s[Len(s)]}
<1> DEFINE n == Len(s)
           r == SubSeq(s, 1, n - 1)
<1>1. n \in Nat /\ n >= 1 /\ DOMAIN s = 1 .. n /\ \A i \in 1 .. n : s[i] \in T
  OBVIOUS
<1>2. r \in Seq(T) /\ DOMAIN r = 1 .. n - 1 /\ \A i \in 1 .. n - 1 : r[i] = s[i]
  BY <1>1
<1> HIDE DEF r, n
<1>3. 1 .. n = (1 .. n - 1) \cup {n}
  BY <1>1
<1>4. Range(s) = Range(r) \cup {s[n]}
  BY <1>1, <1>2, <1>3 DEF Range
<1>5. s[n] \in T
  BY <1>1, <1>3
<1>6. QED
  BY <1>2, <1>4, <1>5 DEF r, n

\* What two sequences, one after the other, are made of.
LEMMA ConcatFacts ==
  ASSUME NEW T, NEW s \in Seq(T), NEW t \in Seq(T)
  PROVE  s \o t \in Seq(T) /\ Range(s \o t) = Range(s) \cup Range(t)
<1> DEFINE n == Len(s)
           m == Len(t)
           u == s \o t
<1>1. n \in Nat /\ m \in Nat /\ DOMAIN s = 1 .. n /\ DOMAIN t = 1 .. m
  OBVIOUS
<1>2. u \in Seq(T) /\ DOMAIN u = 1 .. n + m
  OBVIOUS
<1>3. (\A i \in 1 .. n : u[i] = s[i]) /\ \A i \in 1 .. m : u[n + i] = t[i]
  OBVIOUS
<1> HIDE DEF u, n, m
<1>4. ASSUME NEW x \in Range(u) PROVE x \in Range(s) \cup Range(t)
  <2>1. PICK i \in 1 .. n + m : x = u[i]
    BY <1>2, <1>4 DEF Range
  <2>2. CASE i \in 1 .. n
    BY <1>1, <1>3, <2>1, <2>2 DEF Range
  <2>3. CASE i \notin 1 .. n
    <3>1. i - n \in 1 .. m /\ n + (i - n) = i
      BY <1>1, <2>3
    <3>2. u[i] = t[i - n]
      BY <1>3, <3>1
    <3>3. QED
      BY <1>1, <2>1, <3>1, <3>2 DEF Range
  <2>4. QED
    BY <2>2, <2>3
<1>5. Range(s) \subseteq Range(u)
  <2>1. 1 .. n \subseteq 1 .. n + m
    BY <1>1
  <2>2. QED
    BY <1>1, <1>2, <1>3, <2>1 DEF Range
<1>6. Range(t) \subseteq Range(u)
  <2>1. \A i \in 1 .. m : n + i \in 1 .. n + m
    BY <1>1
  <2>2. QED
    BY <1>1, <1>2, <1>3, <2>1 DEF Range
<1>7. QED
  BY <1>2, <1>4, <1>5, <1>6 DEF u

\* The empty sequence has no element.
LEMMA EmptyFacts ==
  ASSUME NEW T
  PROVE  <<>> \in Seq(T) /\ Range(<<>>) = {} /\ IsInjective(<<>>)
BY DEF Range, IsInjective

-----------------------------------------------------------------------------
(***************************************************************************)
(* Counting: the positions of a sequence that hold an element of S.        *)
(***************************************************************************)
Positions(s, S) == {i \in DOMAIN s : s[i] \in S}

\* Positions are countable.
LEMMA PositionsFinite ==
  ASSUME NEW T, NEW s \in Seq(T), NEW S
  PROVE  IsFiniteSet(Positions(s, S)) /\ Cardinality(Positions(s, S)) \in Nat
<1>1. Len(s) \in Nat /\ DOMAIN s = 1 .. Len(s)
  OBVIOUS
<1>2. IsFiniteSet(1 .. Len(s))
  BY <1>1, FS_Interval
<1>3. Positions(s, S) \in SUBSET (1 .. Len(s))
  BY <1>1 DEF Positions
<1>4. IsFiniteSet(Positions(s, S))
  BY <1>2, <1>3, FS_Subset
<1>5. QED
  BY <1>4, FS_CardinalityType

\* An empty sequence has none.
LEMMA NoPositions == ASSUME NEW S PROVE Cardinality(Positions(<<>>, S)) = 0
<1>1. Positions(<<>>, S) = {}
  BY DEF Positions
<1>2. QED
  BY <1>1, FS_EmptySet

\* An element that is queued is counted if it is one of S.
LEMMA CountAppend ==
  ASSUME NEW T, NEW s \in Seq(T), NEW x \in T, NEW S
  PROVE  Cardinality(Positions(Append(s, x), S))
           = Cardinality(Positions(s, S)) + (IF x \in S THEN 1 ELSE 0)
<1> DEFINE n == Len(s)
           t == Append(s, x)
<1>1. n \in Nat /\ DOMAIN s = 1 .. n /\ DOMAIN t = 1 .. n + 1
  OBVIOUS
<1>2. (\A i \in 1 .. n : t[i] = s[i]) /\ t[n + 1] = x
  OBVIOUS
<1>3. \A i : i \in 1 .. n + 1 <=> i \in 1 .. n \/ i = n + 1
  BY <1>1
<1>4. n + 1 \notin 1 .. n
  BY <1>1
<1> HIDE DEF n, t
<1>5. IsFiniteSet(Positions(s, S)) /\ Cardinality(Positions(s, S)) \in Nat
  BY PositionsFinite
<1>6. CASE x \in S
  <2>1. Positions(t, S) = Positions(s, S) \cup {n + 1}
    BY <1>1, <1>2, <1>3, <1>6 DEF Positions
  <2>2. n + 1 \notin Positions(s, S)
    BY <1>1, <1>4 DEF Positions
  <2>3. QED
    BY <1>5, <1>6, <2>1, <2>2, FS_AddElement DEF t
<1>7. CASE x \notin S
  <2>1. Positions(t, S) = Positions(s, S)
    BY <1>1, <1>2, <1>3, <1>7 DEF Positions
  <2>2. QED
    BY <1>5, <1>7, <2>1 DEF t
<1>8. QED
  BY <1>6, <1>7

\* An element that is dequeued is no longer counted, the others are.
LEMMA CountTail ==
  ASSUME NEW T, NEW s \in Seq(T), s # <<>>, NEW S
  PROVE  Cardinality(Positions(s, S))
           = Cardinality(Positions(Tail(s), S)) + (IF Head(s) \in S THEN 1 ELSE 0)
<1> DEFINE n == Len(s)
           t == Tail(s)
           P == Positions(s, S)
           Q == Positions(t, S)
           R == P \ {1}
           f == [i \in Q |-> i + 1]
<1>1. n \in Nat /\ n >= 1 /\ DOMAIN s = 1 .. n /\ DOMAIN t = 1 .. n - 1 /\ Head(s) = s[1]
  OBVIOUS
<1>2. \A i \in 1 .. n - 1 : t[i] = s[i + 1]
  OBVIOUS
<1>3. t \in Seq(T)
  OBVIOUS
<1> HIDE DEF n, t
<1>4. IsFiniteSet(P) /\ Cardinality(P) \in Nat /\ IsFiniteSet(Q) /\ Cardinality(Q) \in Nat
  BY <1>3, PositionsFinite
<1>5. f \in Bijection(Q, R)
  <2>1. Q \subseteq 1 .. n - 1 /\ R \subseteq 2 .. n
    BY <1>1 DEF Positions
  <2>2. \A i \in Q : i + 1 \in R
    <3>1. \A i \in 1 .. n - 1 : i + 1 \in 1 .. n /\ i + 1 # 1
      BY <1>1
    <3>2. QED
      BY <1>1, <1>2, <2>1, <3>1 DEF Positions
  <2>3. \A j \in R : \E i \in Q : i + 1 = j
    <3>1. SUFFICES ASSUME NEW j \in R PROVE j - 1 \in Q /\ (j - 1) + 1 = j
      OBVIOUS
    <3>2. j - 1 \in 1 .. n - 1 /\ (j - 1) + 1 = j
      BY <1>1, <2>1
    <3>3. t[j - 1] = s[j] /\ s[j] \in S
      BY <1>2, <3>2 DEF Positions
    <3>4. QED
      BY <1>1, <3>2, <3>3 DEF Positions
  <2>4. \A i, j \in Q : i + 1 = j + 1 => i = j
    BY <1>1, <2>1
  <2>5. f \in [Q -> R] /\ \A i \in Q : f[i] = i + 1
    BY <2>2
  <2> HIDE DEF f, Q, R
  <2>6. QED
    BY <2>3, <2>4, <2>5 DEF Bijection, Injection, Surjection, IsInjective
<1>6. Cardinality(R) = Cardinality(Q)
  BY <1>4, <1>5, FS_Bijection DEF ExistsBijection
<1>7. Cardinality(R) = IF 1 \in P THEN Cardinality(P) - 1 ELSE Cardinality(P)
  BY <1>4, FS_RemoveElement
<1>8. 1 \in P <=> Head(s) \in S
  BY <1>1 DEF Positions
<1>9. QED
  BY <1>4, <1>6, <1>7, <1>8 DEF t

-----------------------------------------------------------------------------
(***************************************************************************)
(* The reference walks.  ReachIn is the least closed set that holds the    *)
(* root; everything below follows from that.                               *)
(***************************************************************************)
\* The whole DAG is what a walk meets that can open every block.
LEMMA ReachWhole ==
  ASSUME NEW Cids, NEW links \in Graph(Cids), NEW root
  PROVE  Reach(links, root) = ReachIn(links, root, Cids)
BY DEF Reach, Graph

\* The root itself is met by the walk.
LEMMA RootReached ==
  ASSUME NEW Cids, NEW links \in Graph(Cids), NEW root \in Cids, NEW st
  PROVE  root \in ReachIn(links, root, st)
BY DEF ReachIn, Graph

\* The blocks that the walk meets are blocks.
LEMMA ReachType ==
  ASSUME NEW Cids, NEW links \in Graph(Cids), NEW root, NEW st
  PROVE  ReachIn(links, root, st) \subseteq Cids
BY DEF ReachIn, Graph

\* The set of blocks met is closed: the links of a met block that is in the
\* store are met.
LEMMA ReachClosed ==
  ASSUME NEW Cids, NEW links \in Graph(Cids), NEW root \in Cids, NEW st,
         NEW c \in ReachIn(links, root, st), c \in st
  PROVE  links[c] \subseteq ReachIn(links, root, st)
<1>1. c \in Cids /\ links[c] \subseteq Cids
  BY ReachType DEF Graph
<1>2. SUFFICES ASSUME NEW d \in links[c],
                      NEW S \in SUBSET Cids, root \in S, ClosedUnder(links, S, st)
               PROVE  d \in S
  BY <1>1 DEF ReachIn, Graph
<1>3. c \in S
  BY <1>2 DEF ReachIn, Graph
<1>4. QED
  BY <1>2, <1>3 DEF ClosedUnder

\* It is the least such set.
LEMMA ReachLeast ==
  ASSUME NEW Cids, NEW links \in Graph(Cids), NEW root \in Cids, NEW st,
         NEW S \in SUBSET Cids, root \in S, ClosedUnder(links, S, st)
  PROVE  ReachIn(links, root, st) \subseteq S
BY DEF ReachIn, Graph

\* A walk that can open fewer blocks meets fewer blocks.
LEMMA ReachMonotone ==
  ASSUME NEW Cids, NEW links \in Graph(Cids), NEW root \in Cids,
         NEW st, NEW big \in SUBSET Cids, st \subseteq big
  PROVE  ReachIn(links, root, st) \subseteq ReachIn(links, root, big)
<1>1. ClosedUnder(links, ReachIn(links, root, big), st)
  BY ReachClosed DEF ClosedUnder
<1>2. QED
  BY <1>1, RootReached, ReachType, ReachLeast

\* The DAG under a block of the DAG is part of it.
LEMMA ReachTransitive ==
  ASSUME NEW Cids, NEW links \in Graph(Cids), NEW root \in Cids, NEW c \in Reach(links, root)
  PROVE  Reach(links, c) \subseteq Reach(links, root)
<1>1. c \in Cids /\ Reach(links, root) \in SUBSET Cids
  BY ReachType, ReachWhole
<1>2. ClosedUnder(links, Reach(links, root), Cids)
  BY ReachClosed, ReachType, ReachWhole DEF ClosedUnder
<1>3. QED
  BY <1>1, <1>2, ReachLeast, ReachWhole

\* A walk meets its root and, if it can open it, what the walks from the
\* root's links meet; nothing else.
LEMMA ReachSplit ==
  ASSUME NEW Cids, NEW links \in Graph(Cids), NEW root \in Cids, NEW st,
         NEW d \in ReachIn(links, root, st), d # root
  PROVE  root \in st /\ \E l \in links[root] : d \in ReachIn(links, l, st)
<1> DEFINE below == {e \in Cids : \E l \in links[root] : e \in ReachIn(links, l, st)}
           S == {root} \cup (IF root \in st THEN below ELSE {})
<1>1. links[root] \subseteq Cids
  BY DEF Graph
<1>2. \A l \in links[root] : l \in below
  BY <1>1, RootReached
<1>3. ASSUME NEW e \in below, e \in st PROVE links[e] \subseteq below
  <2>1. PICK l \in links[root] : e \in ReachIn(links, l, st)
    OBVIOUS
  <2>2. links[e] \subseteq ReachIn(links, l, st) /\ links[e] \subseteq Cids
    BY <1>1, <1>3, <2>1, ReachClosed DEF Graph
  <2>3. QED
    BY <2>1, <2>2
<1>4. S \in SUBSET Cids /\ root \in S /\ ClosedUnder(links, S, st)
  BY <1>2, <1>3 DEF ClosedUnder
<1>5. d \in S
  BY <1>4, ReachLeast
<1>6. QED
  BY <1>5

(***************************************************************************)
(* What missing_blocks reports covers what is not stored: every block of   *)
(* the DAG is in the store or lies under a reported one.                   *)
(***************************************************************************)
LEMMA MissingCovers ==
  ASSUME NEW Cids, NEW links \in Graph(Cids), NEW root \in Cids, NEW st \in SUBSET Cids,
         NEW d \in Reach(links, root), d \notin st
  PROVE  \E m \in MissingIn(links, root, st) : d \in Reach(links, m)
<1> DEFINE W == ReachIn(links, root, st)
           U == {e \in Cids : \E m \in MissingIn(links, root, st) : e \in Reach(links, m)}
           S == (W \cap st) \cup U
<1>1. W \in SUBSET Cids /\ U \in SUBSET Cids /\ MissingIn(links, root, st) \subseteq Cids
  BY ReachType DEF MissingIn
<1>2. ASSUME NEW e \in W PROVE e \in S
  <2>1. CASE e \in st
    BY <1>2, <2>1
  <2>2. CASE e \notin st
    <3>1. e \in MissingIn(links, root, st) /\ e \in Cids
      BY <1>1, <1>2, <2>2 DEF MissingIn
    <3>2. e \in Reach(links, e)
      BY <3>1, RootReached, ReachWhole
    <3>3. QED
      BY <3>1, <3>2
  <2>3. QED
    BY <2>1, <2>2
<1>3. root \in S
  BY <1>2, RootReached
<1>4. ASSUME NEW e \in S PROVE links[e] \subseteq S
  <2>1. CASE e \in W \cap st
    <3>1. links[e] \subseteq W
      BY <2>1, ReachClosed
    <3>2. QED
      BY <3>1, <1>2
  <2>2. CASE e \in U
    <3>1. PICK m \in MissingIn(links, root, st) : e \in Reach(links, m)
      BY <2>2
    <3>2. m \in Cids /\ e \in Cids
      BY <1>1, <2>2
    <3>3. links[e] \subseteq Reach(links, m)
      BY <3>1, <3>2, ReachClosed, ReachWhole
    <3>4. links[e] \subseteq Cids
      BY <3>2 DEF Graph
    <3>5. QED
      BY <3>1, <3>3, <3>4
  <2>3. QED
    BY <1>4, <2>1, <2>2
<1>5. ClosedUnder(links, S, Cids) /\ S \in SUBSET Cids
  BY <1>1, <1>4 DEF ClosedUnder
<1>6. Reach(links, root) \subseteq S
  BY <1>3, <1>5, ReachLeast, ReachWhole
<1>7. d \in U
  BY <1>6
<1>8. QED
  BY <1>7

\* dag_traversal succeeds only when the whole DAG is in the store.
LEMMA PresentMeansWhole ==
  ASSUME NEW Cids, NEW links \in Graph(Cids), NEW root \in Cids, NEW st \in SUBSET Cids
  PROVE  DagPresent(links, root, st) <=> Reach(links, root) \subseteq st
<1>1. ASSUME DagPresent(links, root, st) PROVE Reach(links, root) \subseteq st
  <2>1. MissingIn(links, root, st) = {}
    BY <1>1 DEF DagPresent, MissingIn
  <2>2. QED
    BY <2>1, MissingCovers
<1>2. ASSUME Reach(links, root) \subseteq st PROVE DagPresent(links, root, st)
  BY <1>2, ReachMonotone, ReachWhole DEF DagPresent
<1>3. QED
  BY <1>1, <1>2

=============================================================================
