-------------------------- MODULE StoreWalkProofs --------------------------
(***************************************************************************)
(* The two walks of ursa-store/src/store.rs are correct for every set of   *)
(* blocks, every graph and every interleaving with inserts.                *)
(*                                                                         *)
(* dag_traversal, for every iteration order: the argument is the one of    *)
(* the worklist invariant.  Reach is the least closed set that holds the   *)
(* root, the walk never leaves it, and with an empty worklist the expanded *)
(* blocks are themselves such a set.                                       *)
(*                                                                         *)
(* missing_blocks, for every order and repetition of links: a walk meets   *)
(* its root and what the walks from the root's links meet, so that what is *)
(* under the top of the stack is under what replaces it.                   *)
(***************************************************************************)
EXTENDS DagTraversal, MissingBlocks, Facts


-----------------------------------------------------------------------------
(***************************************************************************)
(* dag_traversal.                                                          *)
(***************************************************************************)

\* The inductive invariant.
IInv == TypeOK /\ WorklistInv /\ NoBlockTwice

\* The invariant holds at the start.
LEMMA InitInv == Init => IInv
<1> SUFFICES ASSUME Init PROVE IInv
  OBVIOUS
<1>1. TypeOK
  BY ShapesAssumption, BadSetsAssumption DEF Init, TypeOK
<1>2. root \in Reach(links, root)
  BY <1>1, RootReached, ReachWhole DEF TypeOK
<1>3. Range(res) = {} /\ NoBlockTwice
  BY EmptyFacts DEF Init, NoBlockTwice
<1>4. QED
  BY <1>1, <1>2, <1>3 DEF Init, IInv, WorklistInv

\* The step where the walk reads a block.
LEMMA ExpandInv ==
  ASSUME IInv, pc = "loop", NEW c \in current, Expand(c),
         UNCHANGED <<links, bad, root, store>>
  PROVE  IInv'
<1> USE DEF IInv, TypeOK
<1>1. c \in Cids /\ links[c] \subseteq Cids
  BY DEF Graph
<1>2. c \in Reach(links, root)
  BY DEF WorklistInv
<1>3. links[c] \subseteq Reach(links, root)
  BY <1>1, <1>2, ReachClosed, ReachWhole
<1>4. res' \in Seq(Cids) /\ Range(res') = Range(res) \cup {c}
  BY <1>1, AppendFacts DEF Expand
<1>5. TypeOK'
  BY <1>1, <1>4 DEF Expand
<1>6. WorklistInv'
  BY <1>2, <1>3, <1>4 DEF WorklistInv, Expand
<1>7. NoBlockTwice'
  BY <1>1, AppendFacts DEF NoBlockTwice, WorklistInv, Expand
<1>8. QED
  BY <1>5, <1>6, <1>7

\* Every step keeps the invariant.
LEMMA NextInv == IInv /\ [Next]_vars => IInv'
<1> SUFFICES ASSUME IInv, [Next]_vars PROVE IInv'
  OBVIOUS
<1>1. CASE Iterate
  <2>1. PICK c \in current : Skip(c) \/ Expand(c) \/ Fail(c) \/ Spoil(c)
    BY <1>1 DEF Iterate
  <2>2. pc = "loop" /\ UNCHANGED <<links, bad, root, store>>
    BY <1>1 DEF Iterate
  <2>3. CASE Skip(c)
    BY <2>2, <2>3 DEF Skip, IInv, TypeOK, WorklistInv, NoBlockTwice
  <2>4. CASE Expand(c)
    BY <2>2, <2>4, ExpandInv
  <2>5. CASE Fail(c)
    BY <2>2, <2>5 DEF Fail, IInv, TypeOK, WorklistInv, NoBlockTwice
  <2>6. CASE Spoil(c)
    BY <2>2, <2>6 DEF Spoil, IInv, TypeOK, WorklistInv, NoBlockTwice
  <2>7. QED
    BY <2>1, <2>3, <2>4, <2>5, <2>6
<1>2. CASE Finish
  BY <1>2 DEF Finish, IInv, TypeOK, WorklistInv, NoBlockTwice
<1>3. CASE \E c \in Cids : Insert(c)
  BY <1>3 DEF Insert, PutBlock, IInv, TypeOK, WorklistInv, NoBlockTwice
<1>4. CASE \E c \in Cids : Unread(c)
  BY <1>4 DEF Unread, IInv, TypeOK, WorklistInv, NoBlockTwice
<1>5. CASE UNCHANGED vars
  BY <1>5 DEF vars, IInv, TypeOK, WorklistInv, NoBlockTwice
<1>6. QED
  BY <1>1, <1>2, <1>3, <1>4, <1>5 DEF Next

\* An empty worklist means that the expanded blocks are the whole DAG.
LEMMA InvImpliesWhole == IInv => OkMeansWholeDag
<1> SUFFICES ASSUME IInv, pc = "ok"
             PROVE  Range(res) = Reach(links, root) /\ Range(res) \cap bad = {}
  BY DEF OkMeansWholeDag
<1>1. refs \subseteq Reach(links, root) /\ Range(res) = refs /\ refs \cap bad = {}
  BY DEF IInv, WorklistInv
<1>2. root \in refs /\ ClosedUnder(links, refs, Cids) /\ refs \in SUBSET Cids
  BY DEF IInv, TypeOK, WorklistInv, ClosedUnder
<1>3. Reach(links, root) \subseteq refs
  BY <1>2, ReachLeast, ReachWhole DEF IInv, TypeOK
<1>4. QED
  BY <1>1, <1>3

\* The invariant holds in every state of every behaviour.
LEMMA AlwaysIInv == Spec => []IInv
BY InitInv, NextInv, PTL DEF Spec

(***************************************************************************)
(* The loop invariant of dag_traversal holds in every reachable state.     *)
(***************************************************************************)
THEOREM WalkInvariant == Spec => []WorklistInv
<1>1. IInv => WorklistInv
  BY DEF IInv
<1>2. QED
  BY <1>1, AlwaysIInv, PTL

(***************************************************************************)
(* dag_traversal lists no block twice, although the same link may be met   *)
(* in many blocks and the iteration order is that of a hash set.           *)
(***************************************************************************)
THEOREM NoBlockIsRepeated == Spec => []NoBlockTwice
<1>1. IInv => NoBlockTwice
  BY DEF IInv
<1>2. QED
  BY <1>1, AlwaysIInv, PTL

(***************************************************************************)
(* dag_traversal returns Ok only with exactly the blocks of the DAG, for   *)
(* every graph of blocks and whatever is inserted meanwhile.               *)
(***************************************************************************)
THEOREM OkIsWholeDag == Spec => []OkMeansWholeDag
BY AlwaysIInv, InvImpliesWhole, PTL

(***************************************************************************)
(* The reason that dag_traversal gives for failing is true at that moment: *)
(* a block of the DAG is absent, or one in the store cannot be opened.     *)
(***************************************************************************)
THEOREM FailureIsReal == Spec => FailsForItsReason
<1> DEFINE Reason == pc = "loop" =>
                       /\ pc' = "missing" => ~(Reach(links, root) \subseteq store)
                       /\ pc' = "bad" => Reach(links, root) \cap store \cap bad # {}
<1>1. Spec => []IInv
  BY AlwaysIInv
<1>2. IInv /\ [Next]_vars => [Reason]_vars
  <2> SUFFICES ASSUME IInv, [Next]_vars, pc = "loop" PROVE Reason
    OBVIOUS
  <2>1. ASSUME pc' = "missing" PROVE ~(Reach(links, root) \subseteq store)
    <3>1. PICK c \in current : Fail(c)
      BY <2>1
      DEF Next, vars, Iterate, Skip, Expand, Spoil, Unread, Finish, Insert, PutBlock
    <3>2. c \in Reach(links, root) /\ c \notin store
      BY <3>1 DEF IInv, WorklistInv, Fail
    <3>3. QED
      BY <3>2
  <2>2. ASSUME pc' = "bad" PROVE Reach(links, root) \cap store \cap bad # {}
    <3>1. PICK c \in current : Spoil(c)
      BY <2>2
      DEF Next, vars, Iterate, Skip, Expand, Fail, Unread, Finish, Insert, PutBlock
    <3>2. c \in Reach(links, root) /\ c \in store \cap bad
      BY <3>1 DEF IInv, WorklistInv, Spoil
    <3>3. QED
      BY <3>2
  <2>3. QED
    BY <2>1, <2>2
<1>3. QED
  BY <1>1, <1>2, PTL DEF Spec, FailsForItsReason

-----------------------------------------------------------------------------
(***************************************************************************)
(* missing_blocks.                                                         *)
(***************************************************************************)
\* While nobody inserts a block, the walk reports what is absent, stays in
\* what it can reach, and still has before it what it has not reported.
QuietInv ==
  store = before /\ pc # "err" =>
    /\ Range(missing) \cap store = {}
    /\ Range(missing) \cup Range(stack) \subseteq ReachIn(Links, root, store)
    /\ \A d \in ReachIn(Links, root, store) \ store :
          d \in Range(missing) \/ \E m \in Range(stack) : d \in ReachIn(Links, m, store)

\* The inductive invariant.
MInv ==
  /\ MissingTypeOK
  /\ before \subseteq store
  /\ pc = "done" => stack = <<>>
  /\ NothingOverlooked
  /\ QuietInv

\* The links of a block are those of its list.
LEMMA LinksFacts ==
  ASSUME MissingTypeOK
  PROVE  Links \in Graph(Cids) /\ \A c \in Cids : Links[c] = Range(lists[c])
<1>1. \A c \in Cids : Range(lists[c]) \subseteq Cids
  BY SeqRange DEF MissingTypeOK
<1>2. QED
  BY <1>1 DEF Links, Graph

\* The invariant holds when the call begins.
LEMMA MInit == MissingInit => MInv
<1> SUFFICES ASSUME MissingInit PROVE MInv
  OBVIOUS
<1>1. MissingTypeOK /\ Range(missing) = {} /\ Range(stack) = {root}
  <2>1. stack \in Seq(Cids) /\ Range(stack) = {root}
    BY DEF MissingInit, Range
  <2>2. QED
    BY <2>1, EmptyFacts, ListsAssumption, BadSetsAssumption DEF MissingInit, MissingTypeOK
<1>2. root \in ReachIn(Links, root, store)
  BY <1>1, LinksFacts, RootReached DEF MissingTypeOK
<1>3. NothingOverlooked /\ QuietInv
  BY <1>1, <1>2 DEF MissingInit, NothingOverlooked, QuietInv
<1>4. QED
  BY <1>1, <1>3 DEF MissingInit, MInv

\* The top block is in the store: its links take its place.
LEMMA MOpen ==
  ASSUME MInv, stack # <<>>, pc = "loop", Open,
         UNCHANGED <<lists, bad, root, before, store>>
  PROVE  MInv'
<1> DEFINE L == Links
           t == Top
<1>1. MissingTypeOK
  BY DEF MInv
<1>2. L \in Graph(Cids) /\ root \in Cids /\ store \in SUBSET Cids /\ Links' = L
  BY <1>1, LinksFacts DEF MissingTypeOK, Links
<1>3. t \in Cids /\ Rest \in Seq(Cids) /\ Range(stack) = Range(Rest) \cup {t}
  BY <1>1, TopFacts DEF MissingTypeOK, Top, Rest
<1>4. t \in store /\ stack' = Rest \o lists[t] /\ missing' = missing /\ pc' = pc
  BY DEF Open
<1>5. lists[t] \in Seq(Cids) /\ L[t] = Range(lists[t])
  BY <1>1, <1>3, LinksFacts DEF MissingTypeOK
<1>6. stack' \in Seq(Cids) /\ Range(stack') = Range(Rest) \cup L[t]
  BY <1>3, <1>4, <1>5, ConcatFacts
<1> HIDE DEF L, t
<1>7. MissingTypeOK'
  BY <1>1, <1>4, <1>6 DEF MissingTypeOK
<1>8. NothingOverlooked'
  <2>1. SUFFICES ASSUME NEW d \in Reach(L, root), d \notin store
                 PROVE  \E m \in Range(missing) \cup Range(stack') : d \in Reach(L, m)
    BY <1>2, <1>4 DEF NothingOverlooked, Reach, L
  <2>2. PICK m \in Range(missing) \cup Range(stack) : d \in Reach(L, m)
    BY <2>1 DEF MInv, NothingOverlooked, L
  <2>3. CASE m = t
    <3>1. \E l \in L[t] : d \in ReachIn(L, l, Cids)
      BY <1>2, <1>3, <1>4, <2>1, <2>2, <2>3, ReachSplit, ReachWhole
    <3>2. QED
      BY <1>2, <1>6, <3>1, ReachWhole
  <2>4. CASE m # t
    BY <1>3, <1>6, <2>2, <2>4
  <2>5. QED
    BY <2>3, <2>4
<1>9. QuietInv'
  <2> SUFFICES ASSUME store = before
               PROVE  /\ Range(missing) \cap store = {}
                      /\ Range(missing) \cup Range(stack') \subseteq ReachIn(L, root, store)
                      /\ \A d \in ReachIn(L, root, store) \ store :
                            \/ d \in Range(missing)
                            \/ \E m \in Range(stack') : d \in ReachIn(L, m, store)
    BY <1>2, <1>4 DEF QuietInv
  <2>1. /\ Range(missing) \cap store = {}
        /\ Range(missing) \cup Range(stack) \subseteq ReachIn(L, root, store)
        /\ \A d \in ReachIn(L, root, store) \ store :
              d \in Range(missing) \/ \E m \in Range(stack) : d \in ReachIn(L, m, store)
    BY DEF MInv, QuietInv, L
  <2>2. L[t] \subseteq ReachIn(L, root, store)
    BY <1>2, <1>3, <1>4, <2>1, ReachClosed
  <2>3. ASSUME NEW d \in ReachIn(L, root, store) \ store, d \notin Range(missing)
        PROVE  \E m \in Range(stack') : d \in ReachIn(L, m, store)
    <3>1. PICK m \in Range(stack) : d \in ReachIn(L, m, store)
      BY <2>1, <2>3
    <3>2. CASE m = t
      BY <1>2, <1>3, <1>4, <1>6, <3>1, <3>2, ReachSplit
    <3>3. CASE m # t
      BY <1>3, <1>6, <3>1, <3>3
    <3>4. QED
      BY <3>2, <3>3
  <2>4. QED
    BY <1>3, <1>6, <2>1, <2>2, <2>3
<1>10. QED
  BY <1>4, <1>7, <1>8, <1>9 DEF MInv

\* The top block is not in the store: it is reported.
LEMMA MReport ==
  ASSUME MInv, stack # <<>>, pc = "loop", Report,
         UNCHANGED <<lists, bad, root, before, store>>
  PROVE  MInv'
<1> DEFINE L == Links
           t == Top
<1>1. MissingTypeOK
  BY DEF MInv
<1>2. L \in Graph(Cids) /\ root \in Cids /\ store \in SUBSET Cids /\ Links' = L
  BY <1>1, LinksFacts DEF MissingTypeOK, Links
<1>3. t \in Cids /\ Rest \in Seq(Cids) /\ Range(stack) = Range(Rest) \cup {t}
  BY <1>1, TopFacts DEF MissingTypeOK, Top, Rest
<1>4. t \notin store /\ stack' = Rest /\ missing' = Append(missing, t) /\ pc' = pc
  BY DEF Report
<1>5. missing' \in Seq(Cids) /\ Range(missing') = Range(missing) \cup {t}
  BY <1>1, <1>3, <1>4, AppendFacts DEF MissingTypeOK
<1> HIDE DEF L, t
<1>6. MissingTypeOK'
  BY <1>1, <1>3, <1>4, <1>5 DEF MissingTypeOK
<1>7. Range(missing') \cup Range(stack') = Range(missing) \cup Range(stack)
  BY <1>3, <1>4, <1>5
<1>8. NothingOverlooked'
  <2>1. SUFFICES ASSUME NEW d \in Reach(L, root), d \notin store
                 PROVE  \E m \in Range(missing') \cup Range(stack') : d \in Reach(L, m)
    BY <1>2 DEF NothingOverlooked, Reach, L
  <2>2. QED
    BY <1>7, <2>1 DEF MInv, NothingOverlooked, L
<1>9. QuietInv'
  <2> SUFFICES ASSUME store = before
               PROVE  /\ Range(missing') \cap store = {}
                      /\ Range(missing') \cup Range(stack') \subseteq ReachIn(L, root, store)
                      /\ \A d \in ReachIn(L, root, store) \ store :
                            \/ d \in Range(missing')
                            \/ \E m \in Range(stack') : d \in ReachIn(L, m, store)
    BY <1>2 DEF QuietInv, ReachIn, ClosedUnder
  <2>1. /\ Range(missing) \cap store = {}
        /\ Range(missing) \cup Range(stack) \subseteq ReachIn(L, root, store)
        /\ \A d \in ReachIn(L, root, store) \ store :
              d \in Range(missing) \/ \E m \in Range(stack) : d \in ReachIn(L, m, store)
    BY DEF MInv, QuietInv, L
  <2>2. ASSUME NEW d \in ReachIn(L, root, store) \ store, d \notin Range(missing')
        PROVE  \E m \in Range(stack') : d \in ReachIn(L, m, store)
    <3>1. PICK m \in Range(stack) : d \in ReachIn(L, m, store)
      BY <1>5, <2>1, <2>2
    <3>2. m # t
      BY <1>2, <1>3, <1>4, <1>5, <2>2, <3>1, ReachSplit
    <3>3. QED
      BY <1>3, <1>4, <3>1, <3>2
  <2>3. QED
    BY <1>4, <1>5, <1>7, <2>1, <2>2
<1>10. QED
  BY <1>4, <1>6, <1>8, <1>9 DEF MInv

\* A walk that fails has no result, and nothing is claimed of it.
LEMMA MFails ==
  ASSUME MInv, stack # <<>>, pc' = "err", stack' = Rest,
         UNCHANGED <<lists, bad, root, before, store, missing>>
  PROVE  MInv'
<1>1. Rest \in Seq(Cids)
  BY TopFacts DEF MInv, MissingTypeOK, Rest
<1>2. QED
  BY <1>1 DEF MInv, MissingTypeOK, NothingOverlooked, QuietInv

\* Every step keeps the invariant.
LEMMA MNext == MInv /\ [MissingNext]_missingVars => MInv'
<1> SUFFICES ASSUME MInv, [MissingNext]_missingVars PROVE MInv'
  OBVIOUS
<1>1. CASE Pop
  <2>1. CASE Spoilt
    BY <1>1, <2>1, MFails DEF Pop, Spoilt
  <2>2. QED
    BY <1>1, <2>1, MOpen, MReport DEF Pop
<1>2. CASE Return
  <2>1. /\ UNCHANGED <<lists, bad, root, before, store, stack, missing>>
        /\ pc # "err" /\ stack = <<>> /\ pc' = "done"
    BY <1>2 DEF Return
  <2>2. Links' = Links
    BY <2>1 DEF Links
  <2>3. NothingOverlooked' /\ QuietInv'
    BY <2>1, <2>2 DEF MInv, NothingOverlooked, QuietInv, Reach, ReachIn, ClosedUnder
  <2>4. QED
    BY <2>1, <2>3 DEF MInv, MissingTypeOK
<1>3. ASSUME NEW c \in Cids, Upload(c) PROVE MInv'
  <2>1. /\ UNCHANGED <<lists, bad, root, before, stack, missing, pc>>
        /\ c \notin store /\ store' = store \cup {c}
    BY <1>3 DEF Upload, PutBlock
  <2>2. Links' = Links
    BY <2>1 DEF Links
  <2>3. store' # before' /\ before' \subseteq store'
    BY <2>1 DEF MInv
  <2>4. NothingOverlooked'
    BY <2>1, <2>2 DEF MInv, NothingOverlooked, Reach, ReachIn, ClosedUnder
  <2>5. QED
    BY <2>1, <2>3, <2>4 DEF MInv, MissingTypeOK, QuietInv
<1>4. CASE UNCHANGED missingVars
  <2>1. UNCHANGED <<lists, bad, root, before, store, stack, missing, pc>>
    BY <1>4 DEF missingVars
  <2>2. Links' = Links
    BY <2>1 DEF Links
  <2>3. NothingOverlooked' /\ QuietInv'
    BY <2>1, <2>2 DEF MInv, NothingOverlooked, QuietInv, Reach, ReachIn, ClosedUnder
  <2>4. QED
    BY <2>1, <2>3 DEF MInv, MissingTypeOK
<1>5. CASE ReadFails
  BY <1>5, MFails DEF ReadFails
<1>6. QED
  BY <1>1, <1>2, <1>3, <1>4, <1>5 DEF MissingNext

(***************************************************************************)
(* missing_blocks overlooks nothing, whatever is inserted while it runs:   *)
(* unless it has failed, a block of the DAG is stored or lies under a      *)
(* block that is reported or still to be looked at.                        *)
(***************************************************************************)
THEOREM WalkOverlooksNothing == MissingSpec => []NothingOverlooked
<1>1. MissingInit => MInv
  BY MInit
<1>2. MInv => NothingOverlooked
  BY DEF MInv
<1>3. QED
  BY <1>1, <1>2, MNext, PTL DEF MissingSpec

(***************************************************************************)
(* On a store that does not change, missing_blocks returns exactly the     *)
(* blocks it can reach and not open: module BitswapFetch may put this set  *)
(* in the place of the walk, for every graph of links.                     *)
(***************************************************************************)
THEOREM WalkIsExact == MissingSpec => []ExactWhenQuiet
<1>1. MissingInit => MInv
  BY MInit
<1>2. MInv => ExactWhenQuiet
  <2> SUFFICES ASSUME MInv, pc = "done", store = before
               PROVE  Range(missing) = MissingIn(Links, root, store)
    BY DEF ExactWhenQuiet
  <2>1. Range(stack) = {}
    BY EmptyFacts DEF MInv
  <2>2. QED
    BY <2>1 DEF MInv, QuietInv, MissingIn
<1>3. QED
  BY <1>1, <1>2, MNext, PTL DEF MissingSpec

=============================================================================
