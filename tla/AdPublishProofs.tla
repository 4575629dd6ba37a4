-------------------------- MODULE AdPublishProofs --------------------------
(***************************************************************************)
(* The advertisements, for every number of uploads, roots and restarts,    *)
(* every size of DAG and every size of chunk.                              *)
(***************************************************************************)
EXTENDS AdPublish, Facts

\* The newest advertisement of this run of the node, 0 for none.
Newest == IF session = Len(ads) THEN 0 ELSE Len(ads)

\* What the loop knows of the root that it is advertising.
DraftInv ==
  /\ loop \in {"walk", "chunk", "sign"} => cur \in Roots
  /\ loop \in {"chunk", "sign"} => cur \in Whole
  /\ loop = "walk" => entries = 0
  /\ loop = "chunk" => entries <= Size[cur]
  /\ loop = "sign" => entries = Size[cur]

\* Who holds the newest advertisement: the provider, or publish while it
\* keeps the head locked, or nobody once a publish has failed; the indexer
\* never got further.
HeadInv ==
  /\ session <= Len(ads)
  /\ loop \notin {"sign", "stopped"} => head = Newest
  /\ loop = "sign" => head = 0
  /\ loop = "stopped" => head \in {0, Newest}
  /\ loop = "sign" => prev = Newest
  /\ seen <= Newest

\* The inductive invariant.
IInv == /\ TypeOK /\ DraftInv /\ HeadInv
        /\ NoStrandedRoot /\ ChainIsWhole /\ AdsListWholeDags

-----------------------------------------------------------------------------
\* The invariant holds at the start.
LEMMA InitInv == Init => IInv
<1> SUFFICES ASSUME Init PROVE IInv
  OBVIOUS
<1>1. TypeOK
  BY EmptyFacts, BoundsAssumption DEF Init, TypeOK
<1>2. Len(ads) = 0 /\ session = 0 /\ DOMAIN ads = {} /\ Current = {}
  BY DEF Init, Current
<1>3. DraftInv /\ HeadInv /\ NoStrandedRoot /\ ChainIsWhole /\ AdsListWholeDags
  BY <1>2 DEF Init, DraftInv, HeadInv, Newest, NoStrandedRoot, ChainIsWhole, AdsListWholeDags
<1>4. QED
  BY <1>1, <1>3 DEF IInv

\* The queues may take what is put into them.
LEMMA QueueTypes ==
  ASSUME TypeOK
  PROVE  /\ \A p \in Puts : Append(commands, p) \in Seq(Puts)
         /\ \A e \in {"natPublic", "natOther", "publish"} :
               Append(events, e) \in Seq({"natPublic", "natOther", "publish"})
         /\ \A r \in Roots : Append(root_cids, r) \in Seq(Roots)
BY AppendFacts DEF TypeOK

\* What publish stores is an advertisement, after all the others.
LEMMA PublishFacts ==
  ASSUME TypeOK, DraftInv, Publish
  PROVE  /\ ads' \in Seq(Ad) /\ Len(ads) \in Nat /\ Len(ads') = Len(ads) + 1
         /\ DOMAIN ads = 1 .. Len(ads) /\ DOMAIN ads' = 1 .. Len(ads) + 1
         /\ \A i \in 1 .. Len(ads) : ads'[i] = ads[i]
         /\ ads'[Len(ads) + 1].root = cur
         /\ ads'[Len(ads) + 1].entries = entries
         /\ ads'[Len(ads) + 1].prev = prev
<1> DEFINE ad == [root |-> cur, entries |-> entries, prev |-> prev]
<1>1. ads \in Seq(Ad) /\ ads' = Append(ads, ad)
  BY DEF TypeOK, Publish
<1>2. cur \in Roots /\ entries \in Nat /\ prev \in Nat
  BY DEF TypeOK, DraftInv, Publish
<1>3. ad \in Ad
  BY <1>2 DEF Ad
<1>4. ad.root = cur /\ ad.entries = entries /\ ad.prev = prev
  OBVIOUS
<1> HIDE DEF ad
<1>5. /\ ads' \in Seq(Ad) /\ Len(ads) \in Nat /\ Len(ads') = Len(ads) + 1
      /\ DOMAIN ads = 1 .. Len(ads) /\ DOMAIN ads' = 1 .. Len(ads) + 1
      /\ \A i \in 1 .. Len(ads) : ads'[i] = ads[i]
      /\ ads'[Len(ads) + 1] = ad
  BY <1>1, <1>3
<1>6. QED
  BY <1>4, <1>5

-----------------------------------------------------------------------------
(***************************************************************************)
(* Every step keeps the invariant.                                         *)
(***************************************************************************)
\* The types are kept.
LEMMA TypeNext == TypeOK /\ DraftInv /\ [Next]_vars => TypeOK'
<1> SUFFICES ASSUME TypeOK, DraftInv, [Next]_vars PROVE TypeOK'
  OBVIOUS
<1> USE DEF provider, env
<1>1. ASSUME NEW p \in Puts, Load(p) PROVE TypeOK'
  BY <1>1 DEF Load, TypeOK
<1>2. ASSUME NEW p \in Puts, Send(p) PROVE TypeOK'
  BY <1>2, QueueTypes DEF Send, TypeOK
<1>3. ASSUME NEW status \in {"private", "public"}, NatChange(status) PROVE TypeOK'
  <2>1. events' \in Seq({"natPublic", "natOther", "publish"})
    BY <1>3, QueueTypes DEF NatChange
  <2>2. QED
    BY <1>3, <2>1, BoundsAssumption DEF NatChange, TypeOK
<1>4. CASE IndexCommand
  <2>1. /\ Head(commands) \in Puts /\ commands' \in Seq(Puts)
        /\ put' = [put EXCEPT ![Head(commands)] = "ok"]
        /\ root_cids' = Append(root_cids, Head(RootsOf[Head(commands)]))
    BY <1>4, TailFacts DEF IndexCommand, TypeOK
  <2>2. Head(RootsOf[Head(commands)]) \in Roots
    BY <2>1, RootsOfAssumption
  <2>3. root_cids' \in Seq(Roots)
    BY <2>1, <2>2, QueueTypes
  <2>4. events' \in Seq({"natPublic", "natOther", "publish"})
    BY <1>4, QueueTypes DEF IndexCommand, WhenPublic, TypeOK
  <2>5. QED
    BY <1>4, <2>1, <2>3, <2>4 DEF IndexCommand, TypeOK
<1>5. CASE HandleNat
  <2>1. Tail(events) \in Seq({"natPublic", "natOther", "publish"})
    BY <1>5, TailFacts DEF HandleNat, TypeOK
  <2>2. Append(Tail(events), "publish") \in Seq({"natPublic", "natOther", "publish"})
    BY <2>1, AppendFacts
  <2>3. QED
    BY <1>5, <2>1, <2>2 DEF HandleNat, TypeOK
<1>6. CASE StartPublish
  BY <1>6, TailFacts DEF StartPublish, TypeOK
<1>7. CASE TakeRoot
  <2>1. CASE root_cids = <<>>
    BY <1>7, <2>1 DEF TakeRoot, TypeOK
  <2>2. CASE root_cids # <<>>
    <3>1. Head(root_cids) \in Roots /\ Tail(root_cids) \in Seq(Roots)
      BY <2>2, TailFacts DEF TypeOK
    <3>2. /\ cur' = Head(root_cids) /\ root_cids' = Tail(root_cids)
          /\ entries' = 0 /\ loop' = "walk"
          /\ UNCHANGED <<put, commands, events, prev, head, ads,
                         nat, changes, session, seen, restarts>>
      BY <1>7, <2>2 DEF TakeRoot
    <3>3. cur' \in Roots /\ root_cids' \in Seq(Roots)
      BY <3>1, <3>2
    <3>4. QED
      BY <3>2, <3>3 DEF TypeOK
  <2>3. QED
    BY <2>1, <2>2
<1>8. CASE WalkDag
  BY <1>8 DEF WalkDag, TypeOK
<1>9. CASE AddChunk
  <2>1. cur \in Roots /\ entries \in Nat /\ Size[cur] \in Nat /\ MaxEntries \in Nat
    BY <1>9, SizeAssumption, MaxEntriesAssumption DEF AddChunk, DraftInv, TypeOK
  <2>2. entries <= Size[cur]
    BY <1>9 DEF AddChunk, DraftInv
  <2>3. entries' \in Nat
    BY <1>9, <2>1, <2>2 DEF AddChunk, ChunkOf
  <2>4. QED
    BY <1>9, <2>3 DEF AddChunk, TypeOK
<1>10. CASE TakeHead
  BY <1>10 DEF TakeHead, TypeOK
<1>11. CASE Publish
  BY <1>11, PublishFacts DEF Publish, TypeOK
<1>12. CASE Announce
  BY <1>12 DEF Announce, TypeOK
<1>13. CASE ReadHead
  BY <1>13 DEF ReadHead, TypeOK
<1>14. CASE Restart
  <2>1. Len(ads) \in Nat
    BY DEF TypeOK
  <2>2. put' \in [Puts -> {"idle", "loaded", "sent", "ok", "err"}]
    BY <1>14 DEF Restart, TypeOK
  <2>3. QED
    BY <1>14, <2>1, <2>2, EmptyFacts, BoundsAssumption DEF Restart, TypeOK
<1>15. CASE BuildFails
  BY <1>15 DEF BuildFails, TypeOK
<1>16. CASE PublishFails
  BY <1>16 DEF PublishFails, TypeOK
<1>17. CASE UNCHANGED vars
  BY <1>17 DEF vars, TypeOK
<1>18. QED
  BY <1>1, <1>2, <1>3, <1>4, <1>5, <1>6, <1>7, <1>8, <1>9, <1>10, <1>11, <1>12, <1>13,
     <1>14, <1>15, <1>16, <1>17
  DEF Next, LoopStep

\* The draft of an advertisement covers the blocks that are in its chunks.
LEMMA DraftNext == TypeOK /\ DraftInv /\ [Next]_vars => DraftInv'
<1> SUFFICES ASSUME TypeOK, DraftInv, [Next]_vars PROVE DraftInv'
  OBVIOUS
<1> USE DEF provider, env
<1>1. CASE UNCHANGED <<loop, cur, entries>>
  BY <1>1 DEF DraftInv
<1>2. CASE loop' \in {"idle", "take", "stopped", "announce"}
  BY <1>2 DEF DraftInv
<1>3. CASE TakeRoot
  BY <1>3, TailFacts DEF TakeRoot, DraftInv, TypeOK
<1>4. CASE WalkDag
  BY <1>4, SizeAssumption DEF WalkDag, DraftInv, TypeOK
<1>5. CASE AddChunk
  <2>1. cur \in Roots /\ entries \in Nat /\ Size[cur] \in Nat /\ MaxEntries \in Nat
    BY <1>5, SizeAssumption, MaxEntriesAssumption DEF AddChunk, DraftInv, TypeOK
  <2>2. entries <= Size[cur]
    BY <1>5 DEF AddChunk, DraftInv
  <2>3. entries' <= Size[cur]
    BY <1>5, <2>1, <2>2 DEF AddChunk, ChunkOf
  <2>4. QED
    BY <1>5, <2>3 DEF AddChunk, DraftInv
<1>6. CASE TakeHead
  <2>1. cur \in Roots /\ entries \in Nat /\ Size[cur] \in Nat /\ MaxEntries \in Nat \ {0}
    BY <1>6, SizeAssumption, MaxEntriesAssumption DEF TakeHead, DraftInv, TypeOK
  <2>2. entries <= Size[cur] /\ ChunkOf(Size[cur] - entries) = 0
    BY <1>6 DEF TakeHead, DraftInv
  <2>3. entries = Size[cur]
    BY <2>1, <2>2 DEF ChunkOf
  <2>4. QED
    BY <1>6, <2>1, <2>3 DEF TakeHead, DraftInv
<1>7. QED
  BY <1>1, <1>2, <1>3, <1>4, <1>5, <1>6
  DEF Next, LoopStep, Load, Send, NatChange, IndexCommand, HandleNat, StartPublish,
      Publish, Announce, BuildFails, PublishFails, ReadHead, Restart, vars

\* The newest advertisement is never lost between taking the head and setting it.
LEMMA HeadNext == TypeOK /\ DraftInv /\ HeadInv /\ [Next]_vars => HeadInv'
<1> SUFFICES ASSUME TypeOK, DraftInv, HeadInv, [Next]_vars PROVE HeadInv'
  OBVIOUS
<1> USE DEF provider, env
<1>0. session \in Nat /\ Len(ads) \in Nat /\ seen \in Nat
  BY DEF TypeOK
<1>1. CASE /\ UNCHANGED <<prev, head, ads, session, seen>>
           /\ loop \notin {"sign", "stopped"} /\ loop' # "sign"
  BY <1>1 DEF HeadInv, Newest
<1>2. CASE TakeHead
  BY <1>2 DEF TakeHead, HeadInv, Newest
<1>3. CASE Publish
  <2>1. Len(ads') = Len(ads) + 1 /\ session' = session /\ seen' = seen
    BY <1>3, PublishFacts DEF Publish
  <2>2. Newest' = Len(ads')
    BY <1>0, <2>1 DEF Newest, HeadInv
  <2>3. seen <= Len(ads)
    BY <1>0 DEF HeadInv, Newest
  <2>4. QED
    BY <1>0, <1>3, <2>1, <2>2, <2>3 DEF Publish, HeadInv
<1>4. CASE ReadHead
  BY <1>0, <1>4 DEF ReadHead, HeadFree, HeadInv, Newest
<1>5. CASE Restart
  BY <1>0, <1>5 DEF Restart, HeadInv, Newest
<1>6. CASE UNCHANGED <<loop, prev, head, ads, session, seen>>
  BY <1>6 DEF HeadInv, Newest
<1>7. CASE PublishFails
  BY <1>7 DEF PublishFails, HeadInv, Newest
<1>8. QED
  BY <1>1, <1>2, <1>3, <1>4, <1>5, <1>6, <1>7
  DEF Next, LoopStep, Load, Send, NatChange, IndexCommand, HandleNat, StartPublish,
      TakeRoot, WalkDag, AddChunk, Announce, BuildFails, vars

\* Whoever queues a root, or learns that there is a public address, queues
\* the event that makes the loop publish.
LEMMA StrandedNext == TypeOK /\ NoStrandedRoot /\ [Next]_vars => NoStrandedRoot'
<1> SUFFICES ASSUME TypeOK, NoStrandedRoot, [Next]_vars PROVE NoStrandedRoot'
  OBVIOUS
<1> USE DEF provider, env
<1> DEFINE Kinds == {"natPublic", "natOther", "publish"}
<1>0. events \in Seq(Kinds)
  BY DEF TypeOK
<1>1. CASE UNCHANGED <<nat, root_cids, loop, events>>
  BY <1>1 DEF NoStrandedRoot
<1>2. CASE loop' # "idle" \/ root_cids' = <<>> \/ nat' # "public"
  BY <1>2 DEF NoStrandedRoot
<1>3. CASE IndexCommand
  <2>1. CASE nat = "public"
    <3>1. events' = Append(events, "publish")
      BY <1>3, <2>1 DEF IndexCommand, WhenPublic
    <3>2. "publish" \in Range(events')
      BY <1>0, <3>1, AppendFacts
    <3>3. QED
      BY <3>2 DEF NoStrandedRoot
  <2>2. CASE nat # "public"
    BY <1>2, <1>3, <2>2 DEF IndexCommand
  <2>3. QED
    BY <2>1, <2>2
<1>4. ASSUME NEW status \in {"private", "public"}, NatChange(status) PROVE NoStrandedRoot'
  <2>1. CASE status = "public"
    <3>1. events' = Append(events, "natPublic")
      BY <1>4, <2>1 DEF NatChange
    <3>2. "natPublic" \in Range(events')
      BY <1>0, <3>1, AppendFacts
    <3>3. QED
      BY <3>2 DEF NoStrandedRoot
  <2>2. CASE status # "public"
    BY <1>2, <1>4, <2>2 DEF NatChange
  <2>3. QED
    BY <2>1, <2>2
<1>5. CASE HandleNat
  <2>1. /\ Tail(events) \in Seq(Kinds)
        /\ Range(events) = Range(Tail(events)) \cup {Head(events)}
        /\ UNCHANGED <<nat, root_cids, loop>>
    BY <1>0, <1>5, TailFacts DEF HandleNat
  <2>2. CASE Head(events) = "natPublic"
    <3>1. events' = Append(Tail(events), "publish")
      BY <1>5, <2>2 DEF HandleNat
    <3>2. "publish" \in Kinds
      OBVIOUS
    <3> DEFINE rest == Tail(events)
    <3>3. rest \in Seq(Kinds) /\ events' = Append(rest, "publish")
      BY <2>1, <3>1
    <3> HIDE DEF Kinds, rest
    <3>4. Range(Append(rest, "publish")) = Range(rest) \cup {"publish"}
      BY <3>2, <3>3, AppendFacts
    <3>5. "publish" \in Range(events')
      BY <3>3, <3>4
    <3>6. QED
      BY <3>5 DEF NoStrandedRoot
  <2>3. CASE Head(events) # "natPublic"
    <3>1. events' = Tail(events) /\ Head(events) # "publish"
      BY <1>5, <2>3 DEF HandleNat
    <3>2. QED
      BY <2>1, <2>3, <3>1 DEF NoStrandedRoot
  <2>4. QED
    BY <2>2, <2>3
<1>6. QED
  BY <1>1, <1>2, <1>3, <1>4, <1>5
  DEF Next, LoopStep, Load, Send, StartPublish, TakeRoot, WalkDag, AddChunk, TakeHead,
      Publish, Announce, BuildFails, PublishFails, ReadHead, Restart, vars

\* The chain grows at its end only, by a link to the newest advertisement.
LEMMA ChainNext ==
  TypeOK /\ DraftInv /\ HeadInv /\ ChainIsWhole /\ HeadInv' /\ TypeOK' /\ [Next]_vars
    => ChainIsWhole'
<1> SUFFICES ASSUME TypeOK, DraftInv, HeadInv, ChainIsWhole, HeadInv', TypeOK', [Next]_vars
             PROVE  ChainIsWhole'
  OBVIOUS
<1> USE DEF provider, env
<1>0. session \in Nat /\ Len(ads) \in Nat /\ session' \in Nat /\ Len(ads') \in Nat
  <2>1. session \in Nat /\ ads \in Seq(Ad)
    BY DEF TypeOK
  <2>2. session' \in Nat /\ ads' \in Seq(Ad)
    BY DEF TypeOK
  <2>3. QED
    BY <2>1, <2>2
<1>1. HeadFree' => \/ head' = IF Current' = {} THEN 0 ELSE Len(ads')
                   \/ loop' = "stopped" /\ head' = 0
  <2>1. Current' = {} <=> session' = Len(ads')
    <3>1. session' <= Len(ads')
      BY DEF HeadInv
    <3>2. \A m, n \in Nat : m <= n => (m + 1 .. n = {} <=> m = n)
      <4>1. SUFFICES ASSUME NEW m \in Nat, NEW n \in Nat, m <= n, m # n PROVE m + 1 \in m + 1 .. n
        OBVIOUS
      <4>2. QED
        BY <4>1
    <3>3. QED
      BY <1>0, <3>1, <3>2 DEF Current
  <2>2. loop' # "sign" => head' = Newest' \/ (loop' = "stopped" /\ head' = 0)
    BY DEF HeadInv
  <2>3. Newest' = IF Current' = {} THEN 0 ELSE Len(ads')
    BY <2>1 DEF Newest
  <2>4. QED
    BY <2>2, <2>3 DEF HeadFree
<1>2. CASE UNCHANGED <<ads, session>>
  BY <1>1, <1>2 DEF ChainIsWhole, Current
<1>3. CASE Publish
  <2> DEFINE n == Len(ads)
  <2>1. /\ DOMAIN ads = 1 .. n /\ DOMAIN ads' = 1 .. n + 1 /\ Len(ads') = n + 1
        /\ \A i \in 1 .. n : ads'[i] = ads[i]
        /\ ads'[n + 1].prev = prev
    BY <1>3, PublishFacts
  <2>2. session' = session /\ session <= n /\ prev = IF session = n THEN 0 ELSE n
    BY <1>3 DEF Publish, HeadInv, Newest
  <2>3. \A i \in session + 1 .. n : ads[i].prev = IF i = session + 1 THEN 0 ELSE i - 1
    BY <2>1 DEF ChainIsWhole, Current
  <2> HIDE DEF n
  <2>4. n \in Nat
    BY <1>0 DEF n
  <2>5. ASSUME NEW i \in session + 1 .. n + 1
        PROVE  ads'[i].prev = IF i = session + 1 THEN 0 ELSE i - 1
    <3>1. CASE i = n + 1
      BY <1>0, <2>1, <2>2, <2>4, <3>1
    <3>2. CASE i # n + 1
      <4>1. i \in session + 1 .. n /\ i \in 1 .. n
        BY <1>0, <2>4, <3>2
      <4>2. QED
        BY <2>1, <2>3, <4>1
    <3>3. QED
      BY <3>1, <3>2
  <2>6. QED
    BY <1>1, <2>1, <2>2, <2>5 DEF ChainIsWhole, Current
<1>4. CASE Restart
  <2>1. ads' = ads /\ Current' = {}
    BY <1>0, <1>4 DEF Restart, Current
  <2>2. QED
    BY <1>1, <2>1 DEF ChainIsWhole
<1>5. QED
  BY <1>2, <1>3, <1>4
  DEF Next, LoopStep, Load, Send, NatChange, IndexCommand, HandleNat, StartPublish,
      TakeRoot, WalkDag, AddChunk, TakeHead, Announce, BuildFails, PublishFails, ReadHead,
      vars

\* An advertisement is stored only with all its entries.
LEMMA AdsNext == TypeOK /\ DraftInv /\ AdsListWholeDags /\ [Next]_vars => AdsListWholeDags'
<1> SUFFICES ASSUME TypeOK, DraftInv, AdsListWholeDags, [Next]_vars PROVE AdsListWholeDags'
  OBVIOUS
<1> USE DEF provider, env
<1>1. CASE UNCHANGED ads
  BY <1>1 DEF AdsListWholeDags
<1>2. CASE Publish
  <2> DEFINE n == Len(ads)
  <2>1. /\ n \in Nat /\ DOMAIN ads = 1 .. n /\ DOMAIN ads' = 1 .. n + 1
        /\ \A i \in 1 .. n : ads'[i] = ads[i]
        /\ ads'[n + 1].root = cur /\ ads'[n + 1].entries = entries
    BY <1>2, PublishFacts
  <2>2. cur \in Whole /\ entries = Size[cur]
    BY <1>2 DEF Publish, DraftInv
  <2> HIDE DEF n
  <2>3. ASSUME NEW i \in 1 .. n + 1
        PROVE  ads'[i].root \in Whole /\ ads'[i].entries = Size[ads'[i].root]
    <3>1. CASE i = n + 1
      BY <2>1, <2>2, <3>1
    <3>2. CASE i # n + 1
      <4>1. i \in 1 .. n
        BY <2>1, <3>2
      <4>2. QED
        BY <2>1, <4>1 DEF AdsListWholeDags
    <3>3. QED
      BY <3>1, <3>2
  <2>4. QED
    BY <2>1, <2>3 DEF AdsListWholeDags
<1>3. QED
  BY <1>1, <1>2
  DEF Next, LoopStep, Load, Send, NatChange, IndexCommand, HandleNat, StartPublish,
      TakeRoot, WalkDag, AddChunk, TakeHead, Announce, BuildFails, PublishFails, ReadHead,
      Restart, vars

\* The invariant is inductive.
LEMMA NextInv == IInv /\ [Next]_vars => IInv'
BY TypeNext, DraftNext, HeadNext, StrandedNext, ChainNext, AdsNext DEF IInv

\* The invariant holds in every state of every behaviour.
LEMMA AlwaysIInv == Spec => []IInv
BY InitInv, NextInv, PTL DEF Spec

-----------------------------------------------------------------------------
(***************************************************************************)
(* While the node has a public address, no queued root waits for an event  *)
(* that nobody has queued: the Index command, the NAT events and the loop  *)
(* of StartPublish may come in any order.                                  *)
(***************************************************************************)
THEOREM NoRootIsStranded == Spec => []NoStrandedRoot
<1>1. IInv => NoStrandedRoot
  BY DEF IInv
<1>2. QED
  BY <1>1, AlwaysIInv, PTL

(***************************************************************************)
(* Provider::publish keeps the chain of advertisements whole: from the     *)
(* head the indexer meets all of this run, each linked to the one before.  *)
(* A publish that fails leaves no head, and the loop ended, but no wrong   *)
(* link.                                                                   *)
(***************************************************************************)
THEOREM ChainStaysWhole == Spec => []ChainIsWhole
<1>1. IInv => ChainIsWhole
  BY DEF IInv
<1>2. QED
  BY <1>1, AlwaysIInv, PTL

(***************************************************************************)
(* An advertisement lists every block of its DAG, for every size of a DAG  *)
(* and of a chunk (add_chunk, publish).                                    *)
(***************************************************************************)
THEOREM AdsAreComplete == Spec => []AdsListWholeDags
<1>1. IInv => AdsListWholeDags
  BY DEF IInv
<1>2. QED
  BY <1>1, AlwaysIInv, PTL

(***************************************************************************)
(* Between two restarts an indexer never reads an older head than it has   *)
(* read before, and none only after a publish that failed: publish holds   *)
(* the lock while the head is taken.                                       *)
(***************************************************************************)
THEOREM HeadGoesForward == Spec => HeadNeverGoesBack
<1>1. IInv /\ [Next]_vars
        => [restarts' = restarts => \/ seen' >= seen
                                    \/ seen' = 0 /\ loop = "stopped"]_vars
  <2> SUFFICES ASSUME IInv, [Next]_vars, restarts' = restarts
               PROVE  seen' >= seen \/ (seen' = 0 /\ loop = "stopped")
    OBVIOUS
  <2>1. seen \in Nat /\ restarts \in Nat
    BY BoundsAssumption DEF IInv, TypeOK
  <2>2. CASE ReadHead
    BY <2>1, <2>2 DEF ReadHead, HeadFree, IInv, HeadInv
  <2>3. CASE Restart
    BY <2>1, <2>3 DEF Restart
  <2>4. CASE UNCHANGED seen
    BY <2>1, <2>4
  <2>5. QED
    BY <2>2, <2>3, <2>4
    DEF Next, LoopStep, Load, Send, NatChange, IndexCommand, HandleNat, StartPublish,
        TakeRoot, WalkDag, AddChunk, TakeHead, Publish, Announce, BuildFails, PublishFails,
        vars, env
<1>2. QED
  BY <1>1, AlwaysIInv, PTL DEF Spec, HeadNeverGoesBack

=============================================================================
