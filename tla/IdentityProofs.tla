--------------------------- MODULE IdentityProofs ---------------------------
(***************************************************************************)
(* Proofs about Identity, for any set of key pairs.                        *)
(***************************************************************************)
EXTENDS Identity, TLAPS

\* The inductive invariant.
IInv == TypeOK /\ KeptIsInFile /\ MadeIsDurable /\ SavedInOrder

\* A node that has never run has no identity to keep.
LEMMA InitIInv == Init => IInv
BY KeysAssumption
   DEF Init, IInv, TypeOK, Contents, KeptIsInFile, MadeIsDurable, SavedInOrder,
       Saving

\* Every step of load_or_new, of save and of the environment keeps the types.
LEMMA NextTypes == IInv /\ [Next]_vars => TypeOK'
<1> SUFFICES ASSUME IInv, [Next]_vars PROVE TypeOK'
    OBVIOUS
<1> USE DEF IInv, TypeOK, Contents
<1>1. CASE StartRandom BY <1>1 DEF StartRandom, Generate
<1>2. CASE Start BY <1>2 DEF Start
<1>3. CASE LoadOk BY <1>3 DEF LoadOk
<1>4. CASE LoadFails BY <1>4 DEF LoadFails, Generate
<1>5. CASE ReadFails BY <1>5 DEF ReadFails, Generate
<1>6. CASE Truncate BY <1>6 DEF Truncate
<1>7. CASE Write BY <1>7 DEF Write, SavedInOrder, Saving
<1>8. CASE Sync BY <1>8 DEF Sync
<1>9. CASE Restrict BY <1>9 DEF Restrict
<1>10. CASE Stop BY <1>10 DEF Stop
<1>11. CASE PowerLoss BY <1>11 DEF PowerLoss
<1>12. CASE Operate BY <1>12 DEF Operate
<1>13. CASE UNCHANGED vars BY <1>13 DEF vars
<1> QED BY <1>1, <1>2, <1>3, <1>4, <1>5, <1>6, <1>7, <1>8, <1>9, <1>10, <1>11,
           <1>12, <1>13 DEF Next

\* Between two runs nobody writes the file but a save that follows a failed
\* load, and then there was no identity to keep.
LEMMA NextKept == IInv /\ [Next]_vars => KeptIsInFile'
<1> SUFFICES ASSUME IInv, [Next]_vars PROVE KeptIsInFile'
    OBVIOUS
<1> USE KeysAssumption DEF IInv, TypeOK, Contents, KeptIsInFile, SavedInOrder, Saving
<1>1. CASE StartRandom BY <1>1 DEF StartRandom, Generate
<1>2. CASE Start BY <1>2 DEF Start
<1>3. CASE LoadOk BY <1>3 DEF LoadOk
<1>4. CASE LoadFails BY <1>4 DEF LoadFails, Generate
<1>5. CASE ReadFails BY <1>5 DEF ReadFails, Generate
<1>6. CASE Truncate BY <1>6 DEF Truncate
<1>7. CASE Write BY <1>7 DEF Write
<1>8. CASE Sync BY <1>8 DEF Sync
<1>9. CASE Restrict BY <1>9 DEF Restrict
<1>10. CASE Stop BY <1>10 DEF Stop
<1>11. CASE PowerLoss BY <1>11 DEF PowerLoss
<1>12. CASE Operate BY <1>12 DEF Operate
<1>13. CASE UNCHANGED vars BY <1>13 DEF vars
<1> QED BY <1>1, <1>2, <1>3, <1>4, <1>5, <1>6, <1>7, <1>8, <1>9, <1>10, <1>11,
           <1>12, <1>13 DEF Next

\* save reaches its end only through sync_all.
LEMMA NextDurable == IInv /\ [Next]_vars => (MadeIsDurable /\ SavedInOrder)'
<1> SUFFICES ASSUME IInv, [Next]_vars PROVE (MadeIsDurable /\ SavedInOrder)'
    OBVIOUS
<1> USE DEF IInv, TypeOK, MadeIsDurable, SavedInOrder, Saving
<1>1. CASE StartRandom BY <1>1 DEF StartRandom, Generate
<1>2. CASE Start BY <1>2 DEF Start
<1>3. CASE LoadOk BY <1>3 DEF LoadOk
<1>4. CASE LoadFails BY <1>4 DEF LoadFails, Generate
<1>5. CASE ReadFails BY <1>5 DEF ReadFails, Generate
<1>6. CASE Truncate BY <1>6 DEF Truncate
<1>7. CASE Write BY <1>7 DEF Write
<1>8. CASE Sync BY <1>8 DEF Sync
<1>9. CASE Restrict BY <1>9 DEF Restrict
<1>10. CASE Stop BY <1>10 DEF Stop
<1>11. CASE PowerLoss BY <1>11 DEF PowerLoss
<1>12. CASE Operate BY <1>12 DEF Operate
<1>13. CASE UNCHANGED vars BY <1>13 DEF vars
<1> QED BY <1>1, <1>2, <1>3, <1>4, <1>5, <1>6, <1>7, <1>8, <1>9, <1>10, <1>11,
           <1>12, <1>13 DEF Next

\* A node comes up by loading the file, which holds the identity to keep, or at
\* the end of a save, when there is none.
LEMMA ComesUpTheSame ==
  IInv /\ [Next]_vars => (pc # "up" /\ pc' = "up" /\ kept # NoKey => id' = kept)
<1> SUFFICES ASSUME IInv, [Next]_vars, pc # "up", pc' = "up", kept # NoKey
             PROVE  id' = kept
    OBVIOUS
<1>1. LoadOk \/ Restrict
  BY DEF Next, vars, StartRandom, Start, LoadFails, ReadFails, Truncate, Write,
         Sync, Stop, PowerLoss, Operate
<1>2. CASE LoadOk BY <1>2 DEF LoadOk, IInv, KeptIsInFile
<1>3. CASE Restrict BY <1>3 DEF Restrict, IInv, KeptIsInFile, Saving
<1> QED BY <1>1, <1>2, <1>3

\* IInv is an invariant.
LEMMA InvHolds == Spec => []IInv
<1>1. IInv /\ [Next]_vars => IInv'
  BY NextTypes, NextKept, NextDurable DEF IInv
<1> QED BY <1>1, InitIInv, PTL DEF Spec

\* The key file holds the identity of the last run that used it, through any
\* crash of any process, for any number of restarts.
THEOREM FileKeepsIdentity == Spec => []KeptIsInFile
BY InvHolds, PTL DEF IInv

\* A node that made and announced an identity has it on disk.
THEOREM MadeSurvives == Spec => []MadeIsDurable
BY InvHolds, PTL DEF IInv

\* load_or_new gives a node that restarts the identity it had.
THEOREM RestartKeepsIdentity == Spec => SameIdentity
BY InvHolds, ComesUpTheSame, PTL DEF Spec, SameIdentity

=============================================================================
