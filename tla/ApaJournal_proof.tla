--------------------------- MODULE ApaJournal_proof ---------------------------
(***************************************************************************)
(* Proofs about ApaJournal, for every set of sectors and header contents, *)
(* every number of dirty headers up to 126 and every set of faults.       *)
(***************************************************************************)
EXTENDS ApaJournal, FiniteSetTheorems, TLAPS

USE DEF Put, Drop, Empty

-----------------------------------------------------------------------------
(* What the drive's operators do to the types of its two variables.       *)

DriveOK ==
    /\ DOMAIN platter = Loc
    /\ \A l \in Loc \ {Apal} : platter[l] \in Header \cup {Torn}
    /\ platter[Apal] \in Seq(Sector) /\ Len(platter[Apal]) <= MaxDirty
    /\ DOMAIN wcache \subseteq Loc
    /\ \A l \in DOMAIN wcache \ {Apal} : wcache[l] \in Header \cup {Torn}
    /\ Apal \in DOMAIN wcache => /\ wcache[Apal] \in Seq(Sector)
                                 /\ Len(wcache[Apal]) <= MaxDirty

CacheOK ==
    /\ DOMAIN dirty \subseteq Sector
    /\ \A s \in DOMAIN dirty : dirty[s] \in Header /\ dirty[s].start = s
    /\ IsFiniteSet(DOMAIN dirty) /\ Cardinality(DOMAIN dirty) <= MaxDirty
    /\ todo \subseteq DOMAIN dirty

JournalOK ==
    /\ journal \in Seq(Sector) /\ Len(journal) <= MaxDirty
    /\ pos \in 1 .. Len(journal) + 1
    /\ pc \in {"boot", "replay", "idle", "log", "home", "failed"} \cup DOMAIN FlushSteps

TxnOK ==
    /\ DOMAIN txn \subseteq Sector
    /\ \A s \in DOMAIN txn : txn[s] \in Header /\ txn[s].start = s

(* TypeOK is the conjunction of the four parts.                           *)
LEMMA TypeParts == TypeOK <=> DriveOK /\ CacheOK /\ JournalOK /\ TxnOK
  BY DEF TypeOK, DriveOK, CacheOK, JournalOK, TxnOK

(* A write that the drive accepts keeps its two variables well typed.     *)
LEMMA SectorWriteType ==
  ASSUME DriveOK, NEW l \in Loc, NEW v, SectorWrite(l, v),
         IF l = Apal THEN v \in Seq(Sector) /\ Len(v) <= MaxDirty
                     ELSE v \in Header \cup {Torn}
  PROVE  DriveOK'
  BY DEF DriveOK, SectorWrite, Loc, Slot

(* So does a flush of its cache.                                           *)
LEMMA FlushCacheType == DriveOK /\ FlushCache => DriveOK'
  BY LocationAssumption DEF DriveOK, FlushCache, Disk, Loc, Slot

(* Reads return what the types say.                                        *)
LEMMA DiskType ==
  ASSUME DriveOK
  PROVE  /\ Disk[Apal] \in Seq(Sector) /\ Len(Disk[Apal]) <= MaxDirty
         /\ \A l \in Loc \ {Apal} : Disk[l] \in Header \cup {Torn}
  BY DEF DriveOK, Disk, Loc, Slot

-----------------------------------------------------------------------------
(* The counting part: the log has room for the headers still to be logged. *)

IType == TypeOK /\ LogFits

LEMMA InitType == Init => IType
  <1> SUFFICES ASSUME Init PROVE IType  OBVIOUS
  <1>1. DriveOK
    BY LocationAssumption, MaxDirtyAssumption DEF Init, DriveOK, Loc, Slot, Header
  <1>c. MaxDirty \in Nat /\ 0 <= MaxDirty
    BY MaxDirtyAssumption
  <1>2. CacheOK
    <2>1. DOMAIN dirty = {} /\ todo = {}
      BY DEF Init
    <2>2. IsFiniteSet(DOMAIN dirty) /\ Cardinality(DOMAIN dirty) = 0
      BY <2>1, FS_EmptySet
    <2> QED BY <1>c, <2>1, <2>2 DEF CacheOK
  <1>3. JournalOK
    <2>1. journal = <<>> /\ pos = 1 /\ pc = "boot"
      BY DEF Init
    <2>2. journal \in Seq(Sector) /\ Len(journal) = 0
      BY <2>1
    <2> QED BY <1>c, <2>1, <2>2 DEF JournalOK
  <1>4. TxnOK
    BY DEF Init, TxnOK
  <1>5. LogFits
    BY DEF Init, LogFits
  <1> QED BY <1>1, <1>2, <1>3, <1>4, <1>5, TypeParts DEF IType

(* Every step keeps the types and the count.                              *)
LEMMA NextType == IType /\ [Next]_vars => IType'
  <1> SUFFICES ASSUME IType, [Next]_vars PROVE IType'  OBVIOUS
  <1>a. DriveOK /\ CacheOK /\ JournalOK /\ TxnOK /\ LogFits
    BY TypeParts DEF IType
  <1>b. SUFFICES (DriveOK /\ CacheOK /\ JournalOK /\ TxnOK /\ LogFits)'
    BY TypeParts DEF IType, TypeOK, DriveOK, CacheOK, JournalOK, TxnOK
  <1>c. MaxDirty \in Nat /\ MaxDirty >= 1
    BY MaxDirtyAssumption
  <1>d. Apal \in Loc /\ Sector \subseteq Loc \ {Apal} /\ Slot \subseteq Loc \ {Apal}
    BY LocationAssumption DEF Loc, Slot
  <1>1. ASSUME NEW h \in Header, Modify(h)
        PROVE (DriveOK /\ CacheOK /\ JournalOK /\ TxnOK /\ LogFits)'
    <2>1. CacheOK'
      <3>1. DOMAIN dirty' = DOMAIN dirty \cup {h.start} /\ h.start \in Sector
        BY <1>1 DEF Modify, Header
      <3>2. IsFiniteSet(DOMAIN dirty')
        BY <1>a, <3>1, FS_AddElement DEF CacheOK
      <3>3. Cardinality(DOMAIN dirty') <= MaxDirty
        BY <1>1, <3>1 DEF Modify
      <3> QED BY <1>1, <1>a, <3>1, <3>2, <3>3 DEF Modify, CacheOK
    <2> QED BY <1>1, <1>a, <2>1 DEF Modify, driveVars, DriveOK, JournalOK, TxnOK, LogFits
  <1>2. ASSUME FlushAllDirty
        PROVE (DriveOK /\ CacheOK /\ JournalOK /\ TxnOK /\ LogFits)'
    <2>1. CacheOK' /\ TxnOK' /\ JournalOK' /\ DriveOK'
      BY <1>2, <1>a DEF FlushAllDirty, driveVars, DriveOK, CacheOK, JournalOK, TxnOK
    <2>2. LogFits'
      <3>1. Cardinality(DOMAIN dirty) \in Nat
        BY <1>a, FS_CardinalityType DEF CacheOK
      <3> QED BY <1>2, <1>a, <3>1 DEF FlushAllDirty, LogFits, CacheOK
    <2> QED BY <2>1, <2>2
  <1>3. ASSUME NEW s \in Sector, JournalWrite(s)
        PROVE (DriveOK /\ CacheOK /\ JournalOK /\ TxnOK /\ LogFits)'
    <2>1. /\ IsFiniteSet(todo) /\ Cardinality(todo) \in Nat
          /\ Cardinality(todo \ {s}) = Cardinality(todo) - 1
          /\ Cardinality(todo) >= 1
      <3>1. IsFiniteSet(todo)
        BY <1>a, FS_Subset DEF CacheOK
      <3>2. Cardinality(todo) \in Nat /\ Cardinality(todo \ {s}) \in Nat
        BY <3>1, FS_CardinalityType, FS_RemoveElement
      <3>3. Cardinality(todo \ {s}) = Cardinality(todo) - 1
        BY <1>3, <3>1, FS_RemoveElement DEF JournalWrite
      <3> QED BY <3>1, <3>2, <3>3
    <2>2. Len(journal) + 1 \in Slot
      BY <1>3, <1>a, <1>c, <2>1 DEF JournalWrite, LogFits, JournalOK, Slot
    <2>3. DriveOK'
      <3>1. SectorWrite(Len(journal) + 1, dirty[s]) /\ dirty[s] \in Header
        BY <1>3, <1>a DEF JournalWrite, CacheOK
      <3> QED BY <1>a, <1>d, <2>2, <3>1, SectorWriteType
    <2>4. JournalOK' /\ LogFits'
      BY <1>3, <1>a, <1>c, <2>1 DEF JournalWrite, JournalOK, LogFits
    <2> QED BY <1>3, <1>a, <2>3, <2>4 DEF JournalWrite, CacheOK, TxnOK
  <1>4. ASSUME NEW s \in Sector, JournalWriteFails(s)
        PROVE (DriveOK /\ CacheOK /\ JournalOK /\ TxnOK /\ LogFits)'
    <2>1. Cardinality(todo \ {s}) <= Cardinality(todo)
          /\ Cardinality(todo) \in Nat /\ Cardinality(todo \ {s}) \in Nat
      BY <1>a, FS_Subset, FS_CardinalityType DEF CacheOK
    <2>2. LogFits'
      BY <1>4, <1>a, <1>c, <2>1 DEF JournalWriteFails, JournalOK, LogFits
    <2> QED BY <1>4, <1>a, <2>2
            DEF JournalWriteFails, driveVars, DriveOK, CacheOK, JournalOK, TxnOK
  <1>5. ASSUME JournalLogged
        PROVE (DriveOK /\ CacheOK /\ JournalOK /\ TxnOK /\ LogFits)'
    BY <1>5, <1>a
       DEF JournalLogged, driveVars, DriveOK, CacheOK, JournalOK, TxnOK, LogFits, FlushSteps
  <1>6. ASSUME JournalFlush
        PROVE (DriveOK /\ CacheOK /\ JournalOK /\ TxnOK /\ LogFits)'
    <2>1. DriveOK'
      <3>1. CASE SectorWrite(Apal, journal)
        BY <1>a, <1>d, <3>1, SectorWriteType DEF JournalOK
      <3>2. CASE FlushCache
        BY <1>a, <3>2, FlushCacheType
      <3> QED BY <1>6, <3>1, <3>2 DEF JournalFlush
    <2> QED BY <1>6, <1>a, <2>1
            DEF JournalFlush, FlushLeaves, FlushSteps, CacheOK, JournalOK, TxnOK, LogFits
  <1>7. ASSUME JournalFlushFails
        PROVE (DriveOK /\ CacheOK /\ JournalOK /\ TxnOK /\ LogFits)'
    BY <1>7, <1>a DEF JournalFlushFails, FlushLeaves, AfterFault, FlushSteps, driveVars,
                      DriveOK, CacheOK, JournalOK, TxnOK, LogFits
  <1>8. ASSUME NEW s \in Sector, CacheTransfer(s) \/ CacheTransferFails(s)
        PROVE (DriveOK /\ CacheOK /\ JournalOK /\ TxnOK /\ LogFits)'
    <2>1. DriveOK'
      <3>1. CASE CacheTransfer(s)
        BY <1>a, <1>d, <3>1, SectorWriteType DEF CacheTransfer, CacheOK
      <3>2. CASE CacheTransferFails(s)
        BY <1>a, <3>2 DEF CacheTransferFails, driveVars, DriveOK
      <3> QED BY <1>8, <3>1, <3>2
    <2>2. CacheOK'
      <3>1. DOMAIN dirty' = DOMAIN dirty \ {s}
        BY <1>8 DEF CacheTransfer, CacheTransferFails
      <3>2. /\ IsFiniteSet(DOMAIN dirty \ {s})
            /\ Cardinality(DOMAIN dirty \ {s}) <= Cardinality(DOMAIN dirty)
            /\ Cardinality(DOMAIN dirty \ {s}) \in Nat /\ Cardinality(DOMAIN dirty) \in Nat
        BY <1>a, FS_Subset, FS_CardinalityType DEF CacheOK
      <3>3. IsFiniteSet(DOMAIN dirty') /\ Cardinality(DOMAIN dirty') <= MaxDirty
        BY <1>a, <1>c, <3>1, <3>2 DEF CacheOK
      <3> QED BY <1>8, <1>a, <3>3 DEF CacheTransfer, CacheTransferFails, CacheOK
    <2> QED BY <1>8, <1>a, <2>1, <2>2
            DEF CacheTransfer, CacheTransferFails, JournalOK, TxnOK, LogFits
  <1>9. ASSUME JournalReset
        PROVE (DriveOK /\ CacheOK /\ JournalOK /\ TxnOK /\ LogFits)'
    BY <1>9, <1>a, <1>c
       DEF JournalReset, driveVars, DriveOK, CacheOK, JournalOK, TxnOK, LogFits, FlushSteps
  <1>10. ASSUME RestoreRead
         PROVE (DriveOK /\ CacheOK /\ JournalOK /\ TxnOK /\ LogFits)'
    <2>1. journal' \in Seq(Sector) /\ Len(journal') <= MaxDirty
      BY <1>10, <1>a, DiskType DEF RestoreRead
    <2> QED BY <1>10, <1>a, <2>1
            DEF RestoreRead, driveVars, DriveOK, CacheOK, JournalOK, TxnOK, LogFits
  <1>11. ASSUME RestoreCopy
         PROVE (DriveOK /\ CacheOK /\ JournalOK /\ TxnOK /\ LogFits)'
    <2>1. pos \in Slot /\ journal[pos] \in Sector
      BY <1>11, <1>a, <1>c DEF RestoreCopy, JournalOK, Slot
    <2>2. DriveOK'
      BY <1>11, <1>a, <1>d, <2>1, DiskType, SectorWriteType DEF RestoreCopy
    <2> QED BY <1>11, <1>a, <2>2 DEF RestoreCopy, CacheOK, JournalOK, TxnOK, LogFits
  <1>12. ASSUME RestoreDone
         PROVE (DriveOK /\ CacheOK /\ JournalOK /\ TxnOK /\ LogFits)'
    BY <1>12, <1>a, <1>c
       DEF RestoreDone, driveVars, DriveOK, CacheOK, JournalOK, TxnOK, LogFits, FlushSteps
  <1>13. ASSUME NEW l \in Loc, Destage(l)
         PROVE (DriveOK /\ CacheOK /\ JournalOK /\ TxnOK /\ LogFits)'
    <2>1. DriveOK'
      BY <1>13, <1>a, <1>d DEF Destage, DriveOK
    <2> QED BY <1>13, <1>a, <2>1 DEF Destage, CacheOK, JournalOK, TxnOK, LogFits
  <1>14. ASSUME NEW torn \in SUBSET (DOMAIN wcache \ {Apal}), PowerCut(torn)
         PROVE (DriveOK /\ CacheOK /\ JournalOK /\ TxnOK /\ LogFits)'
    <2>1. DriveOK'
      BY <1>14, <1>a, <1>d DEF PowerCut, DriveOK
    <2> QED BY <1>14, <1>c, <2>1, FS_EmptySet DEF PowerCut, CacheOK, JournalOK, TxnOK, LogFits
  <1>15. ASSUME UNCHANGED vars
         PROVE (DriveOK /\ CacheOK /\ JournalOK /\ TxnOK /\ LogFits)'
    BY <1>15, <1>a DEF vars, DriveOK, CacheOK, JournalOK, TxnOK, LogFits
  <1> QED BY <1>1, <1>2, <1>3, <1>4, <1>5, <1>6, <1>7, <1>8, <1>9, <1>10, <1>11,
             <1>12, <1>13, <1>14, <1>15 DEF Next, Write, Restore, Drive

(* Type correctness of the journal code for every set of sectors: the log *)
(* area and journalBuf.sectors (journal.c:52-55) are never overrun.       *)
THEOREM TypeCorrect == Spec => []TypeOK
  <1>1. Spec => []IType
    BY InitType, NextType, PTL DEF Spec
  <1> QED BY <1>1, PTL DEF IType
=============================================================================
