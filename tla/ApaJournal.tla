----------------------------- MODULE ApaJournal -----------------------------
(***************************************************************************)
(* The APA header journal: apaCacheFlushAllDirty of libapa/src/cache.c    *)
(* and libapa/src/journal.c, on one ATA drive.                             *)
(*                                                                         *)
(* The dirty headers are copied to log slots, the APAL sector that lists  *)
(* them is written between two cache flushes, the headers are written to  *)
(* their own sectors, and the APAL sector is emptied between two cache    *)
(* flushes.  apaJournalRestore replays the log when the driver starts.    *)
(*                                                                         *)
(* The drive (external) keeps writes in a volatile cache and moves them   *)
(* to the platter in any order until a flush; a power cut loses what is   *)
(* left there, and may tear a header, which is two sectors long.  The     *)
(* APAL record is one sector and is never torn.                            *)
(***************************************************************************)
EXTENDS Naturals, Sequences, FiniteSets

CONSTANTS Sector,    \* sectors that hold a partition header
          Data,      \* what distinguishes two versions of a header
          Torn,      \* a header of which only one sector was written
          Apal,      \* APA_SECTOR_APAL
          MaxDirty,  \* most headers an operation changes before it flushes
          Faults     \* the disk transfers that may fail

ASSUME LocationAssumption ==
    /\ Apal \notin Sector /\ Apal \notin Nat
    /\ \A s \in Sector : s \notin Nat
ASSUME TornAssumption ==
    \A s \in Sector, d \in Data : Torn # [start |-> s, data |-> d]
ASSUME MaxDirtyAssumption == MaxDirty \in 1 .. 126
ASSUME FaultsAssumption ==
    Faults \subseteq {"log", "commit", "home", "reset", "restore"}

VARIABLES platter,   \* what survives a power cut, by location
          wcache,    \* writes the drive has accepted and not yet destaged
          dirty,     \* headers with APA_CACHE_FLAG_DIRTY, by sector
          todo,      \* sectors the current loop over the cache has still to visit
          journal,   \* journalBuf: the sectors logged so far
          pos,       \* apaJournalRestore's loop counter
          pc,        \* where apaCacheFlushAllDirty or apaJournalRestore is
          txn        \* history: the update the current flush is to make

driveVars == <<platter, wcache>>
vars == <<platter, wcache, dirty, todo, journal, pos, pc, txn>>

Header == [start : Sector, data : Data]
Slot == 1 .. MaxDirty
Loc == Sector \cup Slot \cup {Apal}

Empty == [x \in {} |-> x]
Put(f, x, y) == [z \in DOMAIN f \cup {x} |-> IF z = x THEN y ELSE f[z]]
Drop(f, x) == [z \in DOMAIN f \ {x} |-> f[z]]

-----------------------------------------------------------------------------
(* The drive: ata_device_sector_io and ata_device_flush_cache.            *)

Disk == [l \in Loc |-> IF l \in DOMAIN wcache THEN wcache[l] ELSE platter[l]]
SectorWrite(l, v) == wcache' = Put(wcache, l, v) /\ UNCHANGED platter
FlushCache == platter' = Disk /\ wcache' = Empty

Destage(l) ==
    /\ l \in DOMAIN wcache
    /\ platter' = [platter EXCEPT ![l] = wcache[l]]
    /\ wcache' = Drop(wcache, l)
    /\ UNCHANGED <<dirty, todo, journal, pos, pc, txn>>

(* The power fails while some of the cached headers are being written.    *)
PowerCut(torn) ==
    /\ torn \subseteq DOMAIN wcache \ {Apal}
    /\ platter' = [l \in Loc |-> IF l \in torn THEN Torn ELSE platter[l]]
    /\ wcache' = Empty
    /\ dirty' = Empty /\ todo' = {} /\ txn' = Empty
    /\ journal' = <<>> /\ pos' = 1
    /\ pc' = "boot"

-----------------------------------------------------------------------------
(* A caller changes a cached header and marks it dirty.                   *)
Modify(h) ==
    /\ pc = "idle"
    /\ Cardinality(DOMAIN dirty \cup {h.start}) <= MaxDirty
    /\ dirty' = Put(dirty, h.start, h)
    /\ UNCHANGED <<driveVars, todo, journal, pos, pc, txn>>

(* apaCacheFlushAllDirty is called; its first loop writes the log.        *)
FlushAllDirty ==
    /\ pc = "idle"
    /\ pc' = "log"
    /\ todo' = DOMAIN dirty
    /\ txn' = dirty
    /\ UNCHANGED <<driveVars, dirty, journal, pos>>

JournalWrite(s) ==
    /\ pc = "log" /\ s \in todo
    /\ SectorWrite(Len(journal) + 1, dirty[s])
    /\ journal' = Append(journal, s)
    /\ todo' = todo \ {s}
    /\ UNCHANGED <<dirty, pos, pc, txn>>

(* Mutant: the sector is entered in the journal before the transfer.       *)
JournalWriteFailsCounted(s) ==
    /\ pc = "log" /\ s \in todo /\ "log" \in Faults
    /\ journal' = Append(journal, s)
    /\ todo' = todo \ {s}
    /\ UNCHANGED <<driveVars, dirty, pos, pc, txn>>

JournalWriteFails(s) ==
    /\ pc = "log" /\ s \in todo /\ "log" \in Faults
    /\ todo' = todo \ {s}
    /\ UNCHANGED <<driveVars, dirty, journal, pos, pc, txn>>

(* Mutant: the headers are written without flushing the journal.           *)
JournalLoggedOnly ==
    /\ pc = "log" /\ todo = {}
    /\ pc' = "home" /\ todo' = DOMAIN dirty
    /\ UNCHANGED <<driveVars, dirty, journal, pos, txn>>

JournalLogged ==
    /\ pc = "log" /\ todo = {}
    /\ pc' = "c1"
    /\ UNCHANGED <<driveVars, dirty, todo, journal, pos, txn>>

(* apaJournalFlush is called once the log is written (steps c1, c2, c3),  *)
(* by the apaJournalReset that ends apaCacheFlushAllDirty (r1, r2, r3)    *)
(* and by the one that ends apaJournalRestore (b1, b2, b3).  A failing    *)
(* step makes it return: the flush goes on regardless, and the driver     *)
(* does not start.                                                         *)
FlushSteps == [c1 |-> "c2", c2 |-> "c3", c3 |-> "home",
               r1 |-> "r2", r2 |-> "r3", r3 |-> "idle",
               b1 |-> "b2", b2 |-> "b3", b3 |-> "idle"]
FlushFault(p) == CASE p \in {"c1", "c2", "c3"} -> "commit"
                   [] p \in {"r1", "r2", "r3"} -> "reset"
                   [] OTHER -> "restore"
AfterFault(p) == CASE p \in {"c1", "c2", "c3"} -> "home"
                   [] p \in {"r1", "r2", "r3"} -> "idle"
                   [] OTHER -> "failed"

FlushLeaves(p) ==
    /\ pc' = p
    /\ todo' = IF p = "home" THEN DOMAIN dirty ELSE todo
    /\ txn' = IF p = "idle" THEN Empty ELSE txn

(* Mutant: the cache is not flushed before the APAL sector is written.     *)
JournalFlushNoBarrier ==
    /\ pc \in DOMAIN FlushSteps
    /\ CASE pc \in {"c2", "r2", "b2"} -> SectorWrite(Apal, journal)
         [] pc \in {"c1", "r1", "b1"} -> UNCHANGED driveVars
         [] OTHER -> FlushCache
    /\ FlushLeaves(FlushSteps[pc])
    /\ UNCHANGED <<dirty, journal, pos>>

(* Mutant: the cache is not flushed after the APAL sector is written.      *)
JournalFlushNoFinal ==
    /\ pc \in DOMAIN FlushSteps
    /\ CASE pc \in {"c2", "r2", "b2"} -> SectorWrite(Apal, journal)
         [] pc \in {"c1", "r1", "b1"} -> FlushCache
         [] OTHER -> UNCHANGED driveVars
    /\ FlushLeaves(FlushSteps[pc])
    /\ UNCHANGED <<dirty, journal, pos>>

JournalFlush ==
    /\ pc \in DOMAIN FlushSteps
    /\ IF pc \in {"c2", "r2", "b2"} THEN SectorWrite(Apal, journal)
                                    ELSE FlushCache
    /\ FlushLeaves(FlushSteps[pc])
    /\ UNCHANGED <<dirty, journal, pos>>

JournalFlushFails ==
    /\ pc \in DOMAIN FlushSteps /\ FlushFault(pc) \in Faults
    /\ FlushLeaves(AfterFault(pc))
    /\ UNCHANGED <<driveVars, dirty, journal, pos>>

(* The second loop of apaCacheFlushAllDirty.  apaCacheTransfer clears the *)
(* dirty flag whether or not the write works.                              *)
CacheTransfer(s) ==
    /\ pc = "home" /\ s \in todo
    /\ SectorWrite(s, dirty[s])
    /\ dirty' = Drop(dirty, s)
    /\ todo' = todo \ {s}
    /\ UNCHANGED <<journal, pos, pc, txn>>

CacheTransferFails(s) ==
    /\ pc = "home" /\ s \in todo /\ "home" \in Faults
    /\ dirty' = Drop(dirty, s)
    /\ todo' = todo \ {s}
    /\ UNCHANGED <<driveVars, journal, pos, pc, txn>>

JournalReset ==
    /\ pc = "home" /\ todo = {}
    /\ journal' = <<>>
    /\ pc' = "r1"
    /\ UNCHANGED <<driveVars, dirty, todo, pos, txn>>

(* apaJournalRestore, run by _start before the driver accepts calls.      *)
RestoreRead ==
    /\ pc = "boot"
    /\ journal' = Disk[Apal]
    /\ pc' = IF Disk[Apal] = <<>> THEN "idle" ELSE "replay"
    /\ UNCHANGED <<driveVars, dirty, todo, pos, txn>>

(* Mutant: the loop counter does not move.                                 *)
RestoreCopyStuck ==
    /\ pc = "replay" /\ pos <= Len(journal)
    /\ SectorWrite(journal[pos], Disk[pos])
    /\ UNCHANGED <<dirty, todo, journal, pos, pc, txn>>

RestoreCopy ==
    /\ pc = "replay" /\ pos <= Len(journal)
    /\ SectorWrite(journal[pos], Disk[pos])
    /\ pos' = pos + 1
    /\ UNCHANGED <<dirty, todo, journal, pc, txn>>

(* Mutant: the loop stops one entry early.                                 *)
RestoreDoneEarly ==
    /\ pc = "replay" /\ (pos >= Len(journal) \/ "restore" \in Faults)
    /\ journal' = <<>> /\ pos' = 1
    /\ pc' = "b1"
    /\ UNCHANGED <<driveVars, dirty, todo, txn>>

(* The loop ends, or a transfer fails and breaks out of it.               *)
RestoreDone ==
    /\ pc = "replay" /\ (pos > Len(journal) \/ "restore" \in Faults)
    /\ journal' = <<>> /\ pos' = 1
    /\ pc' = "b1"
    /\ UNCHANGED <<driveVars, dirty, todo, txn>>

-----------------------------------------------------------------------------
Init ==
    /\ \E d \in [Sector -> Data] :
          platter = [l \in Loc |-> IF l = Apal THEN <<>>
                                   ELSE IF l \in Sector THEN [start |-> l, data |-> d[l]]
                                   ELSE Torn]
    /\ wcache = Empty /\ dirty = Empty /\ todo = {} /\ txn = Empty
    /\ journal = <<>> /\ pos = 1
    /\ pc = "boot"

Write == \/ \E s \in Sector : JournalWrite(s) \/ JournalWriteFails(s)
         \/ JournalLogged
         \/ JournalFlush \/ JournalFlushFails
         \/ \E s \in Sector : CacheTransfer(s) \/ CacheTransferFails(s)
         \/ JournalReset
Restore == RestoreRead \/ RestoreCopy \/ RestoreDone
Drive == \/ \E l \in Loc : Destage(l)
         \/ \E torn \in SUBSET (DOMAIN wcache \ {Apal}) : PowerCut(torn)

Next == \/ \E h \in Header : Modify(h)
        \/ FlushAllDirty
        \/ Write
        \/ Restore
        \/ Drive

Spec == Init /\ [][Next]_vars
FairSpec == Spec /\ WF_vars(Write \/ Restore)

-----------------------------------------------------------------------------
(* Type correctness: in particular the log never holds more entries than  *)
(* an operation may dirty, and pos never leaves the log (journal.c:75).   *)
TypeOK ==
    /\ DOMAIN platter = Loc
    /\ \A l \in Loc \ {Apal} : platter[l] \in Header \cup {Torn}
    /\ platter[Apal] \in Seq(Sector) /\ Len(platter[Apal]) <= MaxDirty
    /\ DOMAIN wcache \subseteq Loc
    /\ \A l \in DOMAIN wcache \ {Apal} : wcache[l] \in Header \cup {Torn}
    /\ Apal \in DOMAIN wcache => /\ wcache[Apal] \in Seq(Sector)
                                 /\ Len(wcache[Apal]) <= MaxDirty
    /\ DOMAIN dirty \subseteq Sector
    /\ \A s \in DOMAIN dirty : dirty[s] \in Header /\ dirty[s].start = s
    /\ IsFiniteSet(DOMAIN dirty) /\ Cardinality(DOMAIN dirty) <= MaxDirty
    /\ todo \subseteq DOMAIN dirty
    /\ journal \in Seq(Sector) /\ Len(journal) <= MaxDirty
    /\ pos \in 1 .. Len(journal) + 1
    /\ pc \in {"boot", "replay", "idle", "log", "home", "failed"} \cup DOMAIN FlushSteps
    /\ DOMAIN txn \subseteq Sector
    /\ \A s \in DOMAIN txn : txn[s] \in Header /\ txn[s].start = s

(* The log being built has room for every header still to be logged, and  *)
(* journalBuf is empty whenever no log is being built or replayed.        *)
LogFits ==
    /\ pc = "log" => Len(journal) + Cardinality(todo) <= MaxDirty
    /\ pc \in {"boot", "idle", "failed", "r1", "r2", "r3", "b1", "b2", "b3"} => journal = <<>>
    /\ pc # "replay" => pos = 1

(* What the next start finds once apaJournalRestore has replayed the log  *)
(* (journal.c:75-81 run to its end on the platter).                        *)
LastEntry(q, s) == CHOOSE i \in 1 .. Len(q) : /\ q[i] = s
                                              /\ \A j \in i + 1 .. Len(q) : q[j] # s
RecoveredFrom(p) == [s \in Sector |->
                       IF \E i \in 1 .. Len(p[Apal]) : p[Apal][i] = s
                       THEN p[LastEntry(p[Apal], s)]
                       ELSE p[s]]
Recovered == RecoveredFrom(platter)

(* However the power fails, every header that the next start finds is a   *)
(* whole header and belongs to the sector it is found in (apaReadHeader   *)
(* would refuse it otherwise, apa.c:412-428).                              *)
RecoveryFindsHeaders ==
    \A s \in Sector : Recovered[s] \in Header /\ Recovered[s].start = s

(* A log that a start would replay sends every slot to the sector the     *)
(* header in that slot was made for: apaJournalRestore "copys apa headers *)
(* from apal to apa system" (journal.c:60).                                *)
ReplayRightSector ==
    \A i \in 1 .. Len(platter[Apal]) :
        platter[i] \in Header /\ platter[i].start = platter[Apal][i]

(* When apaCacheFlushAllDirty has returned, no header is left in the      *)
(* drive's volatile cache and no log is left to replay (cache.c:109).     *)
IdleIsClean == pc = "idle" => wcache = Empty /\ platter[Apal] = <<>>

(* A header never reaches its own sector before the log that can repair   *)
(* it is on the platter: write-ahead order of cache.c:99-108.              *)
WriteAhead ==
    \A s \in DOMAIN wcache \cap Sector :
        \E i \in 1 .. Len(platter[Apal]) :
            platter[Apal][i] = s /\ platter[i] = wcache[s]

(* The driver's promise: the flush is atomic and durable.                 *)
Phase == CASE pc = "idle" -> "idle"
           [] pc \in {"boot", "replay", "b1", "b2", "b3", "failed"} -> "down"
           [] OTHER -> "flushing"
Store == INSTANCE HeaderStore WITH store <- Recovered, phase <- Phase,
                                   Header <- Header \cup {Torn}
StoreSpec == Store!Spec

(* If the power stays on, a start ends: apaJournalRestore empties the log *)
(* and the driver accepts calls.                                           *)
PowerStaysOn == <>[][~(pc' = "boot")]_vars
RestartEnds == PowerStaysOn => (pc = "boot" ~> pc = "idle")
=============================================================================
