------------------------ MODULE ApaJournalAtomic_proof ------------------------
(***************************************************************************)
(* apaCacheFlushAllDirty is atomic and durable: proofs, for every set of  *)
(* sectors and header contents, that a start after a power cut finds      *)
(* whole headers and that ApaJournal implements HeaderStore, when no disk *)
(* transfer fails.  The invariant FInv says what is on the platter and in *)
(* the write cache at each step of the flush and of the replay.           *)
(***************************************************************************)
EXTENDS ApaJournal_proof

USE DEF Put, Drop, Empty

Entries(q) == {q[i] : i \in 1 .. Len(q)}
Injective(q) == \A i, j \in 1 .. Len(q) : q[i] = q[j] => i = j
Whole(v, s) == v \in Header /\ v.start = s
Listed == platter[Apal]

(* At all times: the listed slots hold whole headers of the sectors they  *)
(* are listed for, and are not being written; the sectors that are not    *)
(* listed hold whole headers and are not being written; what is on its    *)
(* way to a listed sector is what the log has for it.                      *)
LogSound ==
    /\ Injective(Listed)
    /\ \A i \in 1 .. Len(Listed) : Whole(platter[i], Listed[i]) /\ i \notin DOMAIN wcache
    /\ \A s \in Sector \ Entries(Listed) : Whole(platter[s], s) /\ s \notin DOMAIN wcache
    /\ \A i \in 1 .. Len(Listed) : Listed[i] \in DOMAIN wcache => wcache[Listed[i]] = platter[i]

(* The log q has the headers of the update.                                *)
Logs(q) == /\ Injective(q) /\ DOMAIN txn = Entries(q)
           /\ \A i \in 1 .. Len(q) : platter[i] = txn[q[i]]

(* Step by step.                                                           *)
Logging == pc \in {"log", "c1"} =>
    /\ Listed = <<>> /\ DOMAIN wcache \subseteq Slot
    /\ txn = dirty
    /\ Injective(journal) /\ Entries(journal) = DOMAIN dirty \ todo
    /\ \A i \in 1 .. Len(journal) : Disk[i] = txn[journal[i]]
    /\ pc = "c1" => todo = {}
Committing == pc \in {"c2", "c3"} =>
    /\ DOMAIN wcache \subseteq {Apal} /\ Logs(journal) /\ txn = dirty
    /\ IF Apal \in DOMAIN wcache THEN pc = "c3" /\ wcache[Apal] = journal /\ Listed = <<>>
       ELSE Listed = IF pc = "c2" THEN <<>> ELSE journal
Writing == pc = "home" =>
    /\ DOMAIN wcache \subseteq Sector /\ Listed = journal /\ Logs(journal)
    /\ DOMAIN dirty = todo /\ todo \subseteq DOMAIN txn
    /\ \A s \in todo : dirty[s] = txn[s]
    /\ \A s \in DOMAIN txn \ todo : Disk[s] = txn[s]
Resetting == pc \in {"r1", "r2", "r3"} =>
    /\ DOMAIN dirty = {}
    /\ \A s \in DOMAIN txn : Disk[s] = txn[s]
    /\ IF pc = "r1" THEN DOMAIN wcache \subseteq Sector ELSE DOMAIN wcache \subseteq {Apal}
    /\ IF Apal \in DOMAIN wcache THEN pc = "r3" /\ wcache[Apal] = <<>> /\ Logs(Listed)
       ELSE IF pc = "r3" THEN Listed = <<>> ELSE Logs(Listed)
Idling == pc = "idle" => wcache = Empty /\ Listed = <<>> /\ txn = Empty
Booting == pc \in {"boot", "replay", "b1", "b2", "b3"} =>
    /\ DOMAIN dirty = {} /\ txn = Empty
    /\ pc \in {"boot", "b2"} => wcache = Empty
    /\ pc = "replay" => journal = Listed
    /\ IF pc \in {"b2", "b3"} THEN DOMAIN wcache \subseteq {Apal} ELSE DOMAIN wcache \subseteq Sector
    /\ \A i \in 1 .. Len(Listed) :
          (pc = "replay" /\ i < pos) \/ pc \in {"b1", "b2", "b3"} => Disk[Listed[i]] = platter[i]
    /\ pc = "b3" => IF Apal \in DOMAIN wcache THEN wcache[Apal] = <<>> ELSE Listed = <<>>

FInv == /\ IType /\ LogSound /\ pc # "failed"
        /\ Logging /\ Committing /\ Writing /\ Resetting /\ Idling /\ Booting

Stages == Logging /\ Committing /\ Writing /\ Resetting /\ Idling /\ Booting

(* Consequences of the types that the steps below use.                    *)
LEMMA Shapes ==
  ASSUME IType
  PROVE  /\ DOMAIN platter = Loc /\ DOMAIN wcache \subseteq Loc
         /\ Listed \in Seq(Sector) /\ Len(Listed) \in Nat /\ 1 .. Len(Listed) \subseteq Slot
         /\ journal \in Seq(Sector) /\ Len(journal) \in Nat /\ 1 .. Len(journal) \subseteq Slot
         /\ \A i \in 1 .. Len(Listed) : Listed[i] \in Sector
         /\ \A i \in 1 .. Len(journal) : journal[i] \in Sector
         /\ \A s \in DOMAIN dirty : s \in Sector /\ Whole(dirty[s], s)
         /\ \A s \in DOMAIN txn : s \in Sector /\ Whole(txn[s], s)
         /\ todo \subseteq DOMAIN dirty
  <1>1. /\ DOMAIN platter = Loc /\ DOMAIN wcache \subseteq Loc
        /\ Listed \in Seq(Sector) /\ Len(Listed) <= MaxDirty
        /\ journal \in Seq(Sector) /\ Len(journal) <= MaxDirty
    BY DEF IType, TypeOK, Listed
  <1>2. Len(Listed) \in Nat /\ Len(journal) \in Nat /\ MaxDirty \in Nat
    <2>1. \A q \in Seq(Sector) : Len(q) \in Nat
      OBVIOUS
    <2>2. MaxDirty \in Nat
      BY MaxDirtyAssumption
    <2>3. Len(Listed) \in Nat
      BY <1>1, <2>1
    <2>4. Len(journal) \in Nat
      BY <1>1, <2>1
    <2> QED BY <2>2, <2>3, <2>4
  <1>3. 1 .. Len(Listed) \subseteq Slot /\ 1 .. Len(journal) \subseteq Slot
    BY <1>1, <1>2 DEF Slot
  <1>4. /\ \A i \in 1 .. Len(Listed) : Listed[i] \in Sector
        /\ \A i \in 1 .. Len(journal) : journal[i] \in Sector
    BY <1>1
  <1>5. /\ \A s \in DOMAIN dirty : s \in Sector /\ Whole(dirty[s], s)
        /\ \A s \in DOMAIN txn : s \in Sector /\ Whole(txn[s], s)
        /\ todo \subseteq DOMAIN dirty
    BY DEF IType, TypeOK, Whole
  <1> QED BY <1>1, <1>2, <1>3, <1>4, <1>5

(* The kinds of location are disjoint.                                     *)
LEMMA Places == /\ Apal \in Loc /\ Apal \notin Sector /\ Apal \notin Slot
                /\ Sector \subseteq Loc /\ Slot \subseteq Loc /\ Sector \cap Slot = {}
                /\ Slot \subseteq Nat
  BY LocationAssumption DEF Loc, Slot

(* What a start recovers: the slots for the listed sectors, the platter   *)
(* for the others.                                                         *)
LEMMA RecoveredValue ==
  ASSUME NEW p, p[Apal] \in Seq(Sector), Injective(p[Apal])
  PROVE  /\ \A i \in 1 .. Len(p[Apal]) : RecoveredFrom(p)[p[Apal][i]] = p[i]
         /\ \A s \in Sector \ Entries(p[Apal]) : RecoveredFrom(p)[s] = p[s]
  <1> DEFINE q == p[Apal]
  <1>1. ASSUME NEW i \in 1 .. Len(q)
        PROVE  RecoveredFrom(p)[q[i]] = p[i]
    <2>1. Len(q) \in Nat /\ q[i] \in Sector
      OBVIOUS
    <2>2. \A j \in i + 1 .. Len(q) : q[j] # q[i]
      BY <2>1 DEF Injective
    <2>3. LastEntry(q, q[i]) = i
      BY <2>2 DEF LastEntry, Injective
    <2> QED BY <2>1, <2>3 DEF RecoveredFrom
  <1>2. \A s \in Sector \ Entries(q) : RecoveredFrom(p)[s] = p[s]
    BY DEF RecoveredFrom, Entries
  <1> QED BY <1>1, <1>2

LEMMA RecoveredNow ==
  ASSUME IType, Injective(Listed)
  PROVE  /\ \A i \in 1 .. Len(Listed) : Recovered[Listed[i]] = platter[i]
         /\ \A s \in Sector \ Entries(Listed) : Recovered[s] = platter[s]
  BY Shapes, RecoveredValue DEF Listed, Recovered

LEMMA RecoveredNext ==
  ASSUME IType', Injective(Listed)'
  PROVE  /\ \A i \in 1 .. Len(Listed)' : Recovered'[Listed'[i]] = platter'[i]
         /\ \A s \in Sector \ Entries(Listed)' : Recovered'[s] = platter'[s]
  <1>1. platter'[Apal] \in Seq(Sector) /\ Injective(platter'[Apal])
    BY DEF IType, TypeOK, Listed, Injective
  <1> QED BY <1>1, RecoveredValue DEF Listed, Recovered, Entries

(* The recovered headers stay the same when the list, the listed slots    *)
(* and the unlisted sectors do.                                            *)
LEMMA RecoveredSame ==
  ASSUME IType, IType', LogSound, Listed' = Listed,
         \A i \in 1 .. Len(Listed) : platter'[i] = platter[i],
         \A s \in Sector \ Entries(Listed) : platter'[s] = platter[s]
  PROVE  Recovered' = Recovered
  <1>1. Injective(Listed) /\ Injective(Listed)' /\ Entries(Listed)' = Entries(Listed)
    BY DEF LogSound, Injective, Entries
  <1>2. /\ \A i \in 1 .. Len(Listed) : Recovered[Listed[i]] = platter[i]
        /\ \A s \in Sector \ Entries(Listed) : Recovered[s] = platter[s]
    BY <1>1, RecoveredNow
  <1>3. /\ \A i \in 1 .. Len(Listed)' : Recovered'[Listed'[i]] = platter'[i]
        /\ \A s \in Sector \ Entries(Listed)' : Recovered'[s] = platter'[s]
    BY <1>1, RecoveredNext
  <1>4. \A s \in Sector : Recovered'[s] = Recovered[s]
    BY <1>1, <1>2, <1>3 DEF Entries
  <1> QED BY <1>4 DEF Recovered, RecoveredFrom

(* The list becomes the log: the update takes effect as a whole.           *)
LEMMA ListCommitted ==
  ASSUME IType, IType', LogSound, Logs(journal), Listed = <<>>, Listed' = journal,
         DOMAIN wcache' = {},
         \A l \in Loc \ {Apal} : platter'[l] = platter[l]
  PROVE  LogSound' /\ Recovered' = Store!Apply(txn, Recovered)
  <1>1. /\ \A i \in 1 .. Len(journal) : platter'[i] = platter[i] /\ platter[i] = txn[journal[i]]
        /\ \A s \in Sector : platter'[s] = platter[s] /\ Whole(platter[s], s)
        /\ DOMAIN txn = Entries(journal) /\ Injective(journal)
    BY Shapes, Places DEF LogSound, Logs, Entries
  <1>2. \A i \in 1 .. Len(journal) : Whole(platter'[i], journal[i])
    BY <1>1, Shapes DEF Entries
  <1>3. LogSound'
    BY <1>1, <1>2 DEF LogSound, Injective, Entries, Whole
  <1>4. \A s \in Sector : Recovered[s] = platter[s]
    BY RecoveredNow DEF LogSound, Entries
  <1>5. Injective(Listed)' /\ Entries(Listed)' = DOMAIN txn
    BY <1>1 DEF Injective, Entries
  <1>6. /\ \A i \in 1 .. Len(Listed)' : Recovered'[Listed'[i]] = platter'[i]
        /\ \A s \in Sector \ Entries(Listed)' : Recovered'[s] = platter'[s]
    BY <1>5, RecoveredNext
  <1>7. \A s \in Sector : Recovered'[s] = IF s \in DOMAIN txn THEN txn[s] ELSE Recovered[s]
    BY <1>1, <1>4, <1>5, <1>6 DEF Entries
  <1> QED BY <1>3, <1>7 DEF Store!Apply, Recovered, RecoveredFrom

(* Flushing a cache without the APAL sector keeps the log sound.           *)
LEMMA FlushSound ==
  ASSUME IType, IType', LogSound, FlushCache, Apal \notin DOMAIN wcache
  PROVE  LogSound' /\ Listed' = Listed /\ wcache' = Empty /\ Recovered' = Recovered
         /\ (\A l \in Loc : platter'[l] = Disk[l])
         /\ (\A i \in 1 .. Len(Listed) : platter'[i] = platter[i])
  <1>1. wcache' = Empty /\ \A l \in Loc : platter'[l] = Disk[l]
    BY DEF FlushCache, Disk
  <1>2. Listed' = Listed
    BY <1>1, Places DEF Listed, Disk
  <1>3. \A i \in 1 .. Len(Listed) : platter'[i] = platter[i]
    BY <1>1, Shapes, Places DEF LogSound, Disk
  <1>4. \A s \in Sector \ Entries(Listed) : platter'[s] = platter[s]
    BY <1>1, Places DEF LogSound, Disk
  <1>5. LogSound'
    BY <1>1, <1>2, <1>3, <1>4 DEF LogSound, Entries, Injective, Whole
  <1>6. Recovered' = Recovered
    BY <1>2, <1>3, <1>4, RecoveredSame
  <1> QED BY <1>1, <1>2, <1>3, <1>5, <1>6

LEMMA StepModify ==
  ASSUME FInv, NEW h \in Header, Modify(h)
  PROVE  LogSound' /\ Stages' /\ pc' # "failed"
  <1>1. platter' = platter /\ wcache' = wcache /\ pc = "idle" /\ pc' = "idle" /\ txn' = txn
    BY DEF Modify, driveVars
  <1>2. LogSound'
    BY <1>1 DEF FInv, LogSound, Listed, Entries, Injective, Whole
  <1> QED BY <1>1, <1>2 DEF FInv, Stages, Logging, Committing, Writing, Resetting, Idling,
                            Booting, Listed

LEMMA StepFlushAllDirty ==
  ASSUME FInv, FlushAllDirty
  PROVE  LogSound' /\ Stages' /\ pc' # "failed"
  <1>1. /\ platter' = platter /\ wcache' = wcache /\ pc = "idle" /\ pc' = "log"
        /\ txn' = dirty /\ dirty' = dirty /\ todo' = DOMAIN dirty /\ journal' = journal
    BY DEF FlushAllDirty, driveVars
  <1>2. LogSound'
    BY <1>1 DEF FInv, LogSound, Listed, Entries, Injective, Whole
  <1>3. journal = <<>> /\ Len(journal) = 0
    BY <1>1 DEF FInv, IType, LogFits
  <1>4. Entries(journal) = {} /\ Injective(journal) /\ 1 .. Len(journal) = {}
    BY <1>3 DEF Entries, Injective
  <1>5. wcache = Empty /\ Listed = <<>>
    BY <1>1 DEF FInv, Idling
  <1>6. Logging'
    BY <1>1, <1>4, <1>5 DEF Logging, Listed, Entries, Injective
  <1> QED BY <1>1, <1>2, <1>6 DEF Stages, Committing, Writing, Resetting, Idling, Booting
(* The next slot of the log is written: nothing that is listed changes.    *)
LEMMA StepJournalWrite ==
  ASSUME FInv, NEW s \in Sector, JournalWrite(s)
  PROVE  LogSound' /\ Stages' /\ pc' # "failed"
  <1> DEFINE k == Len(journal) + 1
  <1>1. /\ platter' = platter /\ wcache' = Put(wcache, k, dirty[s]) /\ pc = "log" /\ pc' = "log"
        /\ txn' = txn /\ dirty' = dirty /\ s \in todo /\ todo' = todo \ {s}
        /\ journal' = Append(journal, s)
    BY DEF JournalWrite, SectorWrite
  <1>2. /\ Listed = <<>> /\ DOMAIN wcache \subseteq Slot /\ txn = dirty
        /\ Injective(journal) /\ Entries(journal) = DOMAIN dirty \ todo
        /\ \A i \in 1 .. Len(journal) : Disk[i] = txn[journal[i]]
    BY <1>1 DEF FInv, Logging
  <1>3. IType /\ journal \in Seq(Sector) /\ Len(journal) \in Nat /\ s \in DOMAIN dirty
    BY <1>1, Shapes DEF FInv
  <1>4. k \in Slot
    <2>1. IsFiniteSet(todo) /\ Cardinality(todo) \in Nat /\ Cardinality(todo) # 0
      BY <1>1, FS_CardinalityType, FS_EmptySet, FS_Subset DEF FInv, IType, TypeOK
    <2>2. Len(journal) + Cardinality(todo) <= MaxDirty
      BY <1>1 DEF FInv, IType, LogFits
    <2> QED BY <1>3, <2>1, <2>2, MaxDirtyAssumption DEF Slot
  <1>5. /\ Len(journal') = k /\ \A i \in 1 .. Len(journal) : journal'[i] = journal[i]
        /\ journal'[k] = s /\ 1 .. k = (1 .. Len(journal)) \cup {k}
        /\ k \notin 1 .. Len(journal)
    BY <1>1, <1>3
  <1>6. LogSound'
    <2>1. Listed' = <<>> /\ Len(Listed') = 0 /\ 1 .. Len(Listed') = {}
      BY <1>1, <1>2 DEF Listed
    <2>2. \A t \in Sector : Whole(platter[t], t) /\ t \notin DOMAIN wcache'
      BY <1>1, <1>2, <1>4, Places DEF FInv, LogSound, Entries
    <2> QED BY <1>1, <2>1, <2>2 DEF LogSound, Injective, Entries, Whole
  <1>7. Injective(journal')
    BY <1>2, <1>1, <1>5 DEF Injective, Entries
  <1>8. Entries(journal') = DOMAIN dirty \ todo'
    BY <1>1, <1>2, <1>3, <1>5 DEF Entries
  <1>9. \A i \in 1 .. Len(journal') : Disk'[i] = txn[journal'[i]]
    <2>1. Disk'[k] = dirty[s]
      BY <1>1, <1>4, Places DEF Disk
    <2>2. \A i \in 1 .. Len(journal) : Disk'[i] = Disk[i]
      BY <1>1, <1>3, <1>5, Shapes, Places DEF Disk
    <2> QED BY <1>2, <1>5, <2>1, <2>2
  <1>10. Logging'
    BY <1>1, <1>2, <1>4, <1>7, <1>8, <1>9 DEF Logging, Listed, Entries, Injective
  <1> QED BY <1>1, <1>6, <1>10 DEF Stages, Committing, Writing, Resetting, Idling, Booting

LEMMA StepJournalLogged ==
  ASSUME FInv, JournalLogged
  PROVE  LogSound' /\ Stages' /\ pc' # "failed"
  <1>1. /\ platter' = platter /\ wcache' = wcache /\ pc = "log" /\ pc' = "c1" /\ todo = {}
        /\ txn' = txn /\ dirty' = dirty /\ todo' = todo /\ journal' = journal
    BY DEF JournalLogged, driveVars
  <1>2. LogSound'
    BY <1>1 DEF FInv, LogSound, Listed, Entries, Injective, Whole
  <1>3. Disk' = Disk
    BY <1>1 DEF Disk
  <1>4. Logging'
    BY <1>1, <1>3 DEF FInv, Logging, Listed, Entries, Injective
  <1> QED BY <1>1, <1>2, <1>4 DEF Stages, Committing, Writing, Resetting, Idling, Booting

(* Writing a header home: the log has it.                                  *)
LEMMA StepCacheTransfer ==
  ASSUME FInv, NEW s \in Sector, CacheTransfer(s)
  PROVE  LogSound' /\ Stages' /\ pc' # "failed"
  <1>1. /\ platter' = platter /\ wcache' = Put(wcache, s, dirty[s]) /\ pc = "home" /\ pc' = "home"
        /\ txn' = txn /\ dirty' = Drop(dirty, s) /\ s \in todo /\ todo' = todo \ {s}
        /\ journal' = journal
    BY DEF CacheTransfer, SectorWrite
  <1>2. /\ DOMAIN wcache \subseteq Sector /\ Listed = journal /\ Logs(journal)
        /\ DOMAIN dirty = todo /\ todo \subseteq DOMAIN txn
        /\ \A t \in todo : dirty[t] = txn[t]
        /\ \A t \in DOMAIN txn \ todo : Disk[t] = txn[t]
    BY <1>1 DEF FInv, Writing
  <1>3. /\ IType /\ 1 .. Len(Listed) \subseteq Slot
        /\ \A i \in 1 .. Len(Listed) : Listed[i] \in Sector
    BY Shapes DEF FInv
  <1>4. Listed' = Listed /\ Entries(Listed) = DOMAIN txn
    BY <1>1, <1>2 DEF Listed, Logs, Entries
  <1>5. LogSound'
    <2>1. \A i \in 1 .. Len(Listed) : i \notin DOMAIN wcache'
      BY <1>1, <1>2, <1>3, Places
    <2>2. \A t \in Sector \ Entries(Listed) : t \notin DOMAIN wcache'
      BY <1>1, <1>2, <1>4 DEF FInv, LogSound
    <2>3. \A i \in 1 .. Len(Listed) : Listed[i] \in DOMAIN wcache' => wcache'[Listed[i]] = platter[i]
      BY <1>1, <1>2 DEF FInv, LogSound, Logs
    <2>4. Entries(Listed)' = Entries(Listed) /\ Injective(Listed)'
      BY <1>4 DEF FInv, LogSound, Entries, Injective
    <2> QED BY <1>1, <1>4, <2>1, <2>2, <2>3, <2>4 DEF FInv, LogSound, Whole
  <1>6. Logs(journal)'
    BY <1>1, <1>2 DEF Logs, Injective, Entries
  <1>7. \A t \in DOMAIN txn \ todo' : Disk'[t] = txn[t]
    <2>1. Disk'[s] = dirty[s]
      BY <1>1, Places DEF Disk
    <2>2. \A t \in DOMAIN txn \ todo : t # s => Disk'[t] = Disk[t]
      BY <1>1, <1>3, Shapes, Places DEF Disk
    <2> QED BY <1>1, <1>2, <2>1, <2>2
  <1>8. Writing'
    BY <1>1, <1>2, <1>4, <1>6, <1>7 DEF Writing
  <1> QED BY <1>1, <1>5, <1>8 DEF Stages, Logging, Committing, Resetting, Idling, Booting

LEMMA StepJournalReset ==
  ASSUME FInv, JournalReset
  PROVE  LogSound' /\ Stages' /\ pc' # "failed"
  <1>1. /\ platter' = platter /\ wcache' = wcache /\ pc = "home" /\ pc' = "r1" /\ todo = {}
        /\ txn' = txn /\ dirty' = dirty /\ todo' = todo
    BY DEF JournalReset, driveVars
  <1>2. LogSound'
    BY <1>1 DEF FInv, LogSound, Listed, Entries, Injective, Whole
  <1>3. Disk' = Disk /\ Listed' = Listed
    BY <1>1 DEF Disk, Listed
  <1>4. Logs(Listed)'
    BY <1>1, <1>3 DEF FInv, Writing, Logs, Injective, Entries
  <1>5. Apal \notin DOMAIN wcache /\ DOMAIN wcache \subseteq Sector /\ DOMAIN dirty = {}
        /\ \A s \in DOMAIN txn : Disk[s] = txn[s]
    BY <1>1, Places DEF FInv, Writing
  <1>6. Resetting'
    BY <1>1, <1>3, <1>4, <1>5 DEF Resetting
  <1> QED BY <1>1, <1>2, <1>6 DEF Stages, Logging, Committing, Writing, Idling, Booting

(* Writing the APAL sector into the cache leaves the platter as it was.    *)
LEMMA ApalWritten ==
  ASSUME IType, LogSound, NEW q, SectorWrite(Apal, q)
  PROVE  /\ LogSound' /\ Listed' = Listed /\ platter' = platter
         /\ DOMAIN wcache' = DOMAIN wcache \cup {Apal} /\ wcache'[Apal] = q
         /\ \A l \in Loc \ {Apal} : Disk'[l] = Disk[l]
  <1>1. platter' = platter /\ wcache' = Put(wcache, Apal, q) /\ Listed' = Listed
    BY DEF SectorWrite, Listed
  <1>2. \A l : l # Apal => (l \in DOMAIN wcache' <=> l \in DOMAIN wcache)
                           /\ (l \in DOMAIN wcache => wcache'[l] = wcache[l])
    BY <1>1
  <1>3. Entries(Listed)' = Entries(Listed) /\ Injective(Listed)'
    BY <1>1 DEF LogSound, Entries, Injective
  <1>4. LogSound'
    BY <1>1, <1>2, <1>3, Shapes, Places DEF LogSound, Whole
  <1>5. \A l \in Loc \ {Apal} : Disk'[l] = Disk[l]
    BY <1>1, <1>2 DEF Disk
  <1> QED BY <1>1, <1>4, <1>5

(* Flushing a cache that holds the APAL sector alone replaces the list.    *)
LEMMA ApalFlushed ==
  ASSUME IType, FlushCache, DOMAIN wcache \subseteq {Apal}
  PROVE  /\ wcache' = Empty
         /\ \A l \in Loc \ {Apal} : platter'[l] = platter[l] /\ Disk[l] = platter[l]
         /\ \A l \in Loc : Disk'[l] = Disk[l]
         /\ Listed' = IF Apal \in DOMAIN wcache THEN wcache[Apal] ELSE Listed
  BY Places DEF FlushCache, Disk, Listed

(* Flushing never changes what is read.                                    *)
LEMMA FlushReads == FlushCache => \A l \in Loc : Disk'[l] = Disk[l]
  BY DEF FlushCache, Disk

(* A step keeps what a start would recover, or makes the whole update.     *)
Atomic == \/ Recovered' = Recovered
          \/ pc = "c3" /\ Recovered' = Store!Apply(txn, Recovered)

(* The log commits: step 1 hardens the slots, step 2 sends the list, and  *)
(* step 3 hardens it.                                                      *)
LEMMA StepCommit ==
  ASSUME FInv, IType', JournalFlush, pc \in {"c1", "c2", "c3"}
  PROVE  LogSound' /\ Stages' /\ pc' # "failed" /\ Atomic
  <1> USE DEF FlushSteps
  <1>1. /\ IType /\ IType' /\ LogSound /\ txn' = txn /\ dirty' = dirty /\ journal' = journal
    BY DEF FInv, JournalFlush, FlushLeaves
  <1>2. CASE pc = "c1"
    <2>1. FlushCache /\ pc' = "c2"
      BY <1>2 DEF JournalFlush, FlushLeaves
    <2>2. /\ Listed = <<>> /\ DOMAIN wcache \subseteq Slot /\ txn = dirty
          /\ Injective(journal) /\ Entries(journal) = DOMAIN txn
          /\ \A i \in 1 .. Len(journal) : Disk[i] = txn[journal[i]]
      BY <1>2 DEF FInv, Logging
    <2>3. /\ LogSound' /\ Listed' = <<>> /\ wcache' = Empty /\ Recovered' = Recovered
          /\ \A l \in Loc : platter'[l] = Disk[l]
      BY <1>1, <2>1, <2>2, FlushSound, Places
    <2>4. Logs(journal)'
      BY <1>1, <2>2, <2>3, Shapes, Places DEF Logs, Injective, Entries
    <2>5. Committing'
      BY <1>1, <2>1, <2>2, <2>3, <2>4 DEF Committing
    <2> QED BY <2>1, <2>3, <2>5 DEF Atomic, Recovered, Stages, Logging, Writing, Resetting, Idling, Booting
  <1>3. CASE pc = "c2"
    <2>1. SectorWrite(Apal, journal) /\ pc' = "c3"
      BY <1>3 DEF JournalFlush, FlushLeaves
    <2>2. DOMAIN wcache = {} /\ Logs(journal) /\ txn = dirty /\ Listed = <<>>
      BY <1>3 DEF FInv, Committing
    <2>3. /\ LogSound' /\ Listed' = Listed /\ platter' = platter
          /\ DOMAIN wcache' = {Apal} /\ wcache'[Apal] = journal
      BY <1>1, <2>1, <2>2, ApalWritten
    <2>4. Logs(journal)'
      BY <1>1, <2>2, <2>3 DEF Logs, Injective, Entries
    <2>5. Committing'
      BY <1>1, <2>1, <2>2, <2>3, <2>4 DEF Committing
    <2> QED BY <2>1, <2>3, <2>5 DEF Atomic, Recovered, Stages, Logging, Writing, Resetting, Idling, Booting
  <1>4. CASE pc = "c3"
    <2>1. FlushCache /\ pc' = "home" /\ todo' = DOMAIN dirty
      BY <1>4 DEF JournalFlush, FlushLeaves
    <2>2. /\ DOMAIN wcache \subseteq {Apal} /\ Logs(journal) /\ txn = dirty
          /\ IF Apal \in DOMAIN wcache THEN wcache[Apal] = journal /\ Listed = <<>>
             ELSE Listed = journal
      BY <1>4 DEF FInv, Committing
    <2>3. /\ wcache' = Empty /\ Listed' = journal
          /\ \A l \in Loc \ {Apal} : platter'[l] = platter[l]
      BY <1>1, <2>1, <2>2, ApalFlushed
    <2>4. \A i \in 1 .. Len(journal) : platter'[i] = platter[i]
      BY <1>1, <2>3, Shapes, Places
    <2>5. Logs(journal)'
      BY <1>1, <2>2, <2>4 DEF Logs, Injective, Entries
    <2>6. LogSound' /\ Atomic
      <3>1. CASE Apal \in DOMAIN wcache
        BY <1>1, <1>4, <2>2, <2>3, <3>1, ListCommitted DEF Atomic
      <3>2. CASE Apal \notin DOMAIN wcache
        BY <1>1, <2>1, <3>2, FlushSound DEF Atomic
      <3> QED BY <3>1, <3>2
    <2>7. Writing'
      BY <1>1, <2>1, <2>2, <2>3, <2>5 DEF Writing
    <2> QED BY <2>1, <2>6, <2>7 DEF Stages, Logging, Committing, Resetting, Idling, Booting
  <1> QED BY <1>2, <1>3, <1>4

(* The list becomes empty once every listed sector holds its header.       *)
LEMMA ListEmptied ==
  ASSUME IType, IType', LogSound, DOMAIN wcache' = {}, Listed' = <<>>,
         \A s \in Sector : platter'[s] = platter[s],
         \A i \in 1 .. Len(Listed) : platter[Listed[i]] = platter[i]
  PROVE  LogSound' /\ Recovered' = Recovered
  <1>1. \A s \in Sector : Whole(platter[s], s)
    BY DEF LogSound, Entries
  <1>2. 1 .. Len(Listed)' = {} /\ Entries(Listed)' = {} /\ Injective(Listed)'
    BY DEF Entries, Injective
  <1>3. LogSound'
    BY <1>1, <1>2 DEF LogSound, Whole
  <1>4. \A s \in Sector : Recovered[s] = platter[s]
    BY RecoveredNow DEF LogSound, Entries
  <1>5. \A s \in Sector : Recovered'[s] = platter'[s]
    BY <1>2, RecoveredNext
  <1> QED BY <1>3, <1>4, <1>5 DEF Recovered, RecoveredFrom

(* The list is emptied after a flush.                                      *)
LEMMA StepReset ==
  ASSUME FInv, IType', JournalFlush, pc \in {"r1", "r2", "r3"}
  PROVE  LogSound' /\ Stages' /\ pc' # "failed" /\ Recovered' = Recovered
  <1> USE DEF FlushSteps
  <1>1. /\ IType /\ IType' /\ LogSound /\ dirty' = dirty /\ journal = <<>> /\ DOMAIN dirty = {}
        /\ \A s \in DOMAIN txn : Disk[s] = txn[s]
    BY DEF FInv, Resetting, IType, LogFits, JournalFlush
  <1>2. CASE pc = "r1"
    <2>1. FlushCache /\ pc' = "r2" /\ txn' = txn
      BY <1>2 DEF JournalFlush, FlushLeaves
    <2>2. Apal \notin DOMAIN wcache /\ Logs(Listed)
      BY <1>2, Places DEF FInv, Resetting
    <2>3. /\ LogSound' /\ Listed' = Listed /\ wcache' = Empty /\ Recovered' = Recovered
          /\ \A i \in 1 .. Len(Listed) : platter'[i] = platter[i]
      BY <1>1, <2>1, <2>2, FlushSound
    <2>4. Logs(Listed)'
      BY <2>1, <2>2, <2>3 DEF Logs, Injective, Entries
    <2>5. \A s \in DOMAIN txn : Disk'[s] = txn[s]
      BY <1>1, <2>1, FlushReads, Shapes, Places
    <2>6. Resetting'
      BY <1>1, <2>1, <2>3, <2>4, <2>5 DEF Resetting
    <2> QED BY <2>1, <2>3, <2>6 DEF Recovered, Stages, Logging, Committing, Writing, Idling, Booting
  <1>3. CASE pc = "r2"
    <2>1. SectorWrite(Apal, <<>>) /\ pc' = "r3" /\ txn' = txn
      BY <1>1, <1>3 DEF JournalFlush, FlushLeaves
    <2>2. DOMAIN wcache = {} /\ Logs(Listed)
      BY <1>3 DEF FInv, Resetting
    <2>3. /\ LogSound' /\ Listed' = Listed /\ platter' = platter
          /\ DOMAIN wcache' = {Apal} /\ wcache'[Apal] = <<>>
          /\ \A l \in Loc \ {Apal} : Disk'[l] = Disk[l]
      BY <1>1, <2>1, <2>2, ApalWritten
    <2>4. Logs(Listed)'
      BY <2>1, <2>2, <2>3 DEF Logs, Injective, Entries
    <2>5. \A s \in DOMAIN txn : Disk'[s] = txn[s]
      BY <1>1, <2>3, Shapes, Places
    <2>6. Resetting'
      BY <1>1, <2>1, <2>3, <2>4, <2>5 DEF Resetting
    <2> QED BY <2>1, <2>3, <2>6 DEF Recovered, Stages, Logging, Committing, Writing, Idling, Booting
  <1>4. CASE pc = "r3"
    <2>1. FlushCache /\ pc' = "idle" /\ txn' = Empty
      BY <1>4 DEF JournalFlush, FlushLeaves
    <2>2. /\ DOMAIN wcache \subseteq {Apal}
          /\ IF Apal \in DOMAIN wcache THEN wcache[Apal] = <<>> /\ Logs(Listed)
             ELSE Listed = <<>>
      BY <1>4 DEF FInv, Resetting
    <2>3. /\ wcache' = Empty /\ Listed' = <<>>
          /\ \A l \in Loc \ {Apal} : platter'[l] = platter[l] /\ Disk[l] = platter[l]
      BY <1>1, <2>1, <2>2, ApalFlushed
    <2>4. \A j \in 1 .. Len(Listed) : platter[Listed[j]] = platter[j]
      <3>1. CASE Listed = <<>>
        BY <3>1
      <3>2. CASE Logs(Listed)
        <4>1. \A j \in 1 .. Len(Listed) : Listed[j] \in DOMAIN txn /\ platter[j] = txn[Listed[j]]
          BY <3>2 DEF Logs, Entries
        <4>2. \A s \in DOMAIN txn : platter[s] = txn[s]
          BY <1>1, <2>3, Shapes, Places
        <4> QED BY <4>1, <4>2
      <3> QED BY <2>2, <3>1, <3>2
    <2>5. LogSound' /\ Recovered' = Recovered
      BY <1>1, <2>3, <2>4, Places, ListEmptied
    <2> QED BY <2>1, <2>3, <2>5 DEF Recovered, Stages, Logging, Committing, Writing, Resetting, Idling, Booting
  <1> QED BY <1>2, <1>3, <1>4

(* The same, at the end of a replay.                                       *)
LEMMA StepReplayed ==
  ASSUME FInv, IType', JournalFlush, pc \in {"b1", "b2", "b3"}
  PROVE  LogSound' /\ Stages' /\ pc' # "failed" /\ Recovered' = Recovered
  <1> USE DEF FlushSteps
  <1>1. /\ IType /\ IType' /\ LogSound /\ dirty' = dirty /\ journal = <<>> /\ DOMAIN dirty = {}
        /\ txn = Empty /\ txn' = Empty
        /\ \A i \in 1 .. Len(Listed) : Disk[Listed[i]] = platter[i]
    BY DEF FInv, Booting, IType, LogFits, JournalFlush, FlushLeaves
  <1>2. CASE pc = "b1"
    <2>1. FlushCache /\ pc' = "b2" /\ Apal \notin DOMAIN wcache
      BY <1>2, Places DEF FInv, Booting, JournalFlush, FlushLeaves
    <2>2. /\ LogSound' /\ Listed' = Listed /\ wcache' = Empty /\ Recovered' = Recovered
          /\ \A i \in 1 .. Len(Listed) : platter'[i] = platter[i]
      BY <1>1, <2>1, FlushSound
    <2>3. \A i \in 1 .. Len(Listed) : Disk'[Listed[i]] = platter'[i]
      BY <1>1, <2>1, <2>2, FlushReads, Shapes, Places
    <2>4. Booting'
      BY <1>1, <2>1, <2>2, <2>3 DEF Booting
    <2> QED BY <2>1, <2>2, <2>4 DEF Recovered, Stages, Logging, Committing, Writing, Resetting, Idling
  <1>3. CASE pc = "b2"
    <2>1. SectorWrite(Apal, <<>>) /\ pc' = "b3" /\ DOMAIN wcache \subseteq {Apal}
      BY <1>1, <1>3 DEF FInv, Booting, JournalFlush, FlushLeaves
    <2>2. /\ LogSound' /\ Listed' = Listed /\ platter' = platter
          /\ DOMAIN wcache' = {Apal} /\ wcache'[Apal] = <<>>
          /\ \A l \in Loc \ {Apal} : Disk'[l] = Disk[l]
      BY <1>1, <2>1, ApalWritten
    <2>3. \A i \in 1 .. Len(Listed) : Disk'[Listed[i]] = platter'[i]
      <3>1. \A i \in 1 .. Len(Listed) : Listed[i] \in Loc \ {Apal}
        BY <1>1, Shapes, Places
      <3> QED BY <1>1, <2>2, <3>1
    <2>4. Booting'
      BY <1>1, <2>1, <2>2, <2>3 DEF Booting
    <2> QED BY <2>1, <2>2, <2>4 DEF Recovered, Stages, Logging, Committing, Writing, Resetting, Idling
  <1>4. CASE pc = "b3"
    <2>1. FlushCache /\ pc' = "idle"
      BY <1>4 DEF JournalFlush, FlushLeaves
    <2>2. /\ DOMAIN wcache \subseteq {Apal}
          /\ IF Apal \in DOMAIN wcache THEN wcache[Apal] = <<>> ELSE Listed = <<>>
      BY <1>4 DEF FInv, Booting
    <2>3. /\ wcache' = Empty /\ Listed' = <<>>
          /\ \A l \in Loc \ {Apal} : platter'[l] = platter[l] /\ Disk[l] = platter[l]
      BY <1>1, <2>1, <2>2, ApalFlushed
    <2>4. \A j \in 1 .. Len(Listed) : platter[Listed[j]] = platter[j]
      BY <1>1, <2>3, Shapes, Places
    <2>5. LogSound' /\ Recovered' = Recovered
      BY <1>1, <2>3, <2>4, Places, ListEmptied
    <2> QED BY <1>1, <2>1, <2>3, <2>5
            DEF Recovered, Stages, Logging, Committing, Writing, Resetting, Idling, Booting
  <1> QED BY <1>2, <1>3, <1>4

(* A start reads the list.                                                 *)
LEMMA StepRestoreRead ==
  ASSUME FInv, RestoreRead
  PROVE  LogSound' /\ Stages' /\ pc' # "failed"
  <1>1. /\ platter' = platter /\ wcache' = wcache /\ pc = "boot" /\ txn' = txn
        /\ dirty' = dirty /\ journal' = Disk[Apal] /\ pos' = pos
        /\ pc' = IF Disk[Apal] = <<>> THEN "idle" ELSE "replay"
    BY DEF RestoreRead, driveVars
  <1>2. wcache = Empty /\ txn = Empty /\ DOMAIN dirty = {} /\ pos = 1
    BY <1>1 DEF FInv, Booting, IType, LogFits
  <1>3. Disk[Apal] = Listed /\ Listed' = Listed
    BY <1>1, <1>2, Places DEF Disk, Listed
  <1>4. LogSound'
    BY <1>1, <1>3 DEF FInv, LogSound, Entries, Injective, Whole
  <1>5. \A i \in 1 .. Len(Listed) : ~(i < pos)
    BY <1>2, Shapes DEF FInv
  <1> QED BY <1>1, <1>2, <1>3, <1>4, <1>5
          DEF Stages, Logging, Committing, Writing, Resetting, Idling, Booting

(* It copies the listed slots home, in order.                              *)
LEMMA StepRestoreCopy ==
  ASSUME FInv, RestoreCopy
  PROVE  LogSound' /\ Stages' /\ pc' # "failed"
  <1> DEFINE t == Listed[pos]
  <1>1. /\ platter' = platter /\ wcache' = Put(wcache, journal[pos], Disk[pos])
        /\ pc = "replay" /\ pc' = "replay" /\ txn' = txn /\ dirty' = dirty
        /\ journal' = journal /\ pos' = pos + 1 /\ pos <= Len(journal)
    BY DEF RestoreCopy, SectorWrite
  <1>2. /\ txn = Empty /\ DOMAIN dirty = {} /\ journal = Listed /\ DOMAIN wcache \subseteq Sector
        /\ \A i \in 1 .. Len(Listed) : i < pos => Disk[Listed[i]] = platter[i]
    BY <1>1 DEF FInv, Booting
  <1>3. IType /\ LogSound /\ pos \in 1 .. Len(Listed) /\ t \in Sector /\ pos \in Slot
    <2>1. pos \in Nat /\ pos >= 1
      BY DEF FInv, IType, TypeOK
    <2>2. IType /\ LogSound /\ Len(Listed) \in Nat
      BY Shapes DEF FInv
    <2>3. pos \in 1 .. Len(Listed)
      BY <1>1, <1>2, <2>1, <2>2
    <2> QED BY <2>2, <2>3, Shapes
  <1>4. Disk[pos] = platter[pos]
    BY <1>2, <1>3, Places DEF Disk
  <1>5. wcache' = Put(wcache, t, platter[pos]) /\ Listed' = Listed
    BY <1>1, <1>2, <1>4 DEF Listed
  <1>6. \A i \in 1 .. Len(Listed) : Listed[i] = t => i = pos
    BY <1>3 DEF LogSound, Injective
  <1>7. LogSound'
    <2>1. \A i \in 1 .. Len(Listed) : i \notin DOMAIN wcache'
      BY <1>2, <1>3, <1>5, Shapes, Places
    <2>2. \A s \in Sector \ Entries(Listed) : s \notin DOMAIN wcache'
      BY <1>3, <1>5 DEF LogSound, Entries
    <2>3. \A i \in 1 .. Len(Listed) : Listed[i] \in DOMAIN wcache' => wcache'[Listed[i]] = platter[i]
      BY <1>3, <1>5, <1>6 DEF LogSound
    <2>4. Entries(Listed)' = Entries(Listed) /\ Injective(Listed)'
      BY <1>3, <1>5 DEF LogSound, Entries, Injective
    <2> QED BY <1>1, <1>3, <1>5, <2>1, <2>2, <2>3, <2>4 DEF LogSound, Whole
  <1>8. \A i \in 1 .. Len(Listed) : i < pos' => Disk'[Listed[i]] = platter[i]
    <2>1. Disk'[t] = platter[pos]
      BY <1>3, <1>5, Places DEF Disk
    <2>2. \A i \in 1 .. Len(Listed) : Listed[i] # t => Disk'[Listed[i]] = Disk[Listed[i]]
      BY <1>1, <1>3, <1>5, Shapes, Places DEF Disk
    <2>3. \A i \in 1 .. Len(Listed) : i < pos' => i < pos \/ i = pos
      BY <1>1, <1>3, Shapes
    <2> QED BY <1>2, <1>6, <2>1, <2>2, <2>3
  <1>9. Booting'
    BY <1>1, <1>2, <1>3, <1>5, <1>8 DEF Booting
  <1> QED BY <1>1, <1>7, <1>9 DEF Stages, Logging, Committing, Writing, Resetting, Idling

LEMMA StepRestoreDone ==
  ASSUME FInv, RestoreDone, Faults = {}
  PROVE  LogSound' /\ Stages' /\ pc' # "failed"
  <1>1. /\ platter' = platter /\ wcache' = wcache /\ pc = "replay" /\ pc' = "b1" /\ txn' = txn
        /\ dirty' = dirty /\ pos > Len(journal)
    BY DEF RestoreDone, driveVars
  <1>2. Listed' = Listed /\ Disk' = Disk
    BY <1>1 DEF Listed, Disk
  <1>3. LogSound'
    BY <1>1, <1>2 DEF FInv, LogSound, Entries, Injective, Whole
  <1>4. \A i \in 1 .. Len(Listed) : i < pos
    <2>1. pos \in Nat /\ IType /\ journal = Listed
      BY <1>1 DEF FInv, Booting, IType, TypeOK
    <2> QED BY <1>1, <2>1, Shapes
  <1>5. Booting'
    BY <1>1, <1>2, <1>4 DEF FInv, Booting
  <1> QED BY <1>1, <1>3, <1>5 DEF Stages, Logging, Committing, Writing, Resetting, Idling

(* The drive writes one cached location to the platter: a log slot before *)
(* it is listed, a listed sector, or the list itself.                      *)
LEMMA StepDestage ==
  ASSUME FInv, IType', NEW l \in Loc, Destage(l)
  PROVE  LogSound' /\ Stages' /\ pc' # "failed" /\ Atomic
  <1>1. /\ l \in DOMAIN wcache /\ platter' = [platter EXCEPT ![l] = wcache[l]]
        /\ wcache' = Drop(wcache, l) /\ dirty' = dirty /\ todo' = todo /\ journal' = journal
        /\ pos' = pos /\ pc' = pc /\ txn' = txn
    BY DEF Destage
  <1>2. IType /\ IType' /\ LogSound /\ DOMAIN platter = Loc
    BY Shapes DEF FInv
  <1>3. /\ \A m \in Loc : Disk'[m] = Disk[m]
        /\ \A m \in Loc \ {l} : platter'[m] = platter[m]
        /\ platter'[l] = wcache[l] /\ DOMAIN wcache' = DOMAIN wcache \ {l}
        /\ \A m \in DOMAIN wcache' : wcache'[m] = wcache[m]
    BY <1>1, <1>2 DEF Disk
  <1>4. CASE l # Apal
    <2>1. Listed' = Listed
      BY <1>3, <1>4, Places DEF Listed
    <2>2. \A i \in 1 .. Len(Listed) : platter'[i] = platter[i]
      BY <1>1, <1>2, <1>3, Shapes, Places DEF LogSound
    <2>3. \A s \in Sector \ Entries(Listed) : platter'[s] = platter[s]
      BY <1>1, <1>2, <1>3, Places DEF LogSound
    <2>4. Entries(Listed)' = Entries(Listed) /\ Injective(Listed)'
      BY <1>2, <2>1 DEF LogSound, Entries, Injective
    <2>5. LogSound'
      BY <1>2, <1>3, <2>1, <2>2, <2>3, <2>4 DEF LogSound, Whole
    <2>6. Logging'
      <3>1. \A i \in 1 .. Len(journal) : Disk'[i] = Disk[i]
        BY <1>2, <1>3, Shapes, Places
      <3> QED BY <1>1, <1>3, <2>1, <3>1 DEF FInv, Logging, Entries, Injective
    <2>7. Committing'
      BY <1>1, <1>4 DEF FInv, Committing
    <2>8. Logs(Listed) => Logs(Listed)'
      BY <1>1, <2>1, <2>2 DEF Logs, Entries, Injective
    <2>9. \A s \in DOMAIN txn : Disk'[s] = Disk[s]
      BY <1>2, <1>3, Shapes, Places
    <2>10. Writing'
      <3> SUFFICES ASSUME pc = "home" PROVE Writing'
        BY <1>1 DEF Writing
      <3>1. Listed = journal /\ Logs(Listed)
        BY DEF FInv, Writing
      <3>2. Listed' = journal' /\ Logs(journal)'
        BY <1>1, <2>1, <2>8, <3>1
      <3> QED BY <1>1, <1>3, <2>9, <3>2 DEF FInv, Writing
    <2>11. Resetting'
      BY <1>1, <1>3, <1>4, <2>1, <2>8, <2>9 DEF FInv, Resetting
    <2>12. Idling' 
      BY <1>1 DEF FInv, Idling
    <2>13. Booting'
      <3>1. \A i \in 1 .. Len(Listed) : Disk'[Listed[i]] = Disk[Listed[i]]
        BY <1>2, <1>3, Shapes, Places
      <3> QED BY <1>1, <1>3, <1>4, <2>1, <2>2, <3>1 DEF FInv, Booting
    <2>14. Atomic
      BY <1>2, <2>1, <2>2, <2>3, RecoveredSame DEF Atomic
    <2> QED BY <1>1, <2>5, <2>6, <2>7, <2>10, <2>11, <2>12, <2>13, <2>14 DEF FInv, Stages
  <1>5. CASE l = Apal
    <2>1. pc \in {"c3", "r3", "b3"}
      BY <1>1, <1>5, Places
         DEF FInv, Logging, Committing, Writing, Resetting, Idling, Booting,
             IType, TypeOK, FlushSteps
    <2>2. DOMAIN wcache = {Apal} /\ DOMAIN wcache' = {} /\ Listed' = wcache[Apal]
      BY <1>1, <1>3, <1>5, <2>1 DEF FInv, Committing, Resetting, Booting, Listed
    <2>3. \A m \in Loc \ {Apal} : platter'[m] = platter[m] /\ Disk[m] = platter[m]
      BY <1>3, <1>5, <2>2 DEF Disk
    <2>4. /\ \A s \in Sector : platter'[s] = platter[s] /\ Disk[s] = platter[s] /\ Disk'[s] = platter[s]
          /\ \A i \in Slot : platter'[i] = platter[i]
      BY <1>3, <2>3, Places
    <2>5. CASE pc = "c3"
      <3>1. wcache[Apal] = journal /\ Listed = <<>> /\ Logs(journal) /\ txn = dirty
        BY <2>2, <2>5 DEF FInv, Committing
      <3>2. Logs(journal)'
        <4>1. \A i \in 1 .. Len(journal) : platter'[i] = platter[i]
          BY <1>2, <2>4, Shapes
        <4> QED BY <1>1, <3>1, <4>1 DEF Logs, Entries, Injective
      <3>5. LogSound' /\ Atomic
        BY <1>2, <2>2, <2>3, <2>5, <3>1, ListCommitted DEF Atomic
      <3>6. Committing'
        BY <1>1, <2>2, <2>5, <3>1, <3>2 DEF Committing
      <3> QED BY <1>1, <2>5, <3>5, <3>6 DEF Stages, Logging, Writing, Resetting, Idling, Booting
    <2>6. CASE pc = "r3"
      <3>1. /\ wcache[Apal] = <<>> /\ Logs(Listed) /\ DOMAIN dirty = {}
            /\ \A s \in DOMAIN txn : Disk[s] = txn[s]
        BY <2>2, <2>6 DEF FInv, Resetting
      <3>2. \A j \in 1 .. Len(Listed) : platter[Listed[j]] = platter[j]
        <4>1. \A j \in 1 .. Len(Listed) : Listed[j] \in DOMAIN txn /\ platter[j] = txn[Listed[j]]
          BY <3>1 DEF Logs, Entries
        <4>2. \A s \in DOMAIN txn : platter[s] = txn[s]
          BY <1>2, <2>4, <3>1, Shapes
        <4> QED BY <4>1, <4>2
      <3>3. LogSound' /\ Atomic
        BY <1>2, <2>2, <2>4, <3>1, <3>2, ListEmptied DEF Atomic
      <3>4. \A s \in DOMAIN txn : Disk'[s] = txn[s]
        BY <1>2, <2>4, <3>1, Shapes
      <3>5. Resetting'
        BY <1>1, <2>2, <2>6, <3>1, <3>4 DEF Resetting
      <3> QED BY <1>1, <2>6, <3>3, <3>5 DEF Stages, Logging, Committing, Writing, Idling, Booting
    <2>7. CASE pc = "b3"
      <3>1. /\ wcache[Apal] = <<>> /\ DOMAIN dirty = {} /\ txn = Empty
            /\ \A i \in 1 .. Len(Listed) : Disk[Listed[i]] = platter[i]
        BY <2>2, <2>7 DEF FInv, Booting
      <3>2. \A j \in 1 .. Len(Listed) : platter[Listed[j]] = platter[j]
        BY <1>2, <2>4, <3>1, Shapes
      <3>3. LogSound' /\ Atomic
        BY <1>2, <2>2, <2>4, <3>1, <3>2, ListEmptied DEF Atomic
      <3>4. 1 .. Len(Listed') = {}
        BY <2>2, <3>1
      <3>5. Booting'
        BY <1>1, <2>2, <2>7, <3>1, <3>4 DEF Booting
      <3> QED BY <1>1, <2>7, <3>3, <3>5 DEF Stages, Logging, Committing, Writing, Resetting, Idling
    <2> QED BY <2>1, <2>5, <2>6, <2>7
  <1> QED BY <1>4, <1>5

(* A power cut tears only what the log can repair, or slots not listed.    *)
LEMMA StepPowerCut ==
  ASSUME FInv, IType', NEW torn \in SUBSET (DOMAIN wcache \ {Apal}), PowerCut(torn)
  PROVE  LogSound' /\ Stages' /\ pc' # "failed" /\ Recovered' = Recovered
  <1>1. /\ IType /\ IType' /\ LogSound /\ wcache' = Empty /\ dirty' = Empty /\ txn' = Empty /\ pc' = "boot"
        /\ \A l \in Loc : l \notin torn => platter'[l] = platter[l]
    BY DEF FInv, PowerCut
  <1>2. Listed' = Listed
    BY <1>1, Places DEF Listed
  <1>3. \A i \in 1 .. Len(Listed) : platter'[i] = platter[i]
    BY <1>1, Shapes, Places DEF LogSound
  <1>4. \A s \in Sector \ Entries(Listed) : platter'[s] = platter[s]
    BY <1>1, Places DEF LogSound
  <1>5. Entries(Listed)' = Entries(Listed) /\ Injective(Listed)'
    BY <1>1, <1>2 DEF LogSound, Entries, Injective
  <1>6. LogSound'
    BY <1>1, <1>2, <1>3, <1>4, <1>5 DEF LogSound, Whole
  <1>7. Booting'
    BY <1>1 DEF Booting
  <1>8. Recovered' = Recovered
    BY <1>1, <1>2, <1>3, <1>4, RecoveredSame
  <1> QED BY <1>1, <1>6, <1>7, <1>8 DEF Stages, Logging, Committing, Writing, Resetting, Idling

-----------------------------------------------------------------------------
LEMMA InitFInv == Init => FInv
  <1> SUFFICES ASSUME Init PROVE FInv  OBVIOUS
  <1>1. IType
    BY InitType
  <1>2. Listed = <<>> /\ wcache = Empty /\ dirty = Empty /\ txn = Empty /\ pc = "boot"
    BY Places DEF Init, Listed
  <1>3. \A s \in Sector : Whole(platter[s], s)
    BY Places DEF Init, Whole, Header
  <1>4. LogSound
    BY <1>2, <1>3 DEF LogSound, Injective, Entries
  <1> QED BY <1>1, <1>2, <1>4
          DEF FInv, Logging, Committing, Writing, Resetting, Idling, Booting

(* Every step preserves FInv and is atomic for the recovered headers.      *)
LEMMA NextFInv ==
  ASSUME Faults = {}, FInv, [Next]_vars
  PROVE  FInv' /\ Atomic
  <1>1. IType'
    BY NextType DEF FInv
  <1> SUFFICES LogSound' /\ Stages' /\ pc' # "failed" /\ Atomic
    BY <1>1 DEF FInv, Stages
  <1>2. platter' = platter => Atomic
    BY DEF Atomic, Recovered
  <1>3. ASSUME NEW h \in Header, Modify(h)
        PROVE  LogSound' /\ Stages' /\ pc' # "failed" /\ Atomic
    BY <1>2, <1>3, StepModify DEF Modify, driveVars
  <1>4. CASE FlushAllDirty
    BY <1>2, <1>4, StepFlushAllDirty DEF FlushAllDirty, driveVars
  <1>5. ASSUME NEW s \in Sector, JournalWrite(s) \/ JournalWriteFails(s)
        PROVE  LogSound' /\ Stages' /\ pc' # "failed" /\ Atomic
    <2>1. JournalWrite(s)
      BY <1>5 DEF JournalWriteFails
    <2> QED BY <1>2, <2>1, StepJournalWrite DEF JournalWrite, SectorWrite
  <1>6. CASE JournalLogged
    BY <1>2, <1>6, StepJournalLogged DEF JournalLogged, driveVars
  <1>7. CASE JournalFlush \/ JournalFlushFails
    <2>1. JournalFlush
      BY <1>7 DEF JournalFlushFails
    <2>2. pc \in {"c1", "c2", "c3"} \/ pc \in {"r1", "r2", "r3"} \/ pc \in {"b1", "b2", "b3"}
      BY <2>1 DEF JournalFlush, FlushSteps
    <2> QED BY <1>1, <2>1, <2>2, StepCommit, StepReset, StepReplayed DEF Atomic
  <1>8. ASSUME NEW s \in Sector, CacheTransfer(s) \/ CacheTransferFails(s)
        PROVE  LogSound' /\ Stages' /\ pc' # "failed" /\ Atomic
    <2>1. CacheTransfer(s)
      BY <1>8 DEF CacheTransferFails
    <2> QED BY <1>2, <2>1, StepCacheTransfer DEF CacheTransfer, SectorWrite
  <1>9. CASE JournalReset
    BY <1>2, <1>9, StepJournalReset DEF JournalReset, driveVars
  <1>10. CASE RestoreRead
    BY <1>2, <1>10, StepRestoreRead DEF RestoreRead, driveVars
  <1>11. CASE RestoreCopy
    BY <1>2, <1>11, StepRestoreCopy DEF RestoreCopy, SectorWrite
  <1>12. CASE RestoreDone
    BY <1>2, <1>12, StepRestoreDone DEF RestoreDone, driveVars
  <1>13. ASSUME NEW l \in Loc, Destage(l)
         PROVE  LogSound' /\ Stages' /\ pc' # "failed" /\ Atomic
    BY <1>1, <1>13, StepDestage
  <1>14. ASSUME NEW torn \in SUBSET (DOMAIN wcache \ {Apal}), PowerCut(torn)
         PROVE  LogSound' /\ Stages' /\ pc' # "failed" /\ Atomic
    BY <1>1, <1>14, StepPowerCut DEF Atomic
  <1>15. CASE UNCHANGED vars
    <2>1. LogSound'
      BY <1>15 DEF FInv, vars, LogSound, Listed, Entries, Injective, Whole
    <2>2. Disk' = Disk /\ Listed' = Listed /\ Logs(journal)' = Logs(journal)
          /\ Logs(Listed)' = Logs(Listed) /\ Entries(journal)' = Entries(journal)
          /\ Injective(journal)' = Injective(journal)
      BY <1>15 DEF vars, Disk, Listed, Logs, Entries, Injective
    <2>3. Logging' /\ Committing' /\ Writing'
      BY <1>15, <2>2 DEF FInv, vars, Logging, Committing, Writing
    <2>4. Resetting' /\ Idling' /\ Booting'
      BY <1>15, <2>2 DEF FInv, vars, Resetting, Idling, Booting
    <2> QED BY <1>2, <1>15, <2>1, <2>3, <2>4 DEF FInv, vars, Stages
  <1> QED BY <1>3, <1>4, <1>5, <1>6, <1>7, <1>8, <1>9, <1>10, <1>11, <1>12, <1>13, <1>14, <1>15
          DEF Next, Write, Restore, Drive

LEMMA AlwaysFInv == ASSUME Faults = {} PROVE Spec => []FInv
  <1>1. FInv /\ [Next]_vars => FInv'
    BY NextFInv
  <1> QED BY <1>1, InitFInv, PTL DEF Spec

(* However the power fails, apaJournalRestore finds or rebuilds a whole    *)
(* header in every sector (journal.c:60-88).                               *)
THEOREM RecoveryWhole == ASSUME Faults = {} PROVE Spec => []RecoveryFindsHeaders
  <1>1. FInv => RecoveryFindsHeaders
    <2> SUFFICES ASSUME FInv, NEW s \in Sector PROVE Whole(Recovered[s], s)
      BY DEF RecoveryFindsHeaders, Whole
    <2>1. /\ \A i \in 1 .. Len(Listed) : Recovered[Listed[i]] = platter[i]
          /\ \A t \in Sector \ Entries(Listed) : Recovered[t] = platter[t]
      BY RecoveredNow DEF FInv, LogSound
    <2> QED BY <2>1 DEF FInv, LogSound, Entries, Whole
  <1> QED BY <1>1, AlwaysFInv, PTL

(* apaJournalRestore never sends a logged header to a wrong sector         *)
(* (journal.c:75-81).                                                      *)
THEOREM ReplaySound == ASSUME Faults = {} PROVE Spec => []ReplayRightSector
  <1>1. FInv => ReplayRightSector
    BY DEF FInv, LogSound, ReplayRightSector, Whole, Listed
  <1> QED BY <1>1, AlwaysFInv, PTL

(* apaCacheFlushAllDirty returns with nothing left in the drive's cache    *)
(* and an empty log (cache.c:109).                                         *)
THEOREM FlushDurable == ASSUME Faults = {} PROVE Spec => []IdleIsClean
  <1>1. FInv => IdleIsClean
    BY DEF FInv, Idling, IdleIsClean, Listed
  <1> QED BY <1>1, AlwaysFInv, PTL

(* No header is sent to its own sector before the log that repairs it is  *)
(* on the platter (cache.c:99-108).                                        *)
THEOREM LoggedFirst == ASSUME Faults = {} PROVE Spec => []WriteAhead
  <1>1. FInv => WriteAhead
    <2> SUFFICES ASSUME FInv, NEW s \in DOMAIN wcache \cap Sector
                 PROVE  \E i \in 1 .. Len(Listed) : Listed[i] = s /\ platter[i] = wcache[s]
      BY DEF WriteAhead, Listed
    <2>1. s \in Entries(Listed)
      BY DEF FInv, LogSound
    <2> QED BY <2>1 DEF FInv, LogSound, Entries
  <1> QED BY <1>1, AlwaysFInv, PTL

-----------------------------------------------------------------------------
(* The journalled flush implements the atomic store.                       *)

(* dirty and txn are functions, as HeaderStore's updates are.              *)
Functional == dirty = [s \in DOMAIN dirty |-> dirty[s]]

LEMMA AlwaysFunctional == Spec => []Functional
  <1>1. Init => Functional
    BY DEF Init, Functional
  <1>2. Functional /\ [Next]_vars => Functional'
    <2> SUFFICES ASSUME Functional, [Next]_vars, dirty' # dirty PROVE Functional'
      BY DEF Functional
    <2>1. ASSUME NEW h \in Header, Modify(h) PROVE Functional'
      BY <2>1 DEF Modify, Functional
    <2>2. ASSUME NEW s \in Sector, CacheTransfer(s) \/ CacheTransferFails(s) PROVE Functional'
      BY <2>2 DEF CacheTransfer, CacheTransferFails, Functional
    <2>3. ASSUME NEW torn, PowerCut(torn) PROVE Functional'
      BY <2>3 DEF PowerCut, Functional
    <2>4. CASE Write
      BY <2>2, <2>4 DEF Write, JournalWrite, JournalWriteFails, JournalLogged, JournalFlush,
                        JournalFlushFails, JournalReset
    <2>5. CASE Restore
      BY <2>5 DEF Restore, RestoreRead, RestoreCopy, RestoreDone
    <2>6. CASE Drive
      BY <2>3, <2>6 DEF Drive, Destage
    <2>7. CASE FlushAllDirty
      BY <2>7 DEF FlushAllDirty
    <2> QED BY <2>1, <2>4, <2>5, <2>6, <2>7 DEF Next, vars
  <1> QED BY <1>1, <1>2, PTL DEF Spec

(* A step that keeps txn and the phase is a stutter or the commit.         *)
LEMMA QuietStep ==
  ASSUME Atomic, txn' = txn, Phase' = Phase
  PROVE  [Store!Next]_(Store!hsVars)
  <1>1. CASE Recovered' = Recovered
    BY <1>1 DEF Store!hsVars
  <1>2. CASE pc = "c3" /\ Recovered' = Store!Apply(txn, Recovered)
    BY <1>2 DEF Store!Next, Store!Commit, Phase
  <1> QED BY <1>1, <1>2 DEF Atomic

LEMMA FlushAllDirtyBegins ==
  ASSUME FInv, Functional, FlushAllDirty
  PROVE  Store!Begin
  <1>1. /\ pc = "idle" /\ pc' = "log" /\ txn' = dirty /\ Recovered' = Recovered
    BY DEF FlushAllDirty, driveVars, Recovered
  <1>2. DOMAIN dirty \in SUBSET Sector /\ \A s \in DOMAIN dirty : dirty[s] \in Header \cup {Torn}
    BY DEF FInv, IType, TypeOK
  <1>3. dirty \in [DOMAIN dirty -> Header \cup {Torn}]
    BY <1>2 DEF Functional
  <1>4. dirty \in Store!Update
    BY <1>2, <1>3 DEF Store!Update
  <1> QED BY <1>1, <1>4 DEF Store!Begin, Phase

(* The reset that ends the flush: every header of the update is found.     *)
LEMMA FlushEnds ==
  ASSUME FInv, IType', JournalFlush, pc = "r3"
  PROVE  Store!End
  <1>1. Recovered' = Recovered /\ pc' = "idle" /\ txn' = Empty
    BY StepReset DEF JournalFlush, FlushLeaves, FlushSteps
  <1>2. /\ DOMAIN wcache \subseteq {Apal}
        /\ Logs(Listed) \/ Listed = <<>>
        /\ \A s \in DOMAIN txn : Disk[s] = txn[s]
    BY DEF FInv, Resetting
  <1>3. IType /\ Injective(Listed)
    BY DEF FInv, LogSound
  <1>4. ASSUME NEW s \in DOMAIN txn PROVE Recovered[s] = txn[s]
    <2>1. CASE Logs(Listed)
      BY <1>3, <2>1, RecoveredNow DEF Logs, Entries
    <2>2. CASE Listed = <<>>
      <3>1. s \in Sector /\ s \in Loc \ {Apal}
        BY <1>3, Shapes, Places
      <3>2. platter[s] = Disk[s]
        BY <1>2, <3>1 DEF Disk
      <3> QED BY <1>2, <1>3, <2>2, <3>1, <3>2, RecoveredNow DEF Entries
    <2> QED BY <1>2, <2>1, <2>2
  <1>5. Recovered = Store!Apply(txn, Recovered)
    BY <1>4 DEF Store!Apply, Recovered, RecoveredFrom
  <1> QED BY <1>1, <1>5 DEF Store!End, Store!NoUpdate, Phase

(* Every step of the journal code is a step of the store.                  *)
LEMMA StepRefines ==
  ASSUME Faults = {}, FInv, Functional, [Next]_vars
  PROVE  [Store!Next]_(Store!hsVars)
  <1>1. Atomic /\ IType'
    BY NextFInv, NextType DEF FInv
  <1>2. ASSUME NEW h \in Header, Modify(h) PROVE [Store!Next]_(Store!hsVars)
    BY <1>1, <1>2, QuietStep DEF Modify, Phase
  <1>3. CASE FlushAllDirty
    BY <1>3, FlushAllDirtyBegins DEF Store!Next
  <1>4. CASE Write
    <2>1. CASE JournalFlush /\ pc = "r3"
      BY <1>1, <2>1, FlushEnds DEF Store!Next
    <2>2. CASE JournalFlush /\ pc = "b3"
      <3>1. Recovered' = Recovered /\ pc' = "idle" /\ txn' = Empty /\ txn = Empty
        BY <1>1, <2>2, StepReplayed DEF FInv, Booting, JournalFlush, FlushLeaves, FlushSteps
      <3> QED BY <2>2, <3>1 DEF Store!Next, Store!Restart, Phase
    <2>3. CASE JournalFlush /\ pc \notin {"r3", "b3"}
      <3>1. txn' = txn /\ Phase' = Phase
        BY <2>3 DEF JournalFlush, FlushLeaves, FlushSteps, Phase
      <3> QED BY <1>1, <3>1, QuietStep
    <2>4. ASSUME ~JournalFlush PROVE txn' = txn /\ Phase' = Phase
      BY <1>4, <2>4 DEF Write, JournalWrite, JournalWriteFails, JournalLogged, JournalFlushFails,
                        CacheTransfer, CacheTransferFails, JournalReset, Phase
    <2> QED BY <1>1, <2>1, <2>2, <2>3, <2>4, QuietStep
  <1>5. CASE Restore
    <2>1. CASE pc' = "idle"
      <3>1. pc = "boot" /\ txn' = txn /\ Recovered' = Recovered
        BY <1>5, <2>1 DEF Restore, RestoreRead, RestoreCopy, RestoreDone, driveVars, Recovered
      <3> QED BY <2>1, <3>1 DEF Store!Next, Store!Restart, Phase
    <2>2. CASE pc' # "idle"
      <3>1. txn' = txn /\ Phase' = Phase
        BY <1>5, <2>2 DEF Restore, RestoreRead, RestoreCopy, RestoreDone, Phase
      <3> QED BY <1>1, <3>1, QuietStep
    <2> QED BY <2>1, <2>2
  <1>6. ASSUME NEW l \in Loc, Destage(l) PROVE [Store!Next]_(Store!hsVars)
    BY <1>1, <1>6, QuietStep DEF Destage, Phase
  <1>7. ASSUME NEW torn \in SUBSET (DOMAIN wcache \ {Apal}), PowerCut(torn)
        PROVE  [Store!Next]_(Store!hsVars)
    <2>1. Recovered' = Recovered /\ pc' = "boot" /\ txn' = Empty
      BY <1>1, <1>7, StepPowerCut DEF PowerCut
    <2> QED BY <2>1 DEF Store!Next, Store!PowerCut, Store!NoUpdate, Phase
  <1>8. CASE UNCHANGED vars
    BY <1>1, <1>8, QuietStep DEF vars, Phase
  <1> QED BY <1>2, <1>3, <1>4, <1>5, <1>6, <1>7, <1>8 DEF Next, Drive

(* The headers dirty when apaCacheFlushAllDirty is called reach the disk   *)
(* all together or not at all, whenever the power fails, and have reached *)
(* it when the call returns (cache.c:93-110, journal.c).                   *)
THEOREM FlushAtomic == ASSUME Faults = {} PROVE Spec => StoreSpec
  <1>1. Init => Store!Init
    <2> SUFFICES ASSUME Init PROVE Store!Init  OBVIOUS
    <2>1. RecoveryFindsHeaders /\ txn = Empty /\ pc = "boot"
      <3>1. FInv
        BY InitFInv
      <3>2. /\ \A i \in 1 .. Len(Listed) : Recovered[Listed[i]] = platter[i]
            /\ \A t \in Sector \ Entries(Listed) : Recovered[t] = platter[t]
        BY <3>1, RecoveredNow DEF FInv, LogSound
      <3>3. \A t \in Sector : Whole(Recovered[t], t)
        BY <3>1, <3>2 DEF FInv, LogSound, Entries
      <3> QED BY <3>3 DEF Whole, RecoveryFindsHeaders, Init
    <2>2. Recovered \in [Sector -> Header \cup {Torn}]
      BY <2>1 DEF RecoveryFindsHeaders, Recovered, RecoveredFrom
    <2> QED BY <2>1, <2>2 DEF Store!Init, Store!NoUpdate, Phase
  <1>2. FInv /\ Functional /\ [Next]_vars => [Store!Next]_(Store!hsVars)
    BY StepRefines
  <1> QED BY <1>1, <1>2, AlwaysFInv, AlwaysFunctional, PTL DEF Spec, StoreSpec, Store!Spec

=============================================================================
