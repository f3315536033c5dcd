---------------------------- MODULE McCard_proof ----------------------------
(***************************************************************************)
(* Proofs about McCard, for any number of blocks, clusters and cache      *)
(* entries.  The invariant has five parts: Control (which call and which  *)
(* block a step works for), Marks (what backup_block2 says at each step), *)
(* Pages and Flags (how much of a block is written, and that a block of   *)
(* the file system has a backup), Once and Replacing (a cluster has one   *)
(* entry, and which entry a call replaces), and Data                      *)
(* (the cache, the card and the block under way together hold what the    *)
(* program wrote).                                                         *)
(***************************************************************************)
EXTENDS McCard, TLAPS, WellFoundedInduction

Down == {"out", "rerase", "reprogram", "clean", "found"}
Between == {"ready", "load", "next", "gather"}
Saving == {"backup", "mark0", "copy", "mark1"}
Writing == {"erase", "program", "unmark"}
Restoring == {"rerase", "reprogram"}

Control ==
    /\ pc \in Saving \cup Writing \cup Restoring => fl.block \in Block
    /\ pc \in {"copy", "program", "reprogram"} => fl.todo # {}
    /\ pc \in {"backup", "mark0", "rerase"} => fl.todo = Index
    /\ pc \in {"gather"} \cup Saving \cup Writing => call.op # "none"
    /\ pc = "load" => call \in Requests
    /\ pc = "next" => call.op = "flush"
    /\ pc = "gather" => IF call.op = "flush" THEN Dirty # {} ELSE cache[NCache].wr
    /\ pc \in Down => \A k \in 1 .. NCache : cache[k] = NoEntry
    /\ \A k \in 1 .. NCache : cache[k].wr => cache[k].cl \in Cluster

Marks ==
    /\ pc \in {"found", "backup", "mark0"} \cup Between => bb2[0] = Erased /\ bb2[1] = Erased
    /\ pc \in {"copy", "mark1"} => bb2[0] = fl.block /\ bb2[1] = Erased
    /\ pc \in Writing => IF fl.flag THEN bb2[0] = fl.block /\ bb2[1] = fl.block
                                    ELSE bb2[0] = Erased /\ bb2[1] = Erased
    /\ pc \in Restoring => bb2[0] = fl.block /\ bb2[1] \in Block
    /\ bb2[1] \in Block => bb2[0] \in Block
    /\ pc \in Saving \cup {"unmark"} => fl.flag

Shape == TypeOK /\ Control /\ Marks

(* A block of which the pages todo are not yet written.                    *)
Partly(page, todo, data) == \A i \in Index : page[i] = IF i \in todo THEN Erased ELSE data[i]

Pages ==
    /\ pc \in {"mark0", "copy"} => Partly(bb1, fl.todo, fl.data)
    /\ pc = "mark1" \/ pc \in Restoring \/ (pc \in Writing /\ fl.flag) => bb1 = fl.data
    /\ pc \in {"program", "reprogram"} => Partly(card[fl.block], fl.todo, fl.data)
    /\ pc = "unmark" => card[fl.block] = fl.data
    /\ pc = "clean" /\ bb2[1] \in Block => card[bb2[0]] = bb1

(* A block of the file system's own clusters is never flushed without a   *)
(* backup.                                                                 *)
Flags ==
    /\ \A k \in 1 .. NCache : cache[k].cl \in Meta => ~cache[k].rd
    /\ pc \in {"erase", "program"} /\ fl.block \in MetaBlock => fl.flag

(* What the card holds of cluster c, or will hold when the block under way *)
(* is written, is what the program wrote there.                            *)
Settled(c) == \/ pc \in {"erase", "program"} /\ c[1] = fl.block
              \/ card[c[1]][c[2]] = want[c]
Once == \A k, l \in 1 .. NCache : cache[k].cl \in Cluster /\ cache[k].cl = cache[l].cl => k = l
CacheCurrent == pc \notin Down => \A k \in 1 .. NCache :
                   cache[k].cl \in Cluster => cache[k].data = want[cache[k].cl]
Written(c) == \E k \in 1 .. NCache : cache[k].cl = c /\ cache[k].wr
CardCurrent == pc \notin Down => \A c \in Cluster : Written(c) \/ Settled(c)
BlockCurrent == pc \in Saving \cup Writing => \A i \in Index : fl.data[i] = want[<<fl.block, i>>]
Data == CacheCurrent /\ CardCurrent /\ BlockCurrent

(* The cluster that a call reads is not cached, and the entry it replaces  *)
(* is among those the flush writes.                                        *)
Replacing ==
    /\ pc \in {"load", "gather"} \cup Saving \cup Writing =>
          call.op = "flush" \/ \A k \in 1 .. NCache : cache[k].cl # call.cl
    /\ pc \in Saving \cup {"erase", "program"} =>
          call.op = "flush" \/ \E i \in Index : cache[NCache].cl = <<fl.block, i>>
    /\ pc = "load" \/ (pc = "unmark" /\ call.op # "flush") => ~cache[NCache].wr

-----------------------------------------------------------------------------
LEMMA LeastExists == ASSUME NEW S \in SUBSET Nat, S # {}
                     PROVE  \E i \in S : \A j \in S : i <= j
  <1>1. PICK i \in S : \A j \in S : ~(<<j, i>> \in OpToRel(<, Nat))
    BY WFMin, NatLessThanWellFounded
  <1>2. \A j \in S : ~(j < i)
    BY <1>1 DEF OpToRel
  <1> QED BY <1>2

LEMMA FirstIn == ASSUME NEW S \in SUBSET Nat, S # {}
                 PROVE  First(S) \in S
  BY LeastExists DEF First

LEMMA GreatestExists == ASSUME NEW n \in Nat, NEW S \in SUBSET (1 .. n), S # {}
                        PROVE  \E i \in S : \A j \in S : j <= i
  <1> DEFINE T == {k \in 0 .. n : n - k \in S}
  <1>1. T \in SUBSET Nat /\ T # {}
    <2>1. PICK i \in S : TRUE  OBVIOUS
    <2>2. n - i \in T  BY <2>1
    <2>3. T \subseteq Nat  OBVIOUS
    <2> QED BY <2>2, <2>3
  <1>2. PICK k \in T : \A l \in T : k <= l
    BY <1>1, LeastExists
  <1>3. \A j \in S : n - j \in T  OBVIOUS
  <1>4. \A j \in S : j <= n - k  BY <1>2, <1>3
  <1> QED BY <1>2, <1>4

LEMMA IndexNat == /\ Index \in SUBSET Nat /\ Index # {}
                  /\ NCache \in 1 .. NCache /\ NCache \in Nat
  BY CardAssumption DEF Index

(* The pages that are written next are pages still to write.               *)
LEMMA NextPages == ASSUME TypeOK, fl.todo # {}
                   PROVE  NextPage \in fl.todo /\ NextProgrammed \in fl.todo /\ fl.todo \subseteq Index
  <1>1. fl.todo \in SUBSET Index  BY DEF TypeOK
  <1>2. CASE fl.todo \subseteq fl.cached
    BY <1>1, <1>2, FirstIn, IndexNat DEF NextPage, NextProgrammed
  <1>3. CASE ~(fl.todo \subseteq fl.cached)
    <2>1. fl.todo \ fl.cached # {} /\ fl.todo \ fl.cached \in SUBSET Nat
      BY <1>1, <1>3, IndexNat
    <2> QED BY <1>1, <1>3, <2>1, FirstIn, IndexNat DEF NextPage, NextProgrammed
  <1> QED BY <1>2, <1>3

(* The entry that a flush takes is one that was written.                   *)
LEMMA FlushedDirty ==
  ASSUME TypeOK, IF call.op = "flush" THEN Dirty # {} ELSE cache[NCache].wr
  PROVE  Flushed \in 1 .. NCache /\ cache[Flushed].wr
  <1>1. CASE call.op = "flush"
    <2>1. \E k \in Dirty : \A n \in Dirty : n <= k
      BY <1>1, GreatestExists, IndexNat DEF Dirty
    <2> QED BY <1>1, <2>1 DEF Flushed, Dirty
  <1>2. CASE call.op # "flush"
    BY <1>2, IndexNat DEF Flushed
  <1> QED BY <1>1, <1>2

-----------------------------------------------------------------------------
(* Shape is kept by every step.                                            *)
LEMMA NoEntryType == NoEntry \in Entry
  BY DEF NoEntry, Entry, Page

LEMMA NoFlushType ==
  NoFlush \in [block : Block \cup {None}, data : [Index -> Page], flag : BOOLEAN,
               cached : SUBSET Index, todo : SUBSET Index]
  BY DEF NoFlush, Page

LEMMA UsedType ==
  ASSUME NEW e \in Entry, NEW k \in Requests
  PROVE  /\ Used(e, k) \in Entry /\ Used(e, k).cl = e.cl
         /\ Used(e, k).wr => e.wr \/ k.op = "write"
  BY DEF Used, Entry, Requests, Page

LEMMA MovedType ==
  ASSUME TypeOK, NEW k \in 1 .. NCache, NEW e \in Entry
  PROVE  MoveToFront(k, e) \in [1 .. NCache -> Entry]
  BY IndexNat DEF TypeOK, MoveToFront

LEMMA InitShape == Init => Shape
  BY NoEntryType, NoFlushType, CardAssumption
     DEF Init, Shape, TypeOK, Control, Marks, Down, Between, Saving, Writing, Restoring,
         ErasedBlock, OnCard, Cluster, Page, NoCall, NoEntry

LEMMA PowerCutShape == ASSUME Shape, PowerCut PROVE Shape'
  <1>1. /\ card' \in [Block -> [Index -> Page]] /\ bb1' \in [Index -> Page]
        /\ bb2' \in [0 .. 1 -> Block \cup {Erased, Bad}]
        /\ bb2'[1] \in Block => bb2'[0] \in Block
    <2>1. CASE UNCHANGED cardVars
      BY <2>1 DEF cardVars, Shape, TypeOK, Marks
    <2>2. CASE Torn
      <3>1. CASE pc \in {"copy", "program", "reprogram"}
        <4>1. /\ NextPage \in Index /\ NextProgrammed \in Index
              /\ pc # "copy" => fl.block \in Block
          BY <3>1, NextPages DEF Shape, Control, Writing, Restoring
        <4>2. bb2' = bb2
          BY <2>2, <3>1 DEF Torn
        <4>3. bb1' \in [Index -> Page]
          BY <2>2, <3>1, <4>1 DEF Torn, Shape, TypeOK, Page
        <4>4. \/ card' = card
              \/ /\ fl.block \in Block
                 /\ \E i \in Index : card' = [card EXCEPT ![fl.block][i] = Bad]
          BY <2>2, <3>1, <4>1 DEF Torn
        <4>5. ASSUME NEW i \in Index, fl.block \in Block
              PROVE  [card EXCEPT ![fl.block][i] = Bad] \in [Block -> [Index -> Page]]
          BY <4>5 DEF Shape, TypeOK, Page
        <4>6. card' \in [Block -> [Index -> Page]]
          BY <4>4, <4>5 DEF Shape, TypeOK
        <4> QED BY <4>2, <4>3, <4>6 DEF Shape, TypeOK, Marks
      <3>2. CASE pc \notin {"copy", "program", "reprogram"}
        <4>1. bb1' \in [Index -> Page]
          BY <2>2, <3>2 DEF Torn, AllBad, Shape, TypeOK, Page
        <4>2. card' \in [Block -> [Index -> Page]]
          BY <2>2, <3>2 DEF Torn, AllBad, Shape, TypeOK, Page, Control, Writing, Restoring
        <4>3. /\ bb2' \in [0 .. 1 -> Block \cup {Erased, Bad}]
              /\ bb2'[1] \in Block => bb2'[0] \in Block
          BY <2>2, <3>2, CardAssumption DEF Torn, Shape, TypeOK, Marks, Between
        <4> QED BY <4>1, <4>2, <4>3
      <3> QED BY <3>1, <3>2
    <2> QED BY <2>1, <2>2 DEF PowerCut
  <1> QED BY <1>1, NoEntryType, NoFlushType
          DEF PowerCut, Shape, TypeOK, Control, Marks, Down, Between, Saving, Writing, Restoring,
              NoCall, NoEntry

LEMMA RestoreShape == ASSUME Shape, Restore PROVE Shape'
  <1>1. CASE Insert
    <2>1. CASE RestoreNeeded
      <3>1. bb2[1] \in Block /\ bb2[0] \in Block
        BY <2>1 DEF RestoreNeeded, Shape, TypeOK, Marks
      <3>2. /\ fl' = [NoFlush EXCEPT !.block = bb2[0], !.data = bb1, !.todo = Index]
            /\ pc' = "rerase"
        BY <1>1, <2>1 DEF Insert
      <3>3. fl'.block = bb2[0] /\ fl'.todo = Index
        BY <3>2 DEF NoFlush
      <3>4. fl' \in [block : Block \cup {None}, data : [Index -> Page], flag : BOOLEAN,
                     cached : SUBSET Index, todo : SUBSET Index]
        BY <3>1, <3>2, NoFlushType DEF NoFlush, Shape, TypeOK
      <3> QED BY <1>1, <3>1, <3>2, <3>3, <3>4
              DEF Insert, Shape, TypeOK, Control, Marks, Down, Between, Saving, Writing, Restoring
    <2>2. CASE ~RestoreNeeded
      <3>1. fl' = fl /\ pc' \in {"found", "clean"}
        BY <1>1, <2>2 DEF Insert
      <3>2. pc' = "found" => bb2[0] = Erased /\ bb2[1] = Erased
        BY <1>1, <2>2 DEF Insert
      <3> QED BY <1>1, <3>1, <3>2
              DEF Insert, Shape, TypeOK, Control, Marks, Down, Between, Saving, Writing, Restoring
    <2> QED BY <2>1, <2>2
  <1>2. CASE RestoreErase
    BY <1>2, IndexNat DEF RestoreErase, ErasedBlock, Page, Shape, TypeOK, Control, Marks, Down, Between,
           Saving, Writing, Restoring
  <1>3. CASE RestoreProgram
    <2>1. NextPage \in fl.todo /\ fl.todo \subseteq Index /\ fl.block \in Block
      BY <1>3, NextPages DEF RestoreProgram, Shape, Control, Restoring
    <2>2. Programmed(card[fl.block][NextPage], fl.data[NextPage]) \in Page
      BY <2>1 DEF Programmed, Page, Shape, TypeOK
    <2> QED BY <1>3, <2>1, <2>2
            DEF RestoreProgram, Shape, TypeOK, Control, Marks, Down, Between, Saving, Writing,
                Restoring
  <1>4. CASE Clean
    BY <1>4, NoFlushType, CardAssumption DEF Clean, Shape, TypeOK, Control, Marks, Down, Between, Saving, Writing,
           Restoring
  <1>5. CASE Found
    BY <1>5 DEF Found, OnCard, Cluster, Shape, TypeOK, Control, Marks, Down, Between, Saving,
           Writing, Restoring, NoEntry
  <1> QED BY <1>1, <1>2, <1>3, <1>4, <1>5 DEF Restore

LEMMA CallShape == ASSUME Shape, NEW k \in Requests, Hit(k) \/ Miss(k) PROVE Shape'
  <1>0. k.cl \in Cluster /\ Wanted(k) \in [Cluster -> Page]
    BY DEF Requests, Wanted, Shape, TypeOK, Page
  <1>1. CASE Hit(k)
    <2>1. PICK n \in Slots(k.cl) : cache' = MoveToFront(n, Used(cache[n], k))
      BY <1>1 DEF Hit
    <2>2. n \in 1 .. NCache /\ cache[n].cl \in Cluster /\ cache[n] \in Entry
      BY <1>0, <2>1 DEF Slots, Shape, TypeOK
    <2> DEFINE e == Used(cache[n], k)
    <2>3. e \in Entry /\ e.cl \in Cluster
      BY <2>2, UsedType
    <2>4. cache' \in [1 .. NCache -> Entry]
      BY <2>1, <2>2, <2>3, MovedType DEF Shape
    <2>5. ASSUME NEW m \in 1 .. NCache, cache'[m].wr PROVE cache'[m].cl \in Cluster
      <3> HIDE DEF e
      <3>1. cache'[m] = e \/ \E l \in 1 .. NCache : cache'[m] = cache[l]
        BY <2>1, IndexNat DEF MoveToFront, e
      <3> QED BY <2>3, <2>5, <3>1 DEF Shape, Control
    <2> QED BY <1>0, <1>1, <2>4, <2>5 DEF Hit, Shape, TypeOK, Control, Marks, Down, Between, Saving,
                                  Writing, Restoring
  <1>2. CASE Miss(k)
    <2>1. call'.op # "flush" /\ call' \in Requests /\ call'.op # "none"
      BY <1>2 DEF Miss, Requests
    <2>2. pc' = "gather" => cache'[NCache].wr
      BY <1>2 DEF Miss
    <2> QED BY <1>2, <2>1, <2>2 DEF Miss, Shape, TypeOK, Control, Marks, Down, Between, Saving,
                                  Writing, Restoring
  <1> QED BY <1>1, <1>2

LEMMA LoadShape == ASSUME Shape, Load PROVE Shape'
  <1> DEFINE e == [cl |-> call.cl, data |-> card[call.cl[1]][call.cl[2]], wr |-> FALSE, rd |-> FALSE]
  <1>1. call \in Requests /\ call.cl \in Cluster
    BY DEF Load, Shape, Control, Requests
  <1>2. e \in Entry
    BY <1>1 DEF Entry, Cluster, Shape, TypeOK
  <1>3. Used(e, call) \in Entry /\ Used(e, call).cl \in Cluster
    BY <1>1, <1>2, UsedType
  <1>4. cache' = MoveToFront(NCache, Used(e, call))
    BY DEF Load
  <1>5. cache' \in [1 .. NCache -> Entry]
    BY <1>3, <1>4, MovedType, IndexNat DEF Shape
  <1>6. ASSUME NEW m \in 1 .. NCache, cache'[m].wr PROVE cache'[m].cl \in Cluster
    <2> DEFINE u == Used(e, call)
    <2> HIDE DEF u
    <2>1. cache'[m] = u \/ \E l \in 1 .. NCache : cache'[m] = cache[l]
      BY <1>4, IndexNat DEF MoveToFront, u
    <2> QED BY <1>3, <1>6, <2>1 DEF Shape, Control, u
  <1>7. Wanted(call) \in [Cluster -> Page]
    BY <1>1 DEF Requests, Wanted, Shape, TypeOK, Page
  <1> QED BY <1>5, <1>6, <1>7 DEF Load, Shape, TypeOK, Control, Marks, Down, Between, Saving,
                               Writing, Restoring

LEMMA FlushCallShape == ASSUME Shape, McFlush \/ FlushNext PROVE Shape'
  <1>1. CASE McFlush
    BY <1>1 DEF McFlush, NoCall, Shape, TypeOK, Control, Marks, Down, Between, Saving, Writing,
           Restoring
  <1>2. CASE FlushNext
    <2>1. call.op = "flush" /\ (pc' = "gather" => Dirty' # {} /\ call' = call)
      BY <1>2 DEF FlushNext, Dirty, Shape, Control
    <2> QED BY <1>2, <2>1 DEF FlushNext, NoCall, Shape, TypeOK, Control, Marks, Down, Between,
                            Saving, Writing, Restoring
  <1> QED BY <1>1, <1>2

LEMMA ReadFailsShape == ASSUME Shape, ReadFails PROVE Shape'
  BY NoEntryType, CardAssumption
     DEF ReadFails, OnCard, Cluster, NoEntry, NoCall, Shape, TypeOK, Control, Marks, Down, Between, Saving,
         Writing, Restoring

(* At "gather" a written entry of a block is to be flushed.                *)
LEMMA GatherBlock ==
  ASSUME Shape, pc = "gather"
  PROVE  /\ Flushed \in 1 .. NCache /\ cache[Flushed].wr
         /\ cache[Flushed].cl \in Cluster /\ cache[Flushed].cl[1] \in Block
  <1>1. Flushed \in 1 .. NCache /\ cache[Flushed].wr
    BY FlushedDirty DEF Shape, Control
  <1> QED BY <1>1 DEF Shape, Control, Cluster

LEMMA NewContentType ==
  ASSUME TypeOK, NEW b \in Block
  PROVE  NewContent(b) \in [Index -> Page] /\ NeedsBackup(b) \in BOOLEAN
  <1>1. ASSUME NEW i \in Index, i \in CachedOf(b)
        PROVE  (CHOOSE k \in Slots(<<b, i>>) : TRUE) \in 1 .. NCache
    BY <1>1 DEF CachedOf, Slots
  <1>2. ASSUME NEW i \in Index
        PROVE  (IF i \in CachedOf(b) THEN cache[CHOOSE k \in Slots(<<b, i>>) : TRUE].data
                                      ELSE card[b][i]) \in Page
    <2>1. CASE i \in CachedOf(b)
      <3> DEFINE n == CHOOSE k \in Slots(<<b, i>>) : TRUE
      <3>1. n \in 1 .. NCache  BY <1>1, <2>1
      <3> HIDE DEF n
      <3>2. cache[n].data \in Page  BY <3>1 DEF TypeOK, Entry
      <3> QED BY <2>1, <3>2 DEF n
    <2>2. CASE i \notin CachedOf(b)
      BY <2>2 DEF TypeOK
    <2> QED BY <2>1, <2>2
  <1> QED BY <1>2 DEF NewContent, NeedsBackup

LEMMA GatherShape == ASSUME Shape, Gather PROVE Shape'
  <1> DEFINE b == cache[Flushed].cl[1]
  <1>1. b \in Block
    BY GatherBlock DEF Gather
  <1> HIDE DEF b
  <1>2. NewContent(b) \in [Index -> Page] /\ NeedsBackup(b) \in BOOLEAN
    BY <1>1, NewContentType DEF Shape
  <1>3. /\ fl' = [block |-> b, data |-> NewContent(b), flag |-> NeedsBackup(b),
                  cached |-> CachedOf(b), todo |-> Index]
        /\ pc' = IF NeedsBackup(b) THEN "backup" ELSE "erase"
        /\ UNCHANGED <<card, bb1, bb2, cache, call, want>>
    BY DEF Gather, b
  <1>4. CachedOf(b) \subseteq Index
    BY DEF CachedOf
  <1>5. fl' \in [block : Block \cup {None}, data : [Index -> Page], flag : BOOLEAN,
                 cached : SUBSET Index, todo : SUBSET Index]
    BY <1>1, <1>2, <1>3, <1>4
  <1>6. fl'.block = b /\ fl'.todo = Index /\ fl'.flag = NeedsBackup(b)
    BY <1>3
  <1>7. call.op # "none" /\ pc = "gather"
    BY DEF Gather, Shape, Control
  <1> HIDE <1>3
  <1>8. TypeOK'
    BY <1>2, <1>3, <1>5 DEF Shape, TypeOK
  <1> QED BY <1>1, <1>2, <1>3, <1>6, <1>7, <1>8
          DEF Shape, Control, Marks, Down, Between, Saving, Writing, Restoring

LEMMA BackupShape == ASSUME Shape, Backup \/ Mark0 \/ Mark1 PROVE Shape'
  <1>1. CASE Backup
    BY <1>1, IndexNat DEF Backup, ErasedBlock, Page, Shape, TypeOK, Control, Marks, Down, Between, Saving,
           Writing, Restoring
  <1>2. CASE Mark0
    BY <1>2, IndexNat DEF Mark0, Programmed, Shape, TypeOK, Control, Marks, Down, Between, Saving,
           Writing, Restoring
  <1>3. CASE Mark1
    BY <1>3 DEF Mark1, Programmed, Shape, TypeOK, Control, Marks, Down, Between, Saving,
           Writing, Restoring
  <1> QED BY <1>1, <1>2, <1>3

LEMMA CopyShape == ASSUME Shape, Copy PROVE Shape'
  <1>1. NextPage \in fl.todo /\ fl.todo \subseteq Index
    BY NextPages DEF Copy, Shape, Control
  <1>2. Programmed(bb1[NextPage], fl.data[NextPage]) \in Page
    BY <1>1 DEF Programmed, Page, Shape, TypeOK
  <1> QED BY <1>1, <1>2 DEF Copy, Shape, TypeOK, Control, Marks, Down, Between, Saving,
                          Writing, Restoring

LEMMA EraseShape == ASSUME Shape, Erase \/ Unmark PROVE Shape'
  <1>1. CASE Erase
    BY <1>1, IndexNat DEF Erase, ErasedBlock, Page, Shape, TypeOK, Control, Marks, Down, Between, Saving,
           Writing, Restoring
  <1>2. CASE Unmark
    BY <1>2, NoFlushType, CardAssumption DEF Unmark, AfterFlush, Requests, NoCall, Shape, TypeOK, Control, Marks, Down, Between, Saving,
           Writing, Restoring
  <1> QED BY <1>1, <1>2

LEMMA CleanedType == ASSUME TypeOK, NEW b \in Block
                     PROVE  Cleaned(b) \in [1 .. NCache -> Entry]
  BY DEF TypeOK, Cleaned, Entry

LEMMA CleanedEntry ==
  ASSUME TypeOK, NEW b \in Block, NEW k \in 1 .. NCache
  PROVE  /\ Cleaned(b)[k].cl = cache[k].cl /\ Cleaned(b)[k].data = cache[k].data
         /\ Cleaned(b)[k].rd = cache[k].rd
         /\ Cleaned(b)[k].wr => cache[k].wr /\ ~\E i \in Index : cache[k].cl = <<b, i>>
  BY DEF TypeOK, Cleaned, Entry

LEMMA ProgramShape == ASSUME Shape, Program PROVE Shape'
  <1>1. NextProgrammed \in fl.todo /\ fl.todo \subseteq Index /\ fl.block \in Block
    BY NextPages DEF Program, Shape, Control, Writing
  <1>2. Programmed(card[fl.block][NextProgrammed], fl.data[NextProgrammed]) \in Page
    BY <1>1 DEF Programmed, Page, Shape, TypeOK
  <1>3. card' \in [Block -> [Index -> Page]]
    BY <1>1, <1>2 DEF Program, Shape, TypeOK
  <1>4. CASE fl.todo # {NextProgrammed}
    BY <1>1, <1>3, <1>4 DEF Program, Shape, TypeOK, Control, Marks, Down, Between, Saving,
                          Writing, Restoring
  <1>5. CASE fl.todo = {NextProgrammed}
    <2>1. /\ cache' = Cleaned(fl.block) /\ UNCHANGED <<bb1, bb2, call, want>>
          /\ fl' = IF fl.flag THEN [fl EXCEPT !.todo = {}] ELSE NoFlush
          /\ pc' = IF fl.flag THEN "unmark" ELSE AfterFlush
      BY <1>5 DEF Program
    <2>2. TypeOK'
      <3>1. cache' \in [1 .. NCache -> Entry]
        BY <1>1, <2>1, CleanedType DEF Shape
      <3>2. fl' \in [block : Block \cup {None}, data : [Index -> Page], flag : BOOLEAN,
                     cached : SUBSET Index, todo : SUBSET Index]
        BY <2>1, NoFlushType DEF Shape, TypeOK
      <3>3. pc' \in {"unmark", "next", "load"}
        BY <2>1 DEF AfterFlush
      <3> QED BY <1>3, <2>1, <3>1, <3>2, <3>3 DEF Shape, TypeOK
    <2>3. \A k \in 1 .. NCache : cache'[k].wr => cache'[k].cl \in Cluster
      <3>1. TypeOK  BY DEF Shape
      <3>2. ASSUME NEW k \in 1 .. NCache, cache'[k].wr PROVE cache'[k].cl \in Cluster
        <4>1. /\ Cleaned(fl.block)[k].cl = cache[k].cl
              /\ Cleaned(fl.block)[k].wr => cache[k].wr
          BY <1>1, <3>1, CleanedEntry
        <4>2. cache[k].wr  BY <2>1, <3>2, <4>1
        <4> QED BY <2>1, <4>1, <4>2 DEF Shape, Control
      <3> QED BY <3>2
    <2>4. pc' = "load" => call' \in Requests
      BY <2>1 DEF Program, AfterFlush, Shape, Control, TypeOK, NoCall, Writing
    <2> QED BY <1>1, <2>1, <2>2, <2>3, <2>4
            DEF Program, AfterFlush, Shape, Control, Marks, Down, Between, Saving, Writing, Restoring
  <1> QED BY <1>4, <1>5

LEMMA NextShape == ASSUME Shape, [Next]_vars PROVE Shape'
  <1>1. CASE UNCHANGED vars
    BY <1>1 DEF vars, Shape, TypeOK, Control, Marks, Dirty
  <1> QED BY <1>1, PowerCutShape, RestoreShape, CallShape, LoadShape, FlushCallShape,
             ReadFailsShape, GatherShape, BackupShape, CopyShape, EraseShape, ProgramShape
          DEF Next, Step, Flush

LEMMA AlwaysShape == Spec => []Shape
  <1>1. Init => Shape  BY InitShape
  <1>2. Shape /\ [Next]_vars => Shape'  BY NextShape
  <1> QED BY <1>1, <1>2, PTL DEF Spec

(* The variables of mcman and the pages of the card keep their shape: in   *)
(* particular a restore always has a block's number to go by.              *)
THEOREM TypeCorrect == Spec => []TypeOK
  <1>1. Shape => TypeOK  BY DEF Shape
  <1> QED BY <1>1, AlwaysShape, PTL

-----------------------------------------------------------------------------
(* How much of a block is written.                                         *)
LEMMA NothingWritten ==
  ASSUME NEW data PROVE Partly(ErasedBlock, Index, data)
  BY DEF Partly, ErasedBlock

LEMMA InitPages == Init => Pages
  BY DEF Init, Pages, Restoring, Writing

LEMMA NextPagesInv == ASSUME Shape, Pages, [Next]_vars PROVE Pages'
  <1> USE DEF Restoring, Writing
  <1>1. CASE UNCHANGED vars
    BY <1>1 DEF vars, Pages, Partly
  <1>2. CASE PowerCut
    BY <1>2 DEF PowerCut, Pages
  <1>3. CASE Insert
    <2>1. bb2[1] \in Block => RestoreNeeded
      BY CardAssumption DEF Shape, Marks, RestoreNeeded
    <2>2. RestoreNeeded => pc' = "rerase" /\ fl'.data = bb1 /\ bb1' = bb1
      BY <1>3 DEF Insert, NoFlush
    <2>3. ~RestoreNeeded => pc' \in {"found", "clean"} /\ bb2' = bb2
      BY <1>3 DEF Insert
    <2> QED BY <2>1, <2>2, <2>3 DEF Pages
  <1>4. CASE RestoreErase
    <2>1. /\ pc' = "reprogram" /\ fl' = fl /\ bb1' = bb1 /\ bb1 = fl.data /\ fl.todo = Index
          /\ card'[fl.block] = ErasedBlock
      BY <1>4 DEF RestoreErase, Shape, Control, TypeOK, Pages
    <2>2. Partly(card'[fl'.block], fl'.todo, fl'.data)
      BY <2>1, NothingWritten
    <2> QED BY <2>1, <2>2 DEF Pages
  <1>5. CASE RestoreProgram
    <2>1. /\ NextPage \in fl.todo /\ fl.todo \subseteq Index /\ fl.block \in Block
          /\ bb1 = fl.data /\ Partly(card[fl.block], fl.todo, fl.data) /\ bb2[0] = fl.block
      BY <1>5, NextPages DEF RestoreProgram, Shape, Control, Pages, Marks
    <2>2. /\ card' = [card EXCEPT ![fl.block][NextPage] = Programmed(@, fl.data[NextPage])]
          /\ fl' = [fl EXCEPT !.todo = @ \ {NextPage}]
          /\ pc' = IF fl'.todo = {} THEN "clean" ELSE "reprogram"
          /\ bb1' = bb1 /\ bb2' = bb2
      BY <1>5 DEF RestoreProgram
    <2>3. card'[fl.block] = [card[fl.block] EXCEPT
                                ![NextPage] = Programmed(card[fl.block][NextPage], fl.data[NextPage])]
      BY <2>1, <2>2 DEF Shape, TypeOK
    <2>4. fl'.todo = fl.todo \ {NextPage} /\ fl'.data = fl.data /\ fl'.block = fl.block
      BY <2>2 DEF Shape, TypeOK
    <2>5. card[fl.block] \in [Index -> Page] /\ fl.data \in [Index -> Page]
      BY <2>1 DEF Shape, TypeOK
    <2>6. /\ Partly(card'[fl.block], fl'.todo, fl.data)
          /\ fl'.todo = {} => card'[fl.block] = fl.data
      BY <2>1, <2>3, <2>4, <2>5 DEF Partly, Programmed
    <2> QED BY <2>1, <2>2, <2>4, <2>6 DEF Pages
  <1>6. CASE Clean \/ Found
    BY <1>6 DEF Clean, Found, Pages
  <1>7. ASSUME NEW k \in Requests, Hit(k) \/ Miss(k) PROVE Pages'
    BY <1>7 DEF Hit, Miss, Pages
  <1>8. CASE Load \/ McFlush \/ FlushNext \/ ReadFails
    BY <1>8 DEF Load, McFlush, FlushNext, ReadFails, Pages
  <1>9. CASE Gather
    <2>1. fl'.flag => pc' = "backup"
      BY <1>9 DEF Gather
    <2>2. pc' \in {"backup", "erase"}
      BY <1>9 DEF Gather
    <2> QED BY <2>1, <2>2 DEF Pages
  <1>10. CASE Backup
    BY <1>10, NothingWritten DEF Backup, Shape, Control, Pages
  <1>11. CASE Mark0
    BY <1>11 DEF Mark0, Pages, Partly
  <1>12. CASE Copy
    <2>1. NextPage \in fl.todo /\ fl.todo \subseteq Index /\ Partly(bb1, fl.todo, fl.data)
      BY <1>12, NextPages DEF Copy, Shape, Control, Pages
    <2>2. fl'.todo = fl.todo \ {NextPage} /\ fl'.data = fl.data
      BY <1>12 DEF Copy, Shape, TypeOK
    <2>3. bb1 \in [Index -> Page] /\ fl.data \in [Index -> Page]
      BY DEF Shape, TypeOK
    <2>4. Partly(bb1', fl'.todo, fl.data) /\ (fl'.todo = {} => bb1' = fl.data)
      <3>1. bb1' = [bb1 EXCEPT ![NextPage] = Programmed(bb1[NextPage], fl.data[NextPage])]
        BY <1>12 DEF Copy
      <3>2. fl.todo \in SUBSET Index  BY <2>1
      <3>3. /\ Partly(bb1', fl.todo \ {NextPage}, fl.data)
            /\ fl.todo \ {NextPage} = {} => bb1' = fl.data
        BY <2>1, <2>3, <3>1, <3>2 DEF Partly, Programmed
      <3> QED BY <2>2, <3>3
    <2> QED BY <1>12, <2>2, <2>4 DEF Copy, Pages
  <1>13. CASE Mark1
    BY <1>13 DEF Mark1, Pages
  <1>14. CASE Erase
    <2>1. /\ pc' = "program" /\ bb1' = bb1 /\ card'[fl.block] = ErasedBlock
          /\ fl'.block = fl.block /\ fl'.todo = Index /\ fl'.data = fl.data /\ fl'.flag = fl.flag
      BY <1>14 DEF Erase, Shape, Control, TypeOK
    <2>2. Partly(card'[fl'.block], fl'.todo, fl'.data)
      BY <2>1, NothingWritten
    <2> QED BY <1>14, <2>1, <2>2 DEF Erase, Pages
  <1>15. CASE Program
    <2>1. /\ NextProgrammed \in fl.todo /\ fl.todo \subseteq Index /\ fl.block \in Block
          /\ Partly(card[fl.block], fl.todo, fl.data) /\ (fl.flag => bb1 = fl.data)
      BY <1>15, NextPages DEF Program, Shape, Control, Pages
    <2>2. card'[fl.block] = [card[fl.block] EXCEPT
            ![NextProgrammed] = Programmed(card[fl.block][NextProgrammed], fl.data[NextProgrammed])]
      BY <1>15, <2>1 DEF Program, Shape, TypeOK
    <2>3. card[fl.block] \in [Index -> Page] /\ fl.data \in [Index -> Page]
      BY <2>1 DEF Shape, TypeOK
    <2>4. /\ Partly(card'[fl.block], fl.todo \ {NextProgrammed}, fl.data)
          /\ fl.todo \ {NextProgrammed} = {} => card'[fl.block] = fl.data
      <3>1. fl.todo \in SUBSET Index  BY <2>1
      <3> QED BY <2>1, <2>2, <2>3, <3>1 DEF Partly, Programmed
    <2>5. CASE fl.todo # {NextProgrammed}
      <3>1. /\ fl'.todo = fl.todo \ {NextProgrammed} /\ fl'.data = fl.data /\ fl'.block = fl.block
            /\ fl'.flag = fl.flag /\ pc' = "program" /\ bb1' = bb1
        BY <1>15, <2>5 DEF Program, Shape, TypeOK
      <3> QED BY <2>1, <2>4, <3>1 DEF Pages
    <2>6. CASE fl.todo = {NextProgrammed}
      <3>1. card'[fl.block] = fl.data  BY <2>4, <2>6
      <3>2. CASE fl.flag
        <4>1. fl'.block = fl.block /\ fl'.data = fl.data /\ pc' = "unmark" /\ bb1' = bb1
          BY <1>15, <2>6, <3>2 DEF Program, Shape, TypeOK
        <4> QED BY <2>1, <3>1, <3>2, <4>1 DEF Pages
      <3>3. CASE ~fl.flag
        BY <1>15, <2>6, <3>3 DEF Program, AfterFlush, Pages
      <3> QED BY <3>2, <3>3
    <2> QED BY <2>5, <2>6
  <1>16. CASE Unmark
    BY <1>16 DEF Unmark, AfterFlush, Pages
  <1> QED BY <1>1, <1>2, <1>3, <1>4, <1>5, <1>6, <1>7, <1>8, <1>9, <1>10, <1>11, <1>12, <1>13,
             <1>14, <1>15, <1>16 DEF Next, Step, Restore, Flush

-----------------------------------------------------------------------------
(* Where an entry was before MoveToFront(k, e).                            *)
Old(k, n) == IF n = 1 THEN k ELSE IF n <= k THEN n - 1 ELSE n

LEMMA MovedFrom ==
  ASSUME NEW k \in 1 .. NCache, NEW e, NEW n \in 1 .. NCache
  PROVE  /\ Old(k, n) \in 1 .. NCache /\ (Old(k, n) = k <=> n = 1)
         /\ MoveToFront(k, e)[n] = IF n = 1 THEN e ELSE cache[Old(k, n)]
  BY IndexNat DEF Old, MoveToFront

LEMMA OldOnto == ASSUME NEW k \in 1 .. NCache, NEW l \in 1 .. NCache
                 PROVE  \E n \in 1 .. NCache : Old(k, n) = l
  <1>1. CASE l = k
    BY <1>1, IndexNat DEF Old
  <1>2. CASE l < k
    <2>1. l + 1 \in 1 .. NCache /\ Old(k, l + 1) = l
      BY <1>2, IndexNat DEF Old
    <2> QED BY <2>1
  <1>3. CASE l > k
    <2>1. Old(k, l) = l
      BY <1>3, IndexNat DEF Old
    <2> QED BY <2>1
  <1> QED BY <1>1, <1>2, <1>3, IndexNat

LEMMA OldOneToOne == ASSUME NEW k \in 1 .. NCache, NEW m \in 1 .. NCache, NEW n \in 1 .. NCache,
                            Old(k, m) = Old(k, n)
                     PROVE  m = n
  BY IndexNat DEF Old

-----------------------------------------------------------------------------
(* Clusters of the file system are never taken for file data.              *)
LEMMA UsedMeta ==
  ASSUME NEW e \in Entry, NEW k \in Requests, e.cl = k.cl, e.cl \in Meta => ~e.rd
  PROVE  Used(e, k).cl \in Meta => ~Used(e, k).rd
  BY DEF Used, Entry

LEMMA MovedMeta ==
  ASSUME TypeOK, Flags, NEW n \in 1 .. NCache, NEW e \in Entry, e.cl \in Meta => ~e.rd
  PROVE  \A m \in 1 .. NCache : MoveToFront(n, e)[m].cl \in Meta => ~MoveToFront(n, e)[m].rd
  <1> SUFFICES ASSUME NEW m \in 1 .. NCache, MoveToFront(n, e)[m].cl \in Meta
               PROVE  ~MoveToFront(n, e)[m].rd
    OBVIOUS
  <1>1. CASE m = 1
    <2>1. MoveToFront(n, e)[m] = e  BY <1>1, MovedFrom
    <2> QED BY <2>1
  <1>2. CASE m # 1
    <2>1. MoveToFront(n, e)[m] = cache[Old(n, m)] /\ Old(n, m) \in 1 .. NCache
      BY <1>2, MovedFrom
    <2> QED BY <2>1 DEF Flags
  <1> QED BY <1>1, <1>2

LEMMA InitFlags == Init => Flags
  BY CardAssumption DEF Init, Flags, NoEntry

LEMMA NextFlags == ASSUME Shape, Flags, [Next]_vars PROVE Flags'
  <1>0. MetaBlock' = MetaBlock  BY DEF MetaBlock
  <1>1. CASE UNCHANGED vars
    BY <1>1 DEF vars, Flags, MetaBlock
  <1>2. CASE PowerCut \/ ReadFails
    BY <1>2, CardAssumption DEF PowerCut, ReadFails, Flags, NoEntry
  <1>3. CASE Restore
    BY <1>3 DEF Restore, Insert, RestoreErase, RestoreProgram, Clean, Found, Flags
  <1>4. ASSUME NEW k \in Requests, Hit(k) PROVE Flags'
    <2>1. PICK n \in Slots(k.cl) : cache' = MoveToFront(n, Used(cache[n], k))
      BY <1>4 DEF Hit
    <2>2. n \in 1 .. NCache /\ cache[n].cl = k.cl /\ cache[n] \in Entry
      BY DEF Slots, Shape, TypeOK
    <2>3. Used(cache[n], k) \in Entry /\ (Used(cache[n], k).cl \in Meta => ~Used(cache[n], k).rd)
      BY <2>2, UsedMeta, UsedType DEF Flags
    <2>4. \A m \in 1 .. NCache : cache'[m].cl \in Meta => ~cache'[m].rd
      BY <2>1, <2>2, <2>3, MovedMeta DEF Shape
    <2> QED BY <1>4, <2>4 DEF Hit, Flags
  <1>5. ASSUME NEW k \in Requests, Miss(k) PROVE Flags'
    BY <1>5 DEF Miss, Flags
  <1>6. CASE Load
    <2> DEFINE e == [cl |-> call.cl, data |-> card[call.cl[1]][call.cl[2]], wr |-> FALSE, rd |-> FALSE]
    <2>1. call \in Requests /\ call.cl \in Cluster
      BY <1>6 DEF Load, Shape, Control, Requests
    <2>2. e \in Entry /\ e.cl = call.cl /\ ~e.rd
      BY <2>1 DEF Entry, Cluster, Shape, TypeOK
    <2>3. cache' = MoveToFront(NCache, Used(e, call))
      BY <1>6 DEF Load
    <2> HIDE DEF e
    <2>4. Used(e, call) \in Entry /\ (Used(e, call).cl \in Meta => ~Used(e, call).rd)
      BY <2>1, <2>2, UsedMeta, UsedType
    <2>5. \A m \in 1 .. NCache : cache'[m].cl \in Meta => ~cache'[m].rd
      BY <2>3, <2>4, MovedMeta, IndexNat DEF Shape
    <2> QED BY <1>6, <2>5 DEF Load, Flags
  <1>7. CASE McFlush \/ FlushNext
    BY <1>7 DEF McFlush, FlushNext, Flags
  <1>8. CASE Gather
    <2> DEFINE b == cache[Flushed].cl[1]
    <2>1. /\ Flushed \in 1 .. NCache /\ cache[Flushed].cl \in Cluster
      BY <1>8, GatherBlock DEF Gather
    <2>2. PICK i \in Index : cache[Flushed].cl = <<b, i>>
      BY <2>1 DEF Cluster
    <2>3. b \in MetaBlock => NeedsBackup(b)
      BY <2>1, <2>2 DEF MetaBlock, NeedsBackup, Flags
    <2>4. fl'.block = b /\ fl'.flag = NeedsBackup(b) /\ cache' = cache
      BY <1>8 DEF Gather
    <2> QED BY <1>0, <2>3, <2>4 DEF Flags
  <1>9. CASE Backup \/ Mark0 \/ Copy \/ Unmark
    BY <1>9 DEF Backup, Mark0, Copy, Unmark, AfterFlush, Flags
  <1>10. CASE Mark1
    BY <1>10 DEF Mark1, Flags, Shape, Marks, Saving
  <1>11. CASE Erase
    BY <1>0, <1>11 DEF Erase, Flags, Shape, TypeOK
  <1>12. CASE Program
    <2>1. fl.block \in Block  BY <1>12 DEF Program, Shape, Control, Writing
    <2>2. \A k \in 1 .. NCache : cache'[k].cl = cache[k].cl /\ cache'[k].rd = cache[k].rd
      <3>1. CASE cache' = Cleaned(fl.block)
        <4>1. ASSUME NEW k \in 1 .. NCache
              PROVE  /\ Cleaned(fl.block)[k].cl = cache[k].cl
                     /\ Cleaned(fl.block)[k].rd = cache[k].rd
          BY <2>1, CleanedEntry DEF Shape
        <4> QED BY <3>1, <4>1
      <3> QED BY <1>12, <3>1 DEF Program
    <2>3. pc' = "erase" \/ pc' = "program" => fl'.block = fl.block /\ fl'.flag = fl.flag
      BY <1>12 DEF Program, AfterFlush, Shape, TypeOK
    <2> QED BY <1>0, <1>12, <2>2, <2>3 DEF Program, Flags
  <1> QED BY <1>1, <1>2, <1>3, <1>4, <1>5, <1>6, <1>7, <1>8, <1>9, <1>10, <1>11, <1>12
          DEF Next, Step, Flush

-----------------------------------------------------------------------------
(* What the next mcman_checkBackupBlocks makes of the card changes only   *)
(* when the second mark of a block is written.                             *)
LEMMA RecoveredQuiet ==
  ASSUME card' = card, bb2'[1] \in {Erased, Bad}, RestoreNeeded => card[bb2[0]] = bb1
  PROVE  Recovered' = Recovered
  <1>1. ~RestoreNeeded'  BY DEF RestoreNeeded
  <1> QED BY <1>1 DEF Recovered, MetaBlock

LEMMA RecoveredCard ==
  ASSUME bb1' = bb1, bb2' = bb2, \A b \in Block \ {fl.block} : card'[b] = card[b],
         (RestoreNeeded /\ bb2[0] = fl.block) \/ fl.block \notin MetaBlock
  PROVE  Recovered' = Recovered
  <1>1. RestoreNeeded' = RestoreNeeded  BY DEF RestoreNeeded
  <1>2. MetaBlock' = MetaBlock /\ MetaBlock \subseteq Block  BY DEF MetaBlock
  <1>3. ASSUME NEW b \in MetaBlock
        PROVE  (IF RestoreNeeded /\ bb2[0] = b THEN bb1 ELSE card[b])
                 = (IF RestoreNeeded /\ bb2[0] = b THEN bb1 ELSE card'[b])
    BY <1>2
  <1> QED BY <1>1, <1>2, <1>3 DEF Recovered

LEMMA WritingRecoverable ==
  ASSUME Shape, Flags, pc \in {"erase", "program"}
  PROVE  (RestoreNeeded /\ bb2[0] = fl.block) \/ fl.block \notin MetaBlock
  <1>1. fl.block \in Block  BY DEF Shape, Control, Writing
  <1> QED BY <1>1, CardAssumption DEF Shape, Marks, Writing, Flags, RestoreNeeded

LEMMA RestoringRecoverable ==
  ASSUME Shape, pc \in Restoring
  PROVE  RestoreNeeded /\ bb2[0] = fl.block
  <1>1. fl.block \in Block  BY DEF Shape, Control
  <1> QED BY <1>1, CardAssumption DEF Shape, Marks, RestoreNeeded

LEMMA UnmarkRecovered ==
  ASSUME Shape, Pages, pc \in {"unmark", "clean"}, RestoreNeeded
  PROVE  card[bb2[0]] = bb1
  <1>1. bb2[1] \in Block  BY DEF RestoreNeeded, Shape, TypeOK
  <1> QED BY <1>1, CardAssumption DEF Shape, Marks, Pages, Writing

LEMMA TornRecovered == ASSUME Shape, Pages, Flags, Torn PROVE Recovered' = Recovered
  <1>0. card \in [Block -> [Index -> Page]] /\ bb2 \in [0 .. 1 -> Block \cup {Erased, Bad}]
    BY DEF Shape, TypeOK
  <1>1. CASE pc \in Saving
    <2>1. card' = card /\ bb2'[1] \in {Erased, Bad}
      BY <1>0, <1>1 DEF Torn, Saving, Shape, Marks
    <2>2. ~RestoreNeeded
      BY <1>1 DEF RestoreNeeded, Saving, Shape, Marks
    <2> QED BY <2>1, <2>2, RecoveredQuiet
  <1>2. CASE pc \in {"erase", "program"}
    <2>1. \A b \in Block \ {fl.block} : card'[b] = card[b]
      BY <1>0, <1>2 DEF Torn
    <2> QED BY <1>2, <2>1, WritingRecoverable, RecoveredCard DEF Torn
  <1>3. CASE pc \in Restoring
    <2>1. \A b \in Block \ {fl.block} : card'[b] = card[b]
      BY <1>0, <1>3 DEF Torn, Restoring
    <2> QED BY <1>3, <2>1, RestoringRecoverable, RecoveredCard DEF Torn, Restoring
  <1>4. CASE pc \in {"unmark", "clean"}
    <2>1. card' = card /\ bb2'[1] \in {Erased, Bad}
      BY <1>4 DEF Torn
    <2> QED BY <1>4, <2>1, UnmarkRecovered, RecoveredQuiet
  <1> QED BY <1>1, <1>2, <1>3, <1>4 DEF Torn, Saving, Restoring

LEMMA NextRecovered ==
  ASSUME Shape, Pages, Flags, [Next]_vars, Mark1 => fl.block \notin MetaBlock
  PROVE  Recovered' = Recovered
  <1>0. card \in [Block -> [Index -> Page]] /\ bb2 \in [0 .. 1 -> Block \cup {Erased, Bad}]
    BY DEF Shape, TypeOK
  <1>1. ASSUME UNCHANGED cardVars PROVE Recovered' = Recovered
    BY <1>1 DEF cardVars, Recovered, RestoreNeeded, MetaBlock
  <1>2. CASE PowerCut
    BY <1>1, <1>2, TornRecovered DEF PowerCut
  <1>3. CASE RestoreErase \/ RestoreProgram
    <2>1. \A b \in Block \ {fl.block} : card'[b] = card[b]
      BY <1>0, <1>3 DEF RestoreErase, RestoreProgram
    <2> QED BY <1>3, <2>1, RestoringRecoverable, RecoveredCard
            DEF RestoreErase, RestoreProgram, Restoring
  <1>4. CASE Erase \/ Program
    <2>1. \A b \in Block \ {fl.block} : card'[b] = card[b]
      BY <1>0, <1>4 DEF Erase, Program
    <2> QED BY <1>4, <2>1, WritingRecoverable, RecoveredCard DEF Erase, Program
  <1>5. CASE Clean \/ Unmark
    <2>1. card' = card /\ bb2'[1] \in {Erased, Bad}
      BY <1>5 DEF Clean, Unmark
    <2> QED BY <1>5, <2>1, UnmarkRecovered, RecoveredQuiet DEF Clean, Unmark
  <1>6. CASE Backup \/ Mark0 \/ Copy
    <2>1. card' = card /\ bb2'[1] \in {Erased, Bad} /\ ~RestoreNeeded
      BY <1>0, <1>6 DEF Backup, Mark0, Copy, RestoreNeeded, Shape, Marks
    <2> QED BY <2>1, RecoveredQuiet
  <1>7. CASE Mark1
    <2>1. /\ ~RestoreNeeded /\ bb2'[0] = fl.block /\ card' = card /\ fl.block \notin MetaBlock
      BY <1>0, <1>7 DEF Mark1, RestoreNeeded, Shape, Marks
    <2>2. MetaBlock' = MetaBlock  BY DEF MetaBlock
    <2> QED BY <2>1, <2>2 DEF Recovered
  <1>8. CASE UNCHANGED vars
    BY <1>1, <1>8 DEF vars, cardVars
  <1>9. ASSUME NEW k \in Requests, Hit(k) \/ Miss(k) PROVE Recovered' = Recovered
    BY <1>1, <1>9 DEF Hit, Miss, cardVars
  <1>10. CASE Insert \/ Found \/ Gather \/ FlushNext \/ Load \/ ReadFails \/ McFlush
    BY <1>1, <1>10 DEF Insert, Found, Gather, FlushNext, Load, ReadFails, McFlush, cardVars
  <1> QED BY <1>2, <1>3, <1>4, <1>5, <1>6, <1>7, <1>8, <1>9, <1>10 DEF Next, Step, Flush, Restore

-----------------------------------------------------------------------------
(* The steps of a flush are steps of HeaderStore.                          *)
LEMMA PhaseDown == pc \in Down => Phase = "down" /\ Txn = Store!NoUpdate
  BY DEF Down, Phase, Flushing, Txn, Store!NoUpdate

LEMMA PhaseIdle == pc \in Between \/ (pc \in Saving \cup Writing /\ fl.block \notin MetaBlock)
                     => Phase = "idle" /\ Txn = Store!NoUpdate
  BY DEF Between, Saving, Writing, Phase, Flushing, Txn, Store!NoUpdate

LEMMA PhaseFlushing == pc \in Saving \cup Writing /\ fl.block \in MetaBlock
                         => Phase = "flushing" /\ Txn = [b \in {fl.block} |-> fl.data]
  BY DEF Saving, Writing, Phase, Flushing, Txn

LEMMA PhaseSame ==
  ASSUME fl'.block = fl.block, fl'.data = fl.data, pc \in Saving \cup Writing,
         pc' \in Saving \cup Writing
  PROVE  Phase' = Phase /\ Txn' = Txn
  BY DEF Saving, Writing, Phase, Flushing, Txn, MetaBlock

LEMMA CommitStep ==
  ASSUME Shape, Pages, Mark1, fl.block \in MetaBlock
  PROVE  Recovered' = Store!Apply(Txn, Recovered)
  <1>0. pc = "mark1" /\ fl.block \in Block /\ MetaBlock' = MetaBlock
    BY DEF Mark1, MetaBlock
  <1>1. ~RestoreNeeded
    BY <1>0 DEF RestoreNeeded, Shape, Marks
  <1>2. bb2'[0] = fl.block /\ bb2'[1] = fl.block /\ bb1' = fl.data /\ card' = card
    BY <1>0 DEF Mark1, Shape, TypeOK, Marks, Programmed, Pages
  <1>3. RestoreNeeded'
    BY <1>0, <1>2, CardAssumption DEF RestoreNeeded
  <1>4. Txn = [b \in {fl.block} |-> fl.data]
    BY <1>0, PhaseFlushing DEF Saving
  <1> QED BY <1>0, <1>1, <1>2, <1>3, <1>4 DEF Recovered, Store!Apply

LEMMA EndStep ==
  ASSUME Shape, Pages, Unmark, fl.block \in MetaBlock
  PROVE  Recovered = Store!Apply(Txn, Recovered)
  <1>1. card[fl.block] = fl.data /\ bb1 = fl.data
    BY DEF Unmark, Pages, Writing, Shape, Marks
  <1>2. Txn = [b \in {fl.block} |-> fl.data]
    BY PhaseFlushing DEF Unmark, Writing
  <1> QED BY <1>1, <1>2 DEF Recovered, Store!Apply

LEMMA StepRefines ==
  ASSUME Shape, Shape', Pages, Flags, [Next]_vars
  PROVE  [Store!Next]_(Store!hsVars)
  <1> USE DEF Store!hsVars
  <1>1. CASE UNCHANGED vars
    BY <1>1, NextRecovered DEF vars, Phase, Txn, Flushing, MetaBlock, Mark1
  <1>2. CASE PowerCut
    <2>1. Recovered' = Recovered
      BY <1>2, NextRecovered DEF PowerCut, Mark1
    <2>2. Phase' = "down" /\ Txn' = Store!NoUpdate
      BY <1>2 DEF PowerCut, Phase, Flushing, Txn, Store!NoUpdate
    <2> QED BY <2>1, <2>2 DEF Store!Next, Store!PowerCut
  <1>3. CASE Insert \/ RestoreErase \/ RestoreProgram \/ Clean
    <2>1. pc \in Down /\ pc' \in Down
      BY <1>3 DEF Insert, RestoreErase, RestoreProgram, Clean, Down
    <2>2. Recovered' = Recovered
      BY <2>1, NextRecovered DEF Mark1, Down
    <2>3. Phase' = Phase /\ Txn' = Txn
      BY <2>1 DEF Down, Phase, Flushing, Txn
    <2> QED BY <2>2, <2>3
  <1>4. CASE Found
    <2>1. Recovered' = Recovered
      BY <1>4, NextRecovered DEF Found, Mark1
    <2>2. Phase = "down" /\ Phase' = "idle" /\ Txn' = Txn
      BY <1>4 DEF Found, Phase, Flushing, Txn
    <2> QED BY <2>1, <2>2 DEF Store!Next, Store!Restart
  <1>5. CASE pc \in Between /\ pc' \in Between
    <2>1. Recovered' = Recovered
      BY <1>5, NextRecovered DEF Between, Mark1
    <2>2. Phase' = Phase /\ Txn' = Txn
      BY <1>5 DEF Between, Phase, Flushing, Txn
    <2> QED BY <2>1, <2>2
  <1>6. CASE Gather
    <2>1. Recovered' = Recovered
      BY <1>6, NextRecovered DEF Gather, Mark1
    <2>2. pc = "gather" /\ pc' \in {"backup", "erase"}
      BY <1>6 DEF Gather
    <2>3. Phase = "idle" /\ Txn = Store!NoUpdate
      BY <2>2, PhaseIdle DEF Between
    <2>4. CASE fl'.block \in MetaBlock
      <3>1. Phase' = "flushing" /\ Txn' = [b \in {fl'.block} |-> fl'.data]
        BY <2>2, <2>4 DEF Phase, Flushing, Txn, MetaBlock
      <3>2. fl'.data \in [Index -> Page]
        BY DEF Shape, TypeOK
      <3>3. Txn' \in [{fl'.block} -> [Index -> Page]] /\ {fl'.block} \in SUBSET MetaBlock
        BY <2>4, <3>1, <3>2
      <3>4. Txn' \in Store!Update
        BY <3>3 DEF Store!Update
      <3> QED BY <2>1, <2>3, <3>1, <3>4 DEF Store!Next, Store!Begin
    <2>5. CASE fl'.block \notin MetaBlock
      <3>1. Phase' = "idle" /\ Txn' = Store!NoUpdate
        BY <2>2, <2>5 DEF Phase, Flushing, Txn, MetaBlock, Store!NoUpdate
      <3> QED BY <2>1, <2>3, <3>1
    <2> QED BY <2>4, <2>5
  <1>7. CASE Mark1 /\ fl.block \in MetaBlock
    <2>1. Phase' = Phase /\ Txn' = Txn
      BY <1>7, PhaseSame DEF Mark1, Saving, Writing
    <2>2. Phase = "flushing"
      BY <1>7, PhaseFlushing DEF Mark1, Saving
    <2> QED BY <1>7, <2>1, <2>2, CommitStep DEF Store!Next, Store!Commit
  <1>8. CASE Backup \/ Mark0 \/ Copy \/ Erase \/ (Mark1 /\ fl.block \notin MetaBlock)
    <2>1. Recovered' = Recovered
      BY <1>8, NextRecovered DEF Backup, Mark0, Copy, Erase, Mark1
    <2>2. fl'.block = fl.block /\ fl'.data = fl.data
      BY <1>8 DEF Backup, Mark0, Copy, Erase, Mark1, Shape, TypeOK
    <2>3. pc \in Saving \cup Writing /\ pc' \in Saving \cup Writing
      BY <1>8 DEF Backup, Mark0, Copy, Erase, Mark1, Saving, Writing
    <2> QED BY <2>1, <2>2, <2>3, PhaseSame
  <1>9. CASE Program
    <2>1. Recovered' = Recovered
      BY <1>9, NextRecovered DEF Program, Mark1
    <2>2. CASE pc' \in {"program", "unmark"}
      <3>1. fl'.block = fl.block /\ fl'.data = fl.data
        BY <1>9, <2>2 DEF Program, AfterFlush, Shape, TypeOK
      <3> QED BY <1>9, <2>1, <2>2, <3>1, PhaseSame DEF Program, Writing
    <2>3. CASE pc' \notin {"program", "unmark"}
      <3>1. pc = "program" /\ pc' \in {"next", "load"} /\ fl.block \notin MetaBlock
        BY <1>9, <2>3 DEF Program, AfterFlush, Flags
      <3>2. Phase = "idle" /\ Txn = Store!NoUpdate
        BY <3>1, PhaseIdle DEF Writing
      <3>3. Phase' = "idle" /\ Txn' = Store!NoUpdate
        BY <3>1 DEF Phase, Flushing, Txn, Store!NoUpdate
      <3> QED BY <2>1, <3>2, <3>3
    <2> QED BY <2>2, <2>3
  <1>10. CASE Unmark
    <2>1. Recovered' = Recovered
      BY <1>10, NextRecovered DEF Unmark, Mark1
    <2>2. Phase' = "idle" /\ Txn' = Store!NoUpdate
      BY <1>10 DEF Unmark, AfterFlush, Phase, Flushing, Txn, Store!NoUpdate
    <2>3. CASE fl.block \in MetaBlock
      <3>1. Phase = "flushing"
        BY <1>10, <2>3, PhaseFlushing DEF Unmark, Writing
      <3> QED BY <1>10, <2>1, <2>2, <2>3, <3>1, EndStep DEF Store!Next, Store!End
    <2>4. CASE fl.block \notin MetaBlock
      <3>1. Phase = "idle" /\ Txn = Store!NoUpdate
        BY <1>10, <2>4, PhaseIdle DEF Unmark, Writing
      <3> QED BY <2>1, <2>2, <3>1
    <2> QED BY <2>3, <2>4
  <1>11. ASSUME NEW k \in Requests, Hit(k) \/ Miss(k) PROVE [Store!Next]_(Store!hsVars)
    BY <1>5, <1>11 DEF Hit, Miss, Between
  <1>12. CASE FlushNext \/ Load \/ ReadFails \/ McFlush
    BY <1>5, <1>12 DEF FlushNext, Load, ReadFails, McFlush, Between
  <1> QED BY <1>1, <1>2, <1>3, <1>4, <1>6, <1>7, <1>8, <1>9, <1>10, <1>11, <1>12
          DEF Next, Step, Flush, Restore

LEMMA AlwaysFlags == Spec => [](Shape /\ Pages /\ Flags)
  <1>1. Init => Shape /\ Pages /\ Flags
    BY InitShape, InitPages, InitFlags
  <1>2. Shape /\ Pages /\ Flags /\ [Next]_vars => (Shape /\ Pages /\ Flags)'
    BY NextShape, NextPagesInv, NextFlags
  <1> QED BY <1>1, <1>2, PTL DEF Spec

(* A block of the FAT or of directories reaches the card all at once: with *)
(* any number of blocks, clusters and cache entries, whatever the step of  *)
(* mcman_flushcacheentry or mcman_checkBackupBlocks that a loss of power   *)
(* interrupts, and however often, the card that is found afterwards has    *)
(* each such block as it was before a flush or as it is after it.          *)
THEOREM FlushAllOrNothing == Spec => CardStoreSpec
  <1>1. Init => Store!Init
    <2> SUFFICES ASSUME Init PROVE Store!Init  OBVIOUS
    <2>1. Shape  BY InitShape
    <2>2. pc = "out"  BY DEF Init
    <2>3. Phase = "down" /\ Txn = Store!NoUpdate
      BY <2>2, PhaseDown DEF Down
    <2>4. Recovered \in [MetaBlock -> [Index -> Page]]
      BY <2>1 DEF Recovered, MetaBlock, Shape, TypeOK
    <2> QED BY <2>3, <2>4 DEF Store!Init
  <1>2. (Shape /\ Pages /\ Flags) /\ (Shape /\ Pages /\ Flags)' /\ [Next]_vars
          => [Store!Next]_(Store!hsVars)
    BY StepRefines
  <1> QED BY <1>1, <1>2, AlwaysFlags, PTL DEF Spec, CardStoreSpec, Store!Spec

-----------------------------------------------------------------------------
(* No cluster is cached twice, and the entry to be replaced is clean when  *)
(* it is.                                                                  *)
LEMMA NoneCached == ASSUME \A k \in 1 .. NCache : cache[k] = NoEntry
                    PROVE  \A k \in 1 .. NCache : cache[k].cl \notin Cluster
  BY CardAssumption DEF NoEntry

LEMMA InitOnce == Init => Once /\ Replacing
  <1> SUFFICES ASSUME Init PROVE Once /\ Replacing  OBVIOUS
  <1>1. \A k \in 1 .. NCache : cache[k] = NoEntry  BY DEF Init
  <1> QED BY <1>1, NoneCached DEF Init, Once, Replacing, Saving, Writing

(* An entry that is used keeps its cluster.                                *)
LEMMA HitEntry ==
  ASSUME TypeOK, NEW k \in Requests, NEW n \in Slots(k.cl), NEW m \in 1 .. NCache,
         cache' = MoveToFront(n, Used(cache[n], k))
  PROVE  /\ n \in 1 .. NCache /\ cache[n].cl = k.cl /\ Old(n, m) \in 1 .. NCache
         /\ cache'[m].cl = cache[Old(n, m)].cl
         /\ m # 1 => Old(n, m) # n /\ cache'[m] = cache[Old(n, m)]
         /\ Old(n, m) = n => m = 1
         /\ cache'[1] = Used(cache[n], k) /\ cache[n] \in Entry
  <1>1. n \in 1 .. NCache /\ cache[n].cl = k.cl  BY DEF Slots
  <1>2. cache[n] \in Entry  BY <1>1 DEF TypeOK
  <1>3. Used(cache[n], k).cl = cache[n].cl  BY <1>2, UsedType
  <1>4. /\ Old(n, m) \in 1 .. NCache /\ (Old(n, m) = n <=> m = 1)
        /\ cache'[m] = IF m = 1 THEN Used(cache[n], k) ELSE cache[Old(n, m)]
    BY <1>1, MovedFrom
  <1>5. 1 \in 1 .. NCache  BY IndexNat
  <1>6. cache'[1] = Used(cache[n], k)  BY <1>1, <1>5, MovedFrom
  <1> QED BY <1>1, <1>2, <1>3, <1>4, <1>6

Fetched == [cl |-> call.cl, data |-> card[call.cl[1]][call.cl[2]], wr |-> FALSE, rd |-> FALSE]

LEMMA LoadEntry ==
  ASSUME TypeOK, Control, Load, NEW m \in 1 .. NCache
  PROVE  /\ Fetched \in Entry /\ call \in Requests /\ call.cl \in Cluster
         /\ cache'[1] = Used(Fetched, call) /\ cache'[1].cl = call.cl
         /\ Old(NCache, m) \in 1 .. NCache
         /\ m # 1 => Old(NCache, m) # NCache /\ cache'[m] = cache[Old(NCache, m)]
         /\ Old(NCache, m) = NCache => m = 1
  <1>1. call \in Requests /\ call.cl \in Cluster  BY DEF Load, Control, Requests
  <1>2. Fetched \in Entry /\ Fetched.cl = call.cl
    BY <1>1 DEF Fetched, Entry, Cluster, TypeOK
  <1>3. cache' = MoveToFront(NCache, Used(Fetched, call))  BY DEF Load, Fetched
  <1>4. Used(Fetched, call).cl = call.cl  BY <1>1, <1>2, UsedType
  <1>5. 1 \in 1 .. NCache /\ NCache \in 1 .. NCache  BY IndexNat
  <1>6. cache'[1] = Used(Fetched, call)
    BY <1>3, <1>5, MovedFrom
  <1>7. /\ Old(NCache, m) \in 1 .. NCache /\ (Old(NCache, m) = NCache <=> m = 1)
        /\ cache'[m] = IF m = 1 THEN Used(Fetched, call) ELSE cache[Old(NCache, m)]
    BY <1>3, <1>5, MovedFrom
  <1> QED BY <1>1, <1>2, <1>4, <1>6, <1>7

LEMMA SameClusters ==
  ASSUME Once, \A k \in 1 .. NCache : cache'[k].cl = cache[k].cl
  PROVE  Once'
  BY DEF Once

LEMMA CleanedClusters ==
  ASSUME Shape, Program
  PROVE  /\ fl.block \in Block
         /\ \A k \in 1 .. NCache : /\ cache'[k].cl = cache[k].cl /\ cache'[k].data = cache[k].data
                                   /\ cache'[k].wr => cache[k].wr
         /\ fl.todo = {NextProgrammed} => \A k \in 1 .. NCache :
               cache'[k].wr <=> cache[k].wr /\ ~ \E i \in Index : cache[k].cl = <<fl.block, i>>
  <1>1. fl.block \in Block  BY DEF Program, Shape, Control, Writing
  <1>2. \A k \in 1 .. NCache : cache[k] \in Entry  BY DEF Shape, TypeOK
  <1>3. CASE fl.todo = {NextProgrammed}
    <2>1. cache' = Cleaned(fl.block)  BY <1>3 DEF Program
    <2>2. ASSUME NEW k \in 1 .. NCache
          PROVE  cache'[k] = IF \E i \in Index : cache[k].cl = <<fl.block, i>>
                             THEN [cache[k] EXCEPT !.wr = FALSE] ELSE cache[k]
      BY <2>1 DEF Cleaned
    <2> QED BY <1>1, <1>2, <2>2 DEF Entry
  <1>4. CASE fl.todo # {NextProgrammed}
    BY <1>1, <1>4 DEF Program
  <1> QED BY <1>3, <1>4

LEMMA NextOnce == ASSUME Shape, Once, Replacing, [Next]_vars PROVE Once'
  <1>1. CASE UNCHANGED cache
    BY <1>1 DEF Once
  <1>2. CASE PowerCut \/ ReadFails
    <2>1. \A k \in 1 .. NCache : cache'[k].cl \notin Cluster
      BY <1>2, CardAssumption DEF PowerCut, ReadFails, NoEntry
    <2> QED BY <2>1 DEF Once
  <1>3. ASSUME NEW k \in Requests, Hit(k) PROVE Once'
    <2>1. PICK n \in Slots(k.cl) : cache' = MoveToFront(n, Used(cache[n], k))
      BY <1>3 DEF Hit
    <2>2. SUFFICES ASSUME NEW m \in 1 .. NCache, NEW o \in 1 .. NCache,
                          cache'[m].cl \in Cluster, cache'[m].cl = cache'[o].cl
                   PROVE  m = o
      BY DEF Once
    <2>3. Old(n, m) \in 1 .. NCache /\ cache'[m].cl = cache[Old(n, m)].cl /\ n \in 1 .. NCache
      BY <2>1, HitEntry DEF Shape
    <2>4. Old(n, o) \in 1 .. NCache /\ cache'[o].cl = cache[Old(n, o)].cl
      BY <2>1, HitEntry DEF Shape
    <2>5. Old(n, m) = Old(n, o)
      BY <2>2, <2>3, <2>4 DEF Once
    <2> QED BY <2>3, <2>5, OldOneToOne
  <1>4. CASE Load
    <2>2. SUFFICES ASSUME NEW m \in 1 .. NCache, NEW o \in 1 .. NCache,
                          cache'[m].cl \in Cluster, cache'[m].cl = cache'[o].cl
                   PROVE  m = o
      BY DEF Once
    <2>3. \A l \in 1 .. NCache : cache[l].cl # call.cl
      BY <1>4, LoadEntry DEF Replacing, Load, Shape, Requests
    <2>4. /\ Old(NCache, m) \in 1 .. NCache
          /\ m # 1 => cache'[m] = cache[Old(NCache, m)] /\ cache'[m].cl # call.cl
          /\ m = 1 => cache'[m].cl = call.cl
      BY <1>4, <2>3, LoadEntry DEF Shape
    <2>5. /\ Old(NCache, o) \in 1 .. NCache
          /\ o # 1 => cache'[o] = cache[Old(NCache, o)] /\ cache'[o].cl # call.cl
          /\ o = 1 => cache'[o].cl = call.cl
      BY <1>4, <2>3, LoadEntry DEF Shape
    <2>6. CASE m # 1 /\ o # 1
      <3>1. Old(NCache, m) = Old(NCache, o)
        BY <2>2, <2>4, <2>5, <2>6 DEF Once
      <3> QED BY <3>1, IndexNat, OldOneToOne
    <2> QED BY <2>2, <2>4, <2>5, <2>6
  <1>5. CASE Program
    BY <1>5, CleanedClusters, SameClusters
  <1>6. CASE Restore
    BY <1>1, <1>6 DEF Restore, Insert, RestoreErase, RestoreProgram, Clean, Found
  <1>7. CASE Gather \/ Backup \/ Mark0 \/ Copy \/ Mark1 \/ Erase \/ Unmark \/ FlushNext \/ McFlush
    BY <1>1, <1>7 DEF Gather, Backup, Mark0, Copy, Mark1, Erase, Unmark, FlushNext, McFlush
  <1>8. ASSUME NEW k \in Requests, Miss(k) PROVE Once'
    BY <1>1, <1>8 DEF Miss
  <1>9. CASE UNCHANGED vars
    BY <1>1, <1>9 DEF vars
  <1> QED BY <1>2, <1>3, <1>4, <1>5, <1>6, <1>7, <1>8, <1>9 DEF Next, Step, Flush

LEMMA NextReplacing == ASSUME Shape, Replacing, [Next]_vars PROVE Replacing'
  <1> USE DEF Saving, Writing
  <1>1. CASE UNCHANGED vars
    BY <1>1 DEF vars, Replacing
  <1>2. CASE PowerCut \/ ReadFails \/ McFlush
    BY <1>2 DEF PowerCut, ReadFails, McFlush, Replacing
  <1>3. CASE Restore
    BY <1>3 DEF Restore, Insert, RestoreErase, RestoreProgram, Clean, Found, Replacing
  <1>4. ASSUME NEW k \in Requests, Hit(k) PROVE Replacing'
    BY <1>4 DEF Hit, Replacing
  <1>5. ASSUME NEW k \in Requests, Miss(k) PROVE Replacing'
    BY <1>5 DEF Miss, Slots, Replacing
  <1>6. CASE Load
    BY <1>6 DEF Load, Replacing
  <1>7. CASE FlushNext
    BY <1>7 DEF FlushNext, Replacing, Shape, Control
  <1>8. CASE Gather
    <2> DEFINE b == cache[Flushed].cl[1]
    <2>1. cache[Flushed].cl \in Cluster  BY <1>8, GatherBlock DEF Gather
    <2>2. PICK i \in Index : cache[Flushed].cl = <<b, i>>  BY <2>1 DEF Cluster
    <2>3. call.op # "flush" => cache[NCache].cl = <<b, i>>  BY <2>2 DEF Flushed
    <2>4. fl'.block = b /\ cache' = cache /\ call' = call /\ pc = "gather" /\ pc' \in {"backup", "erase"}
      BY <1>8 DEF Gather
    <2> QED BY <2>3, <2>4 DEF Replacing
  <1>9. CASE Backup \/ Mark0 \/ Copy \/ Mark1 \/ Erase
    BY <1>9 DEF Backup, Mark0, Copy, Mark1, Erase, Replacing, Shape, TypeOK
  <1>10. CASE Program
    <2>1. \A k \in 1 .. NCache : cache'[k].cl = cache[k].cl
      BY <1>10, CleanedClusters
    <2>2. CASE fl.todo # {NextProgrammed}
      BY <1>10, <2>2 DEF Program, Replacing, Shape, TypeOK
    <2>3. CASE fl.todo = {NextProgrammed}
      <3>1. call.op # "flush" => ~cache'[NCache].wr
        BY <1>10, <2>3, CleanedClusters, IndexNat DEF Replacing, Program
      <3>2. pc' = "unmark" \/ (pc' = "load" /\ call.op # "flush") \/ pc' = "next"
        BY <1>10, <2>3 DEF Program, AfterFlush
      <3> QED BY <1>10, <2>1, <3>1, <3>2 DEF Program, Replacing
    <2> QED BY <2>2, <2>3
  <1>11. CASE Unmark
    BY <1>11 DEF Unmark, AfterFlush, Replacing
  <1> QED BY <1>1, <1>2, <1>3, <1>4, <1>5, <1>6, <1>7, <1>8, <1>9, <1>10, <1>11
          DEF Next, Step, Flush

-----------------------------------------------------------------------------
(* The cache and the card hold what the program wrote.                     *)
LEMMA WantedAt ==
  ASSUME TypeOK, NEW k \in Requests, NEW c \in Cluster
  PROVE  Wanted(k)[c] = IF k.op = "write" /\ c = k.cl THEN k.val ELSE want[c]
  BY DEF Wanted, TypeOK, Requests

LEMMA InitData == Init => Data
  BY DEF Init, Data, CacheCurrent, CardCurrent, BlockCurrent, Down, Saving, Writing

LEMMA EmptyData ==
  ASSUME want' = OnCard, card' = card, pc' = "ready",
         \A k \in 1 .. NCache : cache'[k] = NoEntry
  PROVE  Data'
  <1>1. \A k \in 1 .. NCache : cache'[k].cl \notin Cluster
    BY CardAssumption DEF NoEntry
  <1>2. \A c \in Cluster : want'[c] = card'[c[1]][c[2]]
    BY DEF OnCard
  <1> QED BY <1>1, <1>2 DEF Data, CacheCurrent, CardCurrent, BlockCurrent, Settled, Saving, Writing

LEMMA HitData ==
  ASSUME Shape, Once, Data, NEW k \in Requests, Hit(k)
  PROVE  Data'
  <1>1. PICK n \in Slots(k.cl) : cache' = MoveToFront(n, Used(cache[n], k))
    BY DEF Hit
  <1>2. /\ pc = "ready" /\ pc' = "ready" /\ card' = card /\ k.cl \in Cluster
        /\ want' = Wanted(k)
    BY DEF Hit, Requests
  <1>3. n \in 1 .. NCache /\ cache[n].cl = k.cl  BY DEF Slots
  <1>4. CacheCurrent'
    <2> SUFFICES ASSUME NEW m \in 1 .. NCache, cache'[m].cl \in Cluster
                 PROVE  cache'[m].data = want'[cache'[m].cl]
      BY DEF CacheCurrent
    <2>1. CASE m = 1
      <3>1. /\ cache'[m] = Used(cache[n], k) /\ cache[n] \in Entry /\ cache'[m].cl = k.cl
        BY <1>1, <2>1, HitEntry, UsedType DEF Shape
      <3>2. cache'[m].data = IF k.op = "write" THEN k.val ELSE cache[n].data
        BY <3>1 DEF Used, Entry
      <3>3. cache[n].data = want[k.cl]
        BY <1>2, <1>3 DEF Data, CacheCurrent, Down
      <3>4. want'[k.cl] = IF k.op = "write" THEN k.val ELSE want[k.cl]
        BY <1>2, WantedAt DEF Shape
      <3> QED BY <3>1, <3>2, <3>3, <3>4
    <2>2. CASE m # 1
      <3>1. /\ Old(n, m) \in 1 .. NCache /\ Old(n, m) # n /\ cache'[m] = cache[Old(n, m)]
        BY <1>1, <2>2, HitEntry DEF Shape
      <3>2. cache[Old(n, m)].cl # k.cl
        BY <1>2, <1>3, <3>1 DEF Once
      <3>3. cache'[m].data = want[cache'[m].cl]
        BY <1>2, <3>1 DEF Data, CacheCurrent, Down
      <3>4. want'[cache'[m].cl] = want[cache'[m].cl]
        BY <1>2, <3>1, <3>2, WantedAt DEF Shape
      <3> QED BY <3>3, <3>4
    <2> QED BY <2>1, <2>2
  <1>5. CardCurrent'
    <2> SUFFICES ASSUME NEW c \in Cluster, ~Written(c)'
                 PROVE  Settled(c)'
      BY DEF CardCurrent
    <2>1. 1 \in 1 .. NCache  BY IndexNat
    <2>2. cache'[1] = Used(cache[n], k) /\ cache[n] \in Entry /\ cache'[1].cl = k.cl
      BY <1>1, <2>1, HitEntry, UsedType DEF Shape
    <2>3. c = k.cl => ~cache[n].wr /\ k.op # "write"
      <3> SUFFICES ASSUME c = k.cl PROVE ~cache[n].wr /\ k.op # "write"  OBVIOUS
      <3>1. ~cache'[1].wr  BY <2>1, <2>2 DEF Written
      <3> QED BY <2>2, <3>1 DEF Used, Entry
    <2>4. ~Written(c)
      <3> SUFFICES ASSUME NEW l \in 1 .. NCache, cache[l].cl = c PROVE ~cache[l].wr
        BY DEF Written
      <3>1. PICK m \in 1 .. NCache : Old(n, m) = l  BY <1>3, OldOnto
      <3>2. CASE m = 1
        BY <1>1, <1>3, <2>3, <3>1, <3>2, HitEntry, MovedFrom DEF Shape
      <3>3. CASE m # 1
        <4>1. cache'[m] = cache[l]  BY <1>1, <3>1, <3>3, HitEntry DEF Shape
        <4> QED BY <4>1 DEF Written
      <3> QED BY <3>2, <3>3
    <2>5. card[c[1]][c[2]] = want[c]
      BY <1>2, <2>4 DEF Data, CardCurrent, Settled, Down
    <2>6. want'[c] = want[c]
      BY <1>2, <2>3, WantedAt DEF Shape
    <2> QED BY <1>2, <2>5, <2>6 DEF Settled
  <1> QED BY <1>2, <1>4, <1>5 DEF Data, BlockCurrent, Saving, Writing

LEMMA LoadData ==
  ASSUME Shape, Once, Replacing, Data, Load
  PROVE  Data'
  <1>1. /\ pc = "load" /\ pc' = "ready" /\ card' = card /\ want' = Wanted(call)
    BY DEF Load
  <1>2. 1 \in 1 .. NCache /\ NCache \in 1 .. NCache  BY IndexNat
  <1>3. /\ call \in Requests /\ call.cl \in Cluster /\ Fetched \in Entry
        /\ cache'[1] = Used(Fetched, call) /\ cache'[1].cl = call.cl
    BY <1>2, LoadEntry DEF Shape
  <1>4. /\ \A l \in 1 .. NCache : cache[l].cl # call.cl
        /\ ~cache[NCache].wr
    BY <1>1, <1>3 DEF Replacing, Requests
  <1>5. \A c \in Cluster : Written(c) \/ card[c[1]][c[2]] = want[c]
    BY <1>1 DEF Data, CardCurrent, Settled, Down
  <1>6. CacheCurrent'
    <2> SUFFICES ASSUME NEW m \in 1 .. NCache, cache'[m].cl \in Cluster
                 PROVE  cache'[m].data = want'[cache'[m].cl]
      BY DEF CacheCurrent
    <2>1. CASE m = 1
      <3>1. cache'[m].data = IF call.op = "write" THEN call.val ELSE Fetched.data
        BY <1>3, <2>1 DEF Used, Entry
      <3>2. Fetched.data = want[call.cl]
        BY <1>3, <1>4, <1>5 DEF Fetched, Written
      <3>3. want'[call.cl] = IF call.op = "write" THEN call.val ELSE want[call.cl]
        BY <1>1, <1>3, WantedAt DEF Shape
      <3> QED BY <1>3, <2>1, <3>1, <3>2, <3>3
    <2>2. CASE m # 1
      <3>1. Old(NCache, m) \in 1 .. NCache /\ cache'[m] = cache[Old(NCache, m)]
        BY <2>2, LoadEntry DEF Shape
      <3>2. cache'[m].data = want[cache'[m].cl]
        BY <1>1, <3>1 DEF Data, CacheCurrent, Down
      <3>3. want'[cache'[m].cl] = want[cache'[m].cl]
        BY <1>1, <1>3, <1>4, <3>1, WantedAt DEF Shape
      <3> QED BY <3>2, <3>3
    <2> QED BY <2>1, <2>2
  <1>7. CardCurrent'
    <2> SUFFICES ASSUME NEW c \in Cluster, ~Written(c)'
                 PROVE  Settled(c)'
      BY DEF CardCurrent
    <2>1. c = call.cl => call.op # "write"
      <3> SUFFICES ASSUME c = call.cl PROVE call.op # "write"  OBVIOUS
      <3>1. ~cache'[1].wr  BY <1>2, <1>3 DEF Written
      <3> QED BY <1>3, <3>1 DEF Used, Entry
    <2>2. ~Written(c)
      <3> SUFFICES ASSUME NEW l \in 1 .. NCache, cache[l].cl = c PROVE ~cache[l].wr
        BY DEF Written
      <3>1. PICK m \in 1 .. NCache : Old(NCache, m) = l  BY <1>2, OldOnto
      <3>2. CASE l = NCache
        BY <1>4, <3>2
      <3>3. CASE l # NCache
        <4>1. m # 1  BY <3>1, <3>3 DEF Old
        <4>2. cache'[m] = cache[l]  BY <3>1, <4>1, LoadEntry DEF Shape
        <4> QED BY <4>2 DEF Written
      <3> QED BY <3>2, <3>3
    <2>3. want'[c] = want[c]
      BY <1>1, <1>3, <2>1, WantedAt DEF Shape
    <2> QED BY <1>1, <1>5, <2>2, <2>3 DEF Settled
  <1> QED BY <1>1, <1>6, <1>7 DEF Data, BlockCurrent, Saving, Writing

LEMMA GatherData ==
  ASSUME Shape, Data, Gather
  PROVE  Data'
  <1> DEFINE b == cache[Flushed].cl[1]
  <1>1. /\ pc = "gather" /\ pc' \in {"backup", "erase"} /\ fl'.block = b /\ fl'.data = NewContent(b)
        /\ cache' = cache /\ card' = card /\ want' = want
    BY DEF Gather
  <1>2. cache[Flushed].cl \in Cluster  BY GatherBlock DEF Gather
  <1>3. b \in Block  BY <1>2 DEF Cluster
  <1> HIDE DEF b
  <1>4. ASSUME NEW i \in Index PROVE NewContent(b)[i] = want[<<b, i>>]
    <2>0. <<b, i>> \in Cluster  BY <1>3 DEF Cluster
    <2>1. CASE i \in CachedOf(b)
      <3> DEFINE k == CHOOSE j \in Slots(<<b, i>>) : TRUE
      <3>1. k \in Slots(<<b, i>>)  BY <2>1 DEF CachedOf
      <3>2. NewContent(b)[i] = cache[k].data  BY <2>1 DEF NewContent
      <3> HIDE DEF k
      <3>3. k \in 1 .. NCache /\ cache[k].cl = <<b, i>>  BY <3>1 DEF Slots
      <3> QED BY <1>1, <2>0, <3>2, <3>3 DEF Data, CacheCurrent, Down
    <2>2. CASE i \notin CachedOf(b)
      <3>1. ~Written(<<b, i>>)  BY <2>2 DEF CachedOf, Slots, Written
      <3>2. card[b][i] = want[<<b, i>>]
        BY <1>1, <2>0, <3>1 DEF Data, CardCurrent, Settled, Down
      <3> QED BY <2>2, <3>2 DEF NewContent
    <2> QED BY <2>1, <2>2
  <1>5. BlockCurrent'
    BY <1>1, <1>4 DEF BlockCurrent
  <1>6. CacheCurrent'
    BY <1>1 DEF Data, CacheCurrent, Down
  <1>7. CardCurrent'
    BY <1>1 DEF Data, CardCurrent, Written, Settled, Down
  <1> QED BY <1>5, <1>6, <1>7 DEF Data

LEMMA ProgramData ==
  ASSUME Shape, Pages, Data, Program
  PROVE  Data'
  <1>1. /\ pc = "program" /\ want' = want /\ pc' \in {"program", "unmark", "next", "load"}
        /\ fl.block \in Block
    BY CleanedClusters DEF Program, AfterFlush
  <1>2. \A b \in Block \ {fl.block} : card'[b] = card[b]
    BY DEF Program, Shape, TypeOK
  <1>3. \A k \in 1 .. NCache : /\ cache'[k].cl = cache[k].cl /\ cache'[k].data = cache[k].data
                               /\ cache'[k].wr => cache[k].wr
    BY CleanedClusters
  <1>4. CacheCurrent'
    BY <1>1, <1>3 DEF Data, CacheCurrent, Down
  <1>5. BlockCurrent'
    <2>1. pc' \in {"program", "unmark"} => fl'.block = fl.block /\ fl'.data = fl.data
      BY DEF Program, AfterFlush, Shape, TypeOK
    <2> QED BY <1>1, <2>1 DEF Data, BlockCurrent, Saving, Writing
  <1>6. CardCurrent'
    <2> SUFFICES ASSUME NEW c \in Cluster, ~Written(c)' PROVE Settled(c)'
      BY DEF CardCurrent
    <2>1. PICK b \in Block, i \in Index : c = <<b, i>>  BY DEF Cluster
    <2>2. CASE fl.todo # {NextProgrammed}
      <3>1. pc' = "program" /\ fl'.block = fl.block /\ cache' = cache
        BY <2>2 DEF Program, Shape, TypeOK
      <3>2. Settled(c)
        BY <1>1, <3>1 DEF Data, CardCurrent, Written, Down
      <3> QED BY <1>1, <1>2, <2>1, <3>1, <3>2 DEF Settled
    <2>3. CASE fl.todo = {NextProgrammed} /\ b # fl.block
      <3>1. ~Written(c)
        BY <2>1, <2>3, CleanedClusters DEF Written
      <3>2. card[b][i] = want[c]
        BY <1>1, <2>1, <2>3, <3>1 DEF Data, CardCurrent, Settled, Down
      <3> QED BY <1>1, <1>2, <2>1, <2>3, <3>2 DEF Settled
    <2>4. CASE fl.todo = {NextProgrammed} /\ b = fl.block
      <3>1. /\ Partly(card[fl.block], fl.todo, fl.data)
            /\ card[fl.block] \in [Index -> Page]
        BY <1>1 DEF Pages, Shape, TypeOK
      <3>2. card'[fl.block] = [card[fl.block] EXCEPT ![NextProgrammed] =
                                 Programmed(card[fl.block][NextProgrammed], fl.data[NextProgrammed])]
        BY <1>1 DEF Program, Shape, TypeOK
      <3>3. card'[fl.block][i] = fl.data[i]
        BY <2>4, <3>1, <3>2 DEF Partly, Programmed
      <3>4. fl.data[i] = want[<<fl.block, i>>]
        BY <1>1 DEF Data, BlockCurrent, Writing
      <3> QED BY <1>1, <2>1, <2>4, <3>3, <3>4 DEF Settled
    <2> QED BY <2>2, <2>3, <2>4
  <1> QED BY <1>4, <1>5, <1>6 DEF Data

LEMMA NextData == ASSUME Shape, Pages, Once, Replacing, Data, [Next]_vars PROVE Data'
  <1>1. CASE UNCHANGED vars
    BY <1>1 DEF vars, Data, CacheCurrent, CardCurrent, BlockCurrent, Written, Settled
  <1>2. CASE PowerCut \/ Insert \/ RestoreErase \/ RestoreProgram \/ Clean
    <2>1. pc' \in Down
      BY <1>2 DEF PowerCut, Insert, RestoreErase, RestoreProgram, Clean, Down
    <2> QED BY <2>1 DEF Data, CacheCurrent, CardCurrent, BlockCurrent, Down, Saving, Writing
  <1>3. CASE Found
    BY <1>3, EmptyData DEF Found, Shape, Control, Down
  <1>4. CASE ReadFails
    BY <1>4, EmptyData DEF ReadFails
  <1>5. ASSUME NEW k \in Requests, Hit(k) PROVE Data'
    BY <1>5, HitData
  <1>6. ASSUME NEW k \in Requests, Miss(k) PROVE Data'
    BY <1>6 DEF Miss, Data, CacheCurrent, CardCurrent, BlockCurrent, Written, Settled,
                Down, Saving, Writing
  <1>7. CASE Load  BY <1>7, LoadData
  <1>8. CASE McFlush \/ FlushNext
    BY <1>8 DEF McFlush, FlushNext, Data, CacheCurrent, CardCurrent, BlockCurrent, Written, Settled,
                Down, Saving, Writing
  <1>9. CASE Gather  BY <1>9, GatherData
  <1>10. CASE Backup \/ Mark0 \/ Copy \/ Mark1
    <2>1. /\ fl'.block = fl.block /\ fl'.data = fl.data /\ cache' = cache /\ card' = card
          /\ want' = want /\ pc \in Saving /\ pc' \in Saving \cup {"erase"}
      BY <1>10 DEF Backup, Mark0, Copy, Mark1, Saving, Shape, TypeOK
    <2>2. BlockCurrent'
      BY <2>1 DEF Data, BlockCurrent
    <2>3. CacheCurrent' /\ CardCurrent'
      BY <2>1 DEF Data, CacheCurrent, CardCurrent, Written, Settled, Down, Saving
    <2> QED BY <2>2, <2>3 DEF Data
  <1>11. CASE Erase
    <2>1. /\ fl'.block = fl.block /\ fl'.data = fl.data /\ cache' = cache
          /\ want' = want /\ pc = "erase" /\ pc' = "program"
          /\ \A b \in Block \ {fl.block} : card'[b] = card[b]
      BY <1>11 DEF Erase, Shape, TypeOK
    <2>2. BlockCurrent' /\ CacheCurrent'
      BY <2>1 DEF Data, BlockCurrent, CacheCurrent, Down, Writing
    <2>3. CardCurrent'
      BY <2>1 DEF Data, CardCurrent, Written, Settled, Down, Cluster
    <2> QED BY <2>2, <2>3 DEF Data
  <1>12. CASE Program  BY <1>12, ProgramData
  <1>13. CASE Unmark
    <2>1. /\ cache' = cache /\ card' = card /\ want' = want /\ pc = "unmark" /\ pc' \in {"next", "load"}
      BY <1>13 DEF Unmark, AfterFlush
    <2> QED BY <2>1 DEF Data, CacheCurrent, CardCurrent, BlockCurrent, Written, Settled,
                        Down, Saving, Writing
  <1> QED BY <1>1, <1>2, <1>3, <1>4, <1>5, <1>6, <1>7, <1>8, <1>9, <1>10, <1>11, <1>12, <1>13
          DEF Next, Step, Flush, Restore

CInv == Shape /\ Pages /\ Once /\ Replacing /\ Data

LEMMA AlwaysCInv == Spec => []CInv
  <1>1. Init => CInv
    BY InitShape, InitPages, InitOnce, InitData DEF CInv
  <1>2. CInv /\ [Next]_vars => CInv'
    BY NextShape, NextPagesInv, NextOnce, NextReplacing, NextData DEF CInv
  <1> QED BY <1>1, <1>2, PTL DEF Spec

(* Between calls every cluster reads as the program wrote it last, for any *)
(* number of cache entries: no eviction, no flush of a neighbour in the   *)
(* same block and no failed read makes the manager show an older cluster. *)
THEOREM CacheCoherent == Spec => []ReadsLast
  <1>1. CInv => ReadsLast
    <2> SUFFICES ASSUME CInv, pc = "ready", NEW c \in Cluster PROVE Visible(c) = {want[c]}
      BY DEF ReadsLast
    <2>1. CASE Slots(c) = {}
      <3>1. ~Written(c)  BY <2>1 DEF Slots, Written
      <3>2. card[c[1]][c[2]] = want[c]
        BY <3>1 DEF CInv, Data, CardCurrent, Settled, Down
      <3> QED BY <2>1, <3>2 DEF Visible
    <2>2. CASE Slots(c) # {}
      <3>1. \A k \in Slots(c) : cache[k].data = want[c]
        BY DEF Slots, CInv, Data, CacheCurrent, Down
      <3> QED BY <2>2, <3>1 DEF Visible
    <2> QED BY <2>1, <2>2
  <1> QED BY <1>1, AlwaysCInv, PTL

(* McFlush and McClose that return without an error leave on the card     *)
(* everything the program wrote, and no mark that would restore an older  *)
(* block later.                                                            *)
THEOREM FlushIsDurable == Spec => FlushDurable
  <1>1. CInv /\ [Next]_vars =>
          (pc = "next" /\ pc' = "ready" => OnCard = want /\ bb2 = [p \in 0 .. 1 |-> Erased])
    <2> SUFFICES ASSUME CInv, [Next]_vars, pc = "next", pc' = "ready"
                 PROVE  OnCard = want /\ bb2 = [p \in 0 .. 1 |-> Erased]
      OBVIOUS
    <2>1. FlushNext
      BY DEF Next, Step, Restore, Flush, Insert, RestoreErase, RestoreProgram, Clean, Found,
             Gather, Backup, Mark0, Copy, Mark1, Erase, Program, Unmark, FlushNext, Load,
             ReadFails, Hit, Miss, McFlush, PowerCut, vars
    <2>2. Dirty = {}  BY <2>1 DEF FlushNext
    <2>3. \A c \in Cluster : card[c[1]][c[2]] = want[c]
      BY <2>2 DEF Dirty, Written, CInv, Data, CardCurrent, Settled, Down
    <2>4. OnCard = want
      BY <2>3 DEF OnCard, CInv, Shape, TypeOK
    <2>5. bb2[0] = Erased /\ bb2[1] = Erased
      BY DEF CInv, Shape, Marks, Between
    <2>6. \A p \in 0 .. 1 : p = 0 \/ p = 1  OBVIOUS
    <2>7. bb2 = [p \in 0 .. 1 |-> Erased]
      BY <2>5, <2>6 DEF CInv, Shape, TypeOK
    <2> QED BY <2>4, <2>7
  <1> QED BY <1>1, AlwaysCInv, PTL DEF Spec, FlushDurable
=============================================================================
