------------------------------- MODULE McCard -------------------------------
(***************************************************************************)
(* The block cache of the memory card manager (memorycard/mcman/src) on a *)
(* PS2 card: mcman_readcluster, mcman_flushcacheentry and the recovery of *)
(* mcman_checkBackupBlocks when a card is inserted.                        *)
(*                                                                         *)
(* A cluster can only be written by erasing and programming its whole     *)
(* block.  The new block is first written to backup_block1, between the   *)
(* two pages of backup_block2 that name it; a card that comes back with   *)
(* both pages has its block written again.  The backup is made only when  *)
(* one of the block's cached clusters is not file data (rd_flag 0).       *)
(*                                                                         *)
(* The card (external) may lose its power or be pulled out at any step: a *)
(* page being programmed, or every page of a block being erased, is then  *)
(* Bad, which McReadPage sees by its ECC.  A cluster is one page here.    *)
(* Bad blocks and their replacement (FailReplace) are left out.           *)
(***************************************************************************)
EXTENDS Naturals

CONSTANTS Block,     \* blocks that hold clusters, without the two backup blocks
          NClusters, \* clusters_per_block
          Meta,      \* clusters of the FAT and of directories
          Val,       \* what a cluster may hold
          Erased, Bad, None,
          NCache,    \* MAX_CACHEENTRY (36)
          Faults     \* {"read"} if McReadPage may fail on a good page

Index == 1 .. NClusters
Cluster == Block \X Index
Page == Val \cup {Erased, Bad}

ASSUME CardAssumption ==
    /\ NClusters \in Nat \ {0} /\ NCache \in Nat \ {0}
    /\ Meta \subseteq Cluster
    /\ Erased # Bad /\ None \notin {Erased, Bad}
    /\ {Erased, Bad, None} \cap (Val \cup Block \cup Cluster) = {}
    /\ Faults \subseteq {"read"}

VARIABLES card,    \* the pages of each block
          bb1,     \* the pages of backup_block1
          bb2,     \* the first two pages of backup_block2: a block's number
          cache,   \* mcman_mccache: the entries, most recently used first
          call,    \* the call under way: its kind, cluster and value
          fl,      \* the flush or restore under way: block, new content, flag, pages to write
          pc,
          want     \* history: what the program last wrote, or found after a loss

cardVars == <<card, bb1, bb2>>
vars == <<card, bb1, bb2, cache, call, fl, pc, want>>

Entry == [cl : Cluster \cup {None}, data : Page, wr : BOOLEAN, rd : BOOLEAN]
NoEntry == [cl |-> None, data |-> Erased, wr |-> FALSE, rd |-> FALSE]
NoCall == [op |-> "none", cl |-> None, val |-> None]
NoFlush == [block |-> None, data |-> [i \in Index |-> Erased], flag |-> FALSE, cached |-> {}, todo |-> {}]

-----------------------------------------------------------------------------
(* mcman_eraseblock and McWritePage.  Programming only clears bits, so a  *)
(* page that was not erased is not readable afterwards.                    *)
ErasedBlock == [i \in Index |-> Erased]
Programmed(old, new) == IF old \in {Erased, new} THEN new ELSE Bad

First(S) == CHOOSE i \in S : \A j \in S : i <= j

(* The next page that a copy or a restore writes, and the next that a     *)
(* flush does: the clusters that are not cached first.                    *)
NextPage == First(fl.todo)
NextProgrammed == First(IF fl.todo \subseteq fl.cached THEN fl.todo ELSE fl.todo \ fl.cached)

(* What the card is left with when the power fails during the step at pc. *)
AllBad == [i \in Index |-> Bad]
Torn ==
    \/ /\ pc = "backup" /\ bb1' = AllBad
       /\ UNCHANGED <<card, bb2>>
    \/ /\ pc = "mark0" /\ bb2' = [bb2 EXCEPT ![0] = Bad]
       /\ UNCHANGED <<card, bb1>>
    \/ /\ pc = "copy" /\ bb1' = [bb1 EXCEPT ![NextPage] = Bad]
       /\ UNCHANGED <<card, bb2>>
    \/ /\ pc = "mark1" /\ bb2' = [bb2 EXCEPT ![1] = Bad]
       /\ UNCHANGED <<card, bb1>>
    \/ /\ pc \in {"erase", "rerase"} /\ card' = [card EXCEPT ![fl.block] = AllBad]
       /\ UNCHANGED <<bb1, bb2>>
    \/ /\ pc = "program" /\ card' = [card EXCEPT ![fl.block][NextProgrammed] = Bad]
       /\ UNCHANGED <<bb1, bb2>>
    \/ /\ pc = "reprogram" /\ card' = [card EXCEPT ![fl.block][NextPage] = Bad]
       /\ UNCHANGED <<bb1, bb2>>
    \/ /\ pc \in {"unmark", "clean"} /\ bb2' = [p \in 0 .. 1 |-> Bad]
       /\ UNCHANGED <<card, bb1>>

PowerCut ==
    /\ pc # "out"
    /\ Torn \/ UNCHANGED cardVars
    /\ cache' = [k \in 1 .. NCache |-> NoEntry]
    /\ call' = NoCall /\ fl' = NoFlush
    /\ pc' = "out"
    /\ UNCHANGED want

-----------------------------------------------------------------------------
(* A card is inserted: mcman_probePS2Card clears the cache and            *)
(* mcman_setdevinfos calls mcman_checkBackupBlocks, which reads the two   *)
(* marks.                                                                  *)
(* Mutant: the second mark is not looked at. *)
RestoreAtFirstMark == bb2[0] \notin {Erased, Bad}
RestoreNeeded == bb2[0] # Bad /\ bb2[1] \notin {Erased, Bad}

Insert ==
    /\ pc = "out"
    /\ IF RestoreNeeded
       THEN /\ fl' = [NoFlush EXCEPT !.block = bb2[0], !.data = bb1, !.todo = Index]
            /\ pc' = "rerase"
       ELSE /\ pc' = IF bb2 = [p \in 0 .. 1 |-> Erased] THEN "found" ELSE "clean"
            /\ UNCHANGED fl
    /\ UNCHANGED <<card, bb1, bb2, cache, call, want>>

RestoreErase ==
    /\ pc = "rerase"
    /\ card' = [card EXCEPT ![fl.block] = ErasedBlock]
    /\ pc' = "reprogram"
    /\ UNCHANGED <<bb1, bb2, cache, call, fl, want>>

RestoreProgram ==
    /\ pc = "reprogram"
    /\ card' = [card EXCEPT ![fl.block][NextPage] = Programmed(@, fl.data[NextPage])]
    /\ fl' = [fl EXCEPT !.todo = @ \ {NextPage}]
    /\ pc' = IF fl'.todo = {} THEN "clean" ELSE pc
    /\ UNCHANGED <<bb1, bb2, cache, call, want>>

Clean ==
    /\ pc = "clean"
    /\ bb2' = [p \in 0 .. 1 |-> Erased]
    /\ fl' = NoFlush
    /\ pc' = "found"
    /\ UNCHANGED <<card, bb1, cache, call, want>>

(* McDetectCard answers sceMcResChangedCard: the program starts again from *)
(* what the card holds.                                                    *)
OnCard == [c \in Cluster |-> card[c[1]][c[2]]]
Found ==
    /\ pc = "found"
    /\ want' = OnCard
    /\ pc' = "ready"
    /\ UNCHANGED <<card, bb1, bb2, cache, call, fl>>

-----------------------------------------------------------------------------
(* The cache.                                                              *)
Slots(c) == {k \in 1 .. NCache : cache[k].cl = c}

(* mcman_addcacheentry: entry k, now e, becomes the first. *)
MoveToFront(k, e) ==
    [n \in 1 .. NCache |-> IF n = 1 THEN e ELSE IF n <= k THEN cache[n - 1] ELSE cache[n]]

(* What mcman_read2, mcman_write2, the FAT and the directory code do with *)
(* the entry they get for the call k.                                      *)
Used(e, k) == [e EXCEPT !.rd = @ \/ k.cl \notin Meta,
                        !.data = IF k.op = "write" THEN k.val ELSE @,
                        !.wr = @ \/ k.op = "write"]
Wanted(k) == IF k.op = "write" THEN [want EXCEPT ![k.cl] = k.val] ELSE want

(* mcman_readcluster finds the cluster in the cache. *)
Hit(k) ==
    /\ pc = "ready"
    /\ \E n \in Slots(k.cl) : cache' = MoveToFront(n, Used(cache[n], k))
    /\ want' = Wanted(k)
    /\ UNCHANGED <<card, bb1, bb2, call, fl, pc>>

(* It does not, and takes the least recently used entry, after a flush of *)
(* it if it was written.                                                   *)
Miss(k) ==
    /\ pc = "ready"
    /\ Slots(k.cl) = {}
    /\ call' = k
    /\ pc' = IF cache[NCache].wr THEN "gather" ELSE "load"
    /\ UNCHANGED <<card, bb1, bb2, cache, fl, want>>

Readable(b, i) == card[b][i] # Bad

Load ==
    /\ pc = "load"
    /\ Readable(call.cl[1], call.cl[2])
    /\ cache' = MoveToFront(NCache, Used([cl |-> call.cl, data |-> card[call.cl[1]][call.cl[2]],
                                          wr |-> FALSE, rd |-> FALSE], call))
    /\ want' = Wanted(call)
    /\ call' = NoCall
    /\ pc' = "ready"
    /\ UNCHANGED <<card, bb1, bb2, fl>>

(* McFlush and McClose: mcman_flushmccache, from the last entry to the    *)
(* first.                                                                  *)
McFlush ==
    /\ pc = "ready"
    /\ call' = [NoCall EXCEPT !.op = "flush"]
    /\ pc' = "next"
    /\ UNCHANGED <<card, bb1, bb2, cache, fl, want>>

(* Mutant: the loop stops before entry 0. *)
DirtyButFirst == {k \in 2 .. NCache : cache[k].wr}
Dirty == {k \in 1 .. NCache : cache[k].wr}

FlushNext ==
    /\ pc = "next"
    /\ IF Dirty = {} THEN pc' = "ready" /\ call' = NoCall
                     ELSE pc' = "gather" /\ UNCHANGED call
    /\ UNCHANGED <<card, bb1, bb2, cache, fl, want>>

-----------------------------------------------------------------------------
(* mcman_flushcacheentry.                                                  *)
Flushed == IF call.op = "flush" THEN CHOOSE k \in Dirty : \A n \in Dirty : n <= k ELSE NCache

(* The cached clusters of a block, and its new content. *)
CachedOf(b) == {i \in Index : Slots(<<b, i>>) # {}}
(* Mutant: only the entry to be flushed is taken from the cache. *)
NewContentOne(b) ==
    [i \in Index |-> IF cache[Flushed].cl = <<b, i>> THEN cache[Flushed].data ELSE card[b][i]]
NewContent(b) ==
    [i \in Index |-> IF i \in CachedOf(b) THEN cache[CHOOSE k \in Slots(<<b, i>>) : TRUE].data
                                          ELSE card[b][i]]
NeedsBackup(b) == \E k \in 1 .. NCache, i \in Index : cache[k].cl = <<b, i>> /\ ~cache[k].rd

Gather ==
    /\ pc = "gather"
    /\ LET b == cache[Flushed].cl[1]
       IN /\ \A i \in Index \ CachedOf(b) : Readable(b, i)
          /\ fl' = [block |-> b, data |-> NewContent(b), flag |-> NeedsBackup(b),
                    cached |-> CachedOf(b), todo |-> Index]
          /\ pc' = IF NeedsBackup(b) THEN "backup" ELSE "erase"
    /\ UNCHANGED <<card, bb1, bb2, cache, call, want>>

(* McReadPage fails in mcman_readcluster (-21) or in the flush (-51); a   *)
(* call that ends with an error below -9 drops the whole cache.           *)
MayFail(c) == "read" \in Faults \/ ~Readable(c[1], c[2])

ReadFails ==
    /\ \/ pc = "load" /\ MayFail(call.cl)
       \/ pc = "gather" /\ LET b == cache[Flushed].cl[1]
                            IN \E i \in Index \ CachedOf(b) : MayFail(<<b, i>>)
    /\ cache' = [k \in 1 .. NCache |-> NoEntry]
    /\ want' = OnCard
    /\ call' = NoCall
    /\ pc' = "ready"
    /\ UNCHANGED <<card, bb1, bb2, fl>>

(* backup_block1 is erased, page 0 of backup_block2 names the block, the  *)
(* new content goes to backup_block1, and page 1 says that it is whole.   *)
Backup ==
    /\ pc = "backup"
    /\ bb1' = ErasedBlock
    /\ pc' = "mark0"
    /\ UNCHANGED <<card, bb2, cache, call, fl, want>>

Mark0 ==
    /\ pc = "mark0"
    /\ bb2' = [bb2 EXCEPT ![0] = Programmed(@, fl.block)]
    /\ pc' = "copy"
    /\ UNCHANGED <<card, bb1, cache, call, fl, want>>

Copy ==
    /\ pc = "copy"
    /\ bb1' = [bb1 EXCEPT ![NextPage] = Programmed(@, fl.data[NextPage])]
    /\ fl' = [fl EXCEPT !.todo = @ \ {NextPage}]
    /\ pc' = IF fl'.todo = {} THEN "mark1" ELSE pc
    /\ UNCHANGED <<card, bb2, cache, call, want>>

Mark1 ==
    /\ pc = "mark1"
    /\ bb2' = [bb2 EXCEPT ![1] = Programmed(@, fl.block)]
    /\ pc' = "erase"
    /\ UNCHANGED <<card, bb1, cache, call, fl, want>>

(* The block is erased and programmed. *)
Erase ==
    /\ pc = "erase"
    /\ card' = [card EXCEPT ![fl.block] = ErasedBlock]
    /\ fl' = [fl EXCEPT !.todo = Index]
    /\ pc' = "program"
    /\ UNCHANGED <<bb1, bb2, cache, call, want>>

AfterFlush == IF call.op = "flush" THEN "next" ELSE "load"

(* Mutant: the first cluster of the block keeps its wr_flag. *)
CleanedButFirst(b) == [k \in 1 .. NCache |-> IF \E i \in Index \ {1} : cache[k].cl = <<b, i>>
                                            THEN [cache[k] EXCEPT !.wr = FALSE] ELSE cache[k]]
Cleaned(b) == [k \in 1 .. NCache |-> IF \E i \in Index : cache[k].cl = <<b, i>>
                                    THEN [cache[k] EXCEPT !.wr = FALSE] ELSE cache[k]]

(* After the last page the clusters are clean, and the marks go if there  *)
(* are any.                                                                *)
Program ==
    /\ pc = "program"
    /\ card' = [card EXCEPT ![fl.block][NextProgrammed] = Programmed(@, fl.data[NextProgrammed])]
    /\ IF fl.todo # {NextProgrammed}
       THEN /\ fl' = [fl EXCEPT !.todo = @ \ {NextProgrammed}]
            /\ UNCHANGED <<cache, pc>>
       ELSE /\ cache' = Cleaned(fl.block)
            /\ fl' = IF fl.flag THEN [fl EXCEPT !.todo = {}] ELSE NoFlush
            /\ pc' = IF fl.flag THEN "unmark" ELSE AfterFlush
    /\ UNCHANGED <<bb1, bb2, call, want>>

Unmark ==
    /\ pc = "unmark"
    /\ bb2' = [p \in 0 .. 1 |-> Erased]
    /\ fl' = NoFlush
    /\ pc' = AfterFlush
    /\ UNCHANGED <<card, bb1, cache, call, want>>

-----------------------------------------------------------------------------
Requests == [op : {"read"}, cl : Cluster, val : {None}] \cup [op : {"write"}, cl : Cluster, val : Val]

Init ==
    /\ card \in [Block -> [Index -> Val]]
    /\ bb1 = ErasedBlock /\ bb2 = [p \in 0 .. 1 |-> Erased]
    /\ cache = [k \in 1 .. NCache |-> NoEntry]
    /\ call = NoCall /\ fl = NoFlush
    /\ pc = "out"
    /\ want = OnCard

Restore == Insert \/ RestoreErase \/ RestoreProgram \/ Clean \/ Found
Flush == Gather \/ Backup \/ Mark0 \/ Copy \/ Mark1 \/ Erase \/ Program \/ Unmark
Step == Restore \/ Flush \/ FlushNext \/ Load \/ ReadFails

Next == \/ Step
        \/ \E k \in Requests : Hit(k) \/ Miss(k)
        \/ McFlush
        \/ PowerCut

Spec == Init /\ [][Next]_vars

(* The call that is under way goes on. *)
FairSpec == Spec /\ WF_vars(Step)

-----------------------------------------------------------------------------
(* The state has its shape: the variables of mcman and the pages of the   *)
(* card.                                                                   *)
TypeOK ==
    /\ card \in [Block -> [Index -> Page]]
    /\ bb1 \in [Index -> Page]
    /\ bb2 \in [0 .. 1 -> Block \cup {Erased, Bad}]
    /\ cache \in [1 .. NCache -> Entry]
    /\ call \in Requests \cup {NoCall, [NoCall EXCEPT !.op = "flush"]}
    /\ fl \in [block : Block \cup {None}, data : [Index -> Page], flag : BOOLEAN,
               cached : SUBSET Index, todo : SUBSET Index]
    /\ pc \in {"out", "rerase", "reprogram", "clean", "found", "ready", "load", "next", "gather",
               "backup", "mark0", "copy", "mark1", "erase", "program", "unmark"}
    /\ want \in [Cluster -> Page]

(* Between calls the program sees in every cluster what it wrote there    *)
(* last, whatever was evicted, flushed and read again in the meantime: no *)
(* cluster is cached twice, and none is lost from a block that another    *)
(* cluster's flush erased (mcman_readcluster, mcman_flushcacheentry).     *)
Visible(c) == IF Slots(c) = {} THEN {card[c[1]][c[2]]} ELSE {cache[k].data : k \in Slots(c)}
ReadsLast == pc = "ready" => \A c \in Cluster : Visible(c) = {want[c]}

(* McFlush and McClose return without an error only when the card holds   *)
(* everything the program wrote, and no mark is left to be restored.      *)
FlushDurable == [][pc = "next" /\ pc' = "ready"
                     => OnCard = want /\ bb2 = [p \in 0 .. 1 |-> Erased]]_vars

(* A block of the FAT or of directories is on the card as it was before a *)
(* flush or as it is after it, whenever the card is pulled out: what the  *)
(* next mcman_checkBackupBlocks makes of the card refines HeaderStore.    *)
MetaBlock == {b \in Block : \A i \in Index : <<b, i>> \in Meta}
Recovered == [b \in MetaBlock |-> IF RestoreNeeded /\ bb2[0] = b THEN bb1 ELSE card[b]]
Flushing == pc \in {"backup", "mark0", "copy", "mark1", "erase", "program", "unmark"}
            /\ fl.block \in MetaBlock
Phase == CASE pc \in {"out", "rerase", "reprogram", "clean", "found"} -> "down"
           [] Flushing -> "flushing"
           [] OTHER -> "idle"
Txn == [b \in IF Flushing THEN {fl.block} ELSE {} |-> fl.data]
Store == INSTANCE HeaderStore WITH Sector <- MetaBlock, Header <- [Index -> Page],
                                   store <- Recovered, txn <- Txn, phase <- Phase
CardStoreSpec == Store!Spec

(* If the card stays in, every call and every detection ends. *)
CardStaysIn == <>[][pc' # "out"]_vars
CardCallsEnd == CardStaysIn => []<>(pc = "ready")
=============================================================================
