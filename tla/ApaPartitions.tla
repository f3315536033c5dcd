--------------------------- MODULE ApaPartitions ---------------------------
(***************************************************************************)
(* The APA partition table: the list of partition headers kept by         *)
(* libapa/src/apa.c, and the calls of the hdd: driver that change it      *)
(* (apa/src/hdd.c, apa/src/hdd_fio.c).                                     *)
(*                                                                         *)
(* Every step below is the code up to and including one call of           *)
(* apaCacheFlushAllDirty, which ApaJournal shows to be atomic, so hdr is  *)
(* always what a restart would find.  A call of the driver is a list of   *)
(* jobs, each of one or more such steps; fioSema keeps calls apart, and   *)
(* the power may fail between any two steps.  Sectors are counted in      *)
(* units of the smallest partition, 128 MB.                                *)
(***************************************************************************)
EXTENDS Naturals, Sequences, SequencesExt, FiniteSets

CONSTANTS NUnits,    \* totalLBA, in units
          Wrap,      \* 2^32 sectors, in units: u32 arithmetic wraps here
          MaxSize,   \* partitionMaxSize, in units
          MaxSub,    \* APA_MAXSUB (64)
          Names,     \* partition names users choose; Tmp is "_tmp"
          Tmp,
          FormatList,\* formatPartList: names of the system partitions
          Slots,     \* entries of hddFileSlots
          NoName, NoHeader, Closed,
          Calls,     \* the calls made in an instance
          CutWhen    \* when the power may fail: see PowerCut

ASSUME SizeAssumption == /\ NUnits \in Nat \ {0} /\ Wrap \in Nat /\ NUnits < Wrap
                         /\ \E k \in 0 .. 8 : MaxSize = 2^k
                         /\ MaxSub \in Nat
ASSUME NameAssumption == Tmp \in Names /\ Range(FormatList) \cap Names = {}
ASSUME CallsAssumption ==
    /\ Calls \subseteq {"add", "sub", "remove", "rename", "swap", "format"}
    /\ CutWhen \subseteq {"clean", "trailing"}

VARIABLES hdr,       \* hdr[u]: the header in the first sectors of unit u
          jobs,      \* what is left to do of the current call
          slots      \* hddFileSlots

vars == <<hdr, jobs, slots>>

Unit == 0 .. NUnits - 1
Size == {2^k : k \in 0 .. 8} \cap 1 .. MaxSize
IsPowerOf2(n) == \E k \in 0 .. 8 : n = 2^k

Mbr == [length |-> 1, next |-> 0, prev |-> 0, kind |-> "mbr", id |-> NoName,
        main |-> 0, subs |-> <<>>]
(* apaRemovePartition, apaMakeEmpty: a free partition.                    *)
EmptyHeader(length, next, prev) ==
    [length |-> length, next |-> next, prev |-> prev, kind |-> "free", id |-> NoName,
     main |-> 0, subs |-> <<>>]
(* apaFillHeader; params.main is 0 for a main partition.                  *)
FillHeader(params, length, next, prev) ==
    [length |-> length, next |-> next, prev |-> prev,
     kind |-> IF params.main = 0 THEN "main" ELSE "sub", id |-> params.id,
     main |-> params.main, subs |-> <<>>]
MakeEmpty(h) == EmptyHeader(h.length, h.next, h.prev)

Present(u) == u \in Unit /\ hdr[u] # NoHeader

(* The walk of apaGetNextHeader from the MBR, up to a header that has no  *)
(* successor or whose successor cannot be read.                            *)
Walk == LET w[n \in Nat] ==
                IF n = 0 THEN <<0>>
                ELSE LET p == w[n - 1]
                         u == hdr[Last(p)].next
                     IN IF u = 0 \/ ~Present(u) THEN p ELSE Append(p, u)
        IN w[NUnits]
InList == Range(Walk)
End(u) == u + hdr[u].length
Unlocked == jobs = <<>>

(* apaFindPartition: subs have no name of their own.                      *)
Found(id) == {u \in InList : hdr[u].kind # "sub" /\ hdr[u].id = id}
Partition(id) == CHOOSE u \in Found(id) : TRUE
(* Mutant: open files are not looked at.                                  *)
OpenAsNever(id) == FALSE
OpenAs(id) == \E i \in Slots : slots[i] # Closed /\ slots[i].id = id

(* Mutant: a new name is not looked up.                                   *)
UnusedAny(id) == TRUE
Unused(id) == Found(id) = {}

SetPrev(h, u, prev) == [h EXCEPT ![u].prev = prev]
(* Mutant: a loop stays at the header it is at.                           *)
MoveOnNot(u) == jobs
MoveOn(u) == [jobs EXCEPT ![1].at = u]
SetHeaders(f) == hdr' = [u \in Unit |-> IF u \in DOMAIN f THEN f[u] ELSE hdr[u]]

-----------------------------------------------------------------------------
(* hddAddPartitionHere: where the new partition goes.  emptyBlocks has    *)
(* the first free partition of each size; the smallest that fits is used. *)
Fits(size) == {u \in InList : hdr[u].kind = "free" /\ hdr[u].length >= size}
BestFit(size) == LET list == Walk
                     fits == {i \in 1 .. Len(list) : list[i] \in Fits(size)}
                 IN list[CHOOSE i \in fits :
                            \A j \in fits : \/ hdr[list[i]].length < hdr[list[j]].length
                                           \/ /\ hdr[list[i]].length = hdr[list[j]].length
                                              /\ i <= j]

(* Mutant: the sectors skipped are not counted.                           *)
GapZero(end, size) == 0
(* Sectors skipped to align the new partition, and the check for space.   *)
Gap(end, size) == (size - (end % size)) % size
(* Mutant: no check for space.                                            *)
NoSpaceNever(last, size) == FALSE
NoSpace(last, size) ==
    LET end == End(last) % Wrap
    IN \/ NUnits < (end + size + Gap(end, size)) % Wrap
       \/ end < last

InsertJob(u, size, params) == [job |-> "insert", at |-> u, size |-> size, params |-> params]
AppendJob(u, size, params) == [job |-> "append", at |-> u, size |-> size, params |-> params]

AddPartitionHere(size, params, rest) ==
    /\ IF Fits(size) # {} THEN jobs' = <<InsertJob(BestFit(size), size, params)>> \o rest
       ELSE /\ ~NoSpace(Last(Walk), size)
            /\ jobs' = <<AppendJob(Last(Walk), size, params)>> \o rest

(* A new partition is in place: apaOpen fills the file slot,              *)
(* ioctl2AddSub goes on to list the partition in its main header.         *)
Slot(u, h) == [start |-> u, length |-> h.length, id |-> h.id, subs |-> h.subs]
Added(u, h, slot) ==
    IF h.kind = "sub"
    THEN /\ jobs' = <<[job |-> "list", slot |-> slot,
                       sub |-> [start |-> u, length |-> h.length]]>> \o Tail(jobs)
         /\ UNCHANGED slots
    ELSE /\ jobs' = Tail(jobs)
         /\ slots' = [i \in Slots |-> IF i = slot THEN Slot(u, h) ELSE slots[i]]

(* apaInsertPartition: one round of its loop, or the final fill.          *)
InsertSplit ==
    /\ jobs # <<>> /\ Head(jobs).job = "insert"
    /\ LET u == Head(jobs).at
           half == hdr[u].length \div 2
           next == hdr[u].next
       IN /\ hdr[u].length # Head(jobs).size
          /\ hdr' = [SetPrev(hdr, next, u + half) EXCEPT
                        ![u].length = half, ![u].next = u + half,
                        ![u + half] = EmptyHeader(half, next, u)]
    /\ UNCHANGED <<jobs, slots>>

InsertFill ==
    /\ jobs # <<>> /\ Head(jobs).job = "insert"
    /\ LET u == Head(jobs).at
           h == FillHeader(Head(jobs).params, hdr[u].length, hdr[u].next, hdr[u].prev)
       IN /\ hdr[u].length = Head(jobs).size
          /\ hdr' = [hdr EXCEPT ![u] = h]
          /\ Added(u, h, Head(jobs).params.slot)

(* hddAddPartitionHere past the end of the list: free partitions of       *)
(* growing size up to the alignment, then the new partition.              *)
Filler(end, size) == CHOOSE t \in {s \in Size : s < size /\ end % s = 0} :
                        \A s \in Size : s < size /\ end % s = 0 => s <= t
LinkAtEnd(last, new, h) ==
    SetHeaders([u \in {0, last, new} \cap Unit |->
                  IF u = new THEN h
                  ELSE [hdr[u] EXCEPT !.next = IF u = last THEN new ELSE @,
                                      !.prev = IF u = 0 THEN new ELSE @]])

AppendFiller ==
    /\ jobs # <<>> /\ Head(jobs).job = "append"
    /\ LET last == Head(jobs).at
           end == End(last) % Wrap
           t == Filler(end, Head(jobs).size)
       IN /\ end % Head(jobs).size # 0
          /\ LinkAtEnd(last, end, EmptyHeader(t, 0, last))
          /\ jobs' = MoveOn(end)
    /\ UNCHANGED slots

AppendFill ==
    /\ jobs # <<>> /\ Head(jobs).job = "append"
    /\ LET last == Head(jobs).at
           end == End(last) % Wrap
           h == FillHeader(Head(jobs).params, Head(jobs).size, 0, last)
       IN /\ end % Head(jobs).size = 0
          /\ LinkAtEnd(last, end, h)
          /\ Added(end, h, Head(jobs).params.slot)

-----------------------------------------------------------------------------
(* Mutants: the MBR keeps its old prev; one partition is dropped only.    *)
DroppedNoMbr(p) == [hdr EXCEPT ![p].next = 0]
DropsMoreNever(p) == FALSE
Dropped(p) == [hdr EXCEPT ![p].next = 0, ![0].prev = p]
DropsMore(p) == hdr[p].kind = "free"
(* apaDelete.  The last partition: it and the free ones before it are     *)
(* dropped from the list one by one.                                       *)
DeleteTail ==
    /\ jobs # <<>> /\ Head(jobs).job = "delete"
    /\ LET p == hdr[Head(jobs).at].prev
       IN /\ hdr[Head(jobs).at].next = 0
          /\ hdr' = Dropped(p)
          /\ jobs' = IF DropsMore(p) THEN MoveOn(p) ELSE Tail(jobs)
    /\ UNCHANGED slots

(* Any other: two rounds of apaDeleteFixPrev and apaDeleteFixNext.        *)
DeleteMiddle ==
    /\ jobs # <<>> /\ Head(jobs).job = "delete"
    /\ LET u == Head(jobs).at
       IN /\ hdr[u].next # 0
          /\ jobs' = <<[job |-> "prev", at |-> u, round |-> 1, start |-> u,
                        length |-> hdr[u].length]>> \o Tail(jobs)
    /\ UNCHANGED <<hdr, slots>>

(* Mutants: merging without looking at the alignment; with a partition in *)
(* use.                                                                    *)
MergesAtUnaligned(start, sum) == IsPowerOf2(sum)
MergesWithAny(u) == TRUE
MergesAt(start, sum) == start % sum = 0 /\ IsPowerOf2(sum)
MergesWith(u) == hdr[u].kind = "free"

MergeBack(u) ==
    LET m[n \in Nat] ==
            IF n = 0 THEN [at |-> u, length |-> hdr[u].length]
            ELSE LET c == m[n - 1]
                     p == hdr[c.at].prev
                     sum == hdr[p].length + c.length
                 IN IF c.at # 0 /\ MergesWith(p) /\ MergesAt(p, sum)
                    THEN [at |-> p, length |-> sum] ELSE c
    IN m[NUnits]

DeleteFixPrev ==
    /\ jobs # <<>> /\ Head(jobs).job = "prev"
    /\ LET u == Head(jobs).at
           m == MergeBack(u)
       IN /\ IF m.at = u THEN hdr' = hdr
             ELSE hdr' = [SetPrev(hdr, hdr[u].next, m.at) EXCEPT
                             ![m.at].length = m.length, ![m.at].next = m.at + m.length]
          /\ jobs' = [jobs EXCEPT ![1].job = "next", ![1].at = m.at]
    /\ UNCHANGED slots

MergeOn(u) ==
    LET m[n \in Nat] ==
            IF n = 0 THEN [next |-> hdr[u].next, length |-> hdr[u].length]
            ELSE LET c == m[n - 1]
                     sum == hdr[c.next].length + c.length
                 IN IF c.next # 0 /\ MergesWith(c.next) /\ MergesAt(u, sum)
                    THEN [next |-> hdr[c.next].next, length |-> sum] ELSE c
    IN m[NUnits]

Merged(u, m) == EmptyHeader(m.length, m.next, hdr[u].prev)
DeleteFixNext ==
    /\ jobs # <<>> /\ Head(jobs).job = "next"
    /\ LET u == Head(jobs).at
           m == MergeOn(u)
       IN /\ IF m.length = hdr[u].length THEN hdr' = hdr
             ELSE hdr' = [SetPrev(hdr, m.next, u) EXCEPT ![u] = Merged(u, m)]
          /\ jobs' = IF Head(jobs).round = 1
                     THEN [jobs EXCEPT ![1].job = "prev", ![1].round = 2]
                     ELSE [jobs EXCEPT ![1].job = "empty"]
    /\ UNCHANGED slots

(* Nothing was merged: the partition becomes free where it is.            *)
DeleteEmpty ==
    /\ jobs # <<>> /\ Head(jobs).job = "empty"
    /\ LET u == Head(jobs).at
       IN IF u = Head(jobs).start /\ hdr[u].length = Head(jobs).length
          THEN hdr' = [hdr EXCEPT ![u] = MakeEmpty(@)]
          ELSE hdr' = hdr
    /\ jobs' = Tail(jobs)
    /\ UNCHANGED slots
-----------------------------------------------------------------------------
(* The calls.  Each takes fioSema; a call that returns an error before it *)
(* writes anything changes nothing here and is left out, and so are the   *)
(* passwords and open modes that may make it do so.                        *)
Free(i) == slots[i] = Closed /\ \A j \in Slots : j < i => slots[j] # Closed

(* hddOpen of an existing partition, and hddClose.                        *)
Open(i, id) ==
    /\ Unlocked /\ ~OpenAs(id) /\ Free(i) /\ Found(id) # {}
    /\ slots' = [slots EXCEPT ![i] = Slot(Partition(id), hdr[Partition(id)])]
    /\ UNCHANGED <<hdr, jobs>>
Close(i) ==
    /\ Unlocked /\ slots[i] # Closed
    /\ slots' = [slots EXCEPT ![i] = Closed]
    /\ UNCHANGED <<hdr, jobs>>

(* hddOpen with O_CREAT of a name that is not in use.                     *)
Create(i, id, size) ==
    /\ "add" \in Calls
    /\ Unlocked /\ ~OpenAs(id) /\ Free(i) /\ Unused(id)
    /\ AddPartitionHere(size, [id |-> id, main |-> 0, slot |-> i], <<>>)
    /\ UNCHANGED <<hdr, slots>>

(* ioctl2AddSub, up to the new partition and then its listing.            *)
AddSub(i, size) ==
    /\ "sub" \in Calls
    /\ Unlocked /\ slots[i] # Closed /\ Len(slots[i].subs) < MaxSub
    /\ AddPartitionHere(size, [id |-> NoName, main |-> slots[i].start, slot |-> i], <<>>)
    /\ UNCHANGED <<hdr, slots>>
(* Mutant: the main header does not learn of the new sub.                 *)
ListedNot(main, sub) == hdr
Listed(main, sub) == [hdr EXCEPT ![main].subs = Append(@, sub)]
ListSub ==
    /\ jobs # <<>> /\ Head(jobs).job = "list"
    /\ LET i == Head(jobs).slot
       IN /\ hdr' = Listed(slots[i].start, Head(jobs).sub)
          /\ slots' = [slots EXCEPT ![i].subs = Append(@, Head(jobs).sub)]
    /\ jobs' = Tail(jobs)

DeleteJob(u) == [job |-> "delete", at |-> u]
(* Mutants: the file slot still has the sub; the main header still has it. *)
SlotLessSubNot(i) == slots
LessSubNot(main) == hdr
SlotLessSub(i) == [slots EXCEPT ![i].subs = Front(@)]
LessSub(main) == [hdr EXCEPT ![main].subs = Front(@)]
(* ioctl2DeleteLastSub: unlisted first, then deleted.                     *)
DeleteLastSub(i) ==
    /\ "sub" \in Calls
    /\ Unlocked /\ slots[i] # Closed /\ slots[i].subs # <<>>
    /\ LET main == slots[i].start
       IN /\ hdr[main].subs # <<>>
          /\ slots' = SlotLessSub(i) /\ hdr' = LessSub(main)
          /\ jobs' = <<DeleteJob(Last(hdr[main].subs).start)>>

Unlisted(u) == [hdr EXCEPT ![u].subs = <<>>]
(* apaRemove: the subs are unlisted, then deleted last to first, then     *)
(* the main partition is.  System partitions stay.                        *)
ApaRemove(id) ==
    /\ "remove" \in Calls
    /\ Unlocked /\ ~OpenAs(id) /\ Found(id) # {}
    /\ LET u == Partition(id)
           subs == Reverse(hdr[u].subs)
       IN /\ hdr' = Unlisted(u)
          /\ jobs' = [k \in 1 .. Len(subs) |-> DeleteJob(subs[k].start)] \o <<DeleteJob(u)>>
    /\ UNCHANGED slots

(* apaRename; the new name must be unused, the old one not open.          *)
Rename(old, new) ==
    /\ "rename" \in Calls
    /\ Unlocked /\ Unused(new) /\ ~OpenAs(old) /\ Found(old) # {}
    /\ hdr' = [hdr EXCEPT ![Partition(old)].id = new]
    /\ UNCHANGED <<jobs, slots>>

(* Mutant: the other partition keeps its name.                            *)
SwappedHalf(u, v) == [hdr EXCEPT ![u].id = hdr[v].id]
Swapped(u, v) == [hdr EXCEPT ![u].id = hdr[v].id, ![v].id = hdr[u].id]
(* devctlSwapTemp: the partition and the one called _tmp swap names.      *)
SwapTemp(id) ==
    /\ "swap" \in Calls
    /\ Unlocked /\ Found(Tmp) # {} /\ Found(id) # {} /\ id # Tmp
    /\ hdr' = Swapped(Partition(Tmp), Partition(id))
    /\ UNCHANGED <<jobs, slots>>

(* hddFormat: a new MBR header, then the system partitions, each twice as *)
(* large as the one before up to the maximum.  The old headers stay where *)
(* they are.  It takes no account of open files; here there are none.     *)
FormatJob(n, size) == [job |-> "format", n |-> n, size |-> size]
Format ==
    /\ "format" \in Calls
    /\ Unlocked /\ \A i \in Slots : slots[i] = Closed
    /\ hdr' = [hdr EXCEPT ![0] = Mbr]
    /\ jobs' = <<FormatJob(1, 1)>>
    /\ UNCHANGED slots
FormatStep ==
    /\ jobs # <<>> /\ Head(jobs).job = "format"
    /\ LET n == Head(jobs).n
           size == Head(jobs).size
       IN IF n > Len(FormatList) \/ NoSpace(Last(Walk), size) THEN jobs' = <<>>
          ELSE jobs' = <<AppendJob(Last(Walk), size,
                                   [id |-> FormatList[n], main |-> 0, slot |-> 0]),
                         FormatJob(n + 1, IF MaxSize < 2 * size THEN MaxSize ELSE 2 * size)>>
    /\ UNCHANGED <<hdr, slots>>

(* The power fails and the driver starts again.  "trailing" allows it     *)
(* while the last partition of the list is free.                           *)
PowerCut ==
    /\ (IF hdr[Last(Walk)].kind = "free" THEN "trailing" ELSE "clean") \in CutWhen
    /\ jobs' = <<>>
    /\ slots' = [i \in Slots |-> Closed]
    /\ UNCHANGED hdr

Init == /\ hdr = [u \in Unit |-> IF u = 0 THEN Mbr ELSE NoHeader]
        /\ jobs = <<>>
        /\ slots = [i \in Slots |-> Closed]

Add == InsertSplit \/ InsertFill \/ AppendFiller \/ AppendFill \/ ListSub \/ FormatStep
Delete == DeleteTail \/ DeleteMiddle \/ DeleteFixPrev \/ DeleteFixNext \/ DeleteEmpty
Step == Add \/ Delete
Call == \/ \E i \in Slots, id \in Names : Open(i, id)
        \/ \E i \in Slots : Close(i)
        \/ \E i \in Slots, id \in Names, size \in Size : Create(i, id, size)
        \/ \E i \in Slots, size \in Size : AddSub(i, size)
        \/ \E i \in Slots : DeleteLastSub(i)
        \/ \E id \in Names : ApaRemove(id)
        \/ \E old \in Names, new \in Names : Rename(old, new)
        \/ \E id \in Names : SwapTemp(id)
        \/ Format
Next == Step \/ Call \/ PowerCut

Spec == Init /\ [][Next]_vars

-----------------------------------------------------------------------------
(* Type invariant: headers, extents, jobs and file slots have the shape   *)
(* of apa_header_t and hdd_file_slot_t; links stay within the drive.       *)
Extent == [start : Unit \ {0}, length : Size]
TypeOK ==
    /\ \A u \in Unit : hdr[u] # NoHeader =>
          /\ hdr[u].next \in Unit /\ hdr[u].prev \in Unit /\ hdr[u].main \in Unit
          /\ hdr[u].length \in Size
          /\ hdr[u].kind \in {"mbr", "free", "main", "sub"}
          /\ hdr[u].id \in Names \cup Range(FormatList) \cup {NoName}
          /\ Range(hdr[u].subs) \subseteq Extent /\ Len(hdr[u].subs) <= MaxSub
    /\ \A i \in Slots : slots[i] # Closed =>
          /\ slots[i].start \in Unit /\ slots[i].length \in Size
          /\ Range(slots[i].subs) \subseteq Extent
    /\ \A k \in DOMAIN jobs :
          jobs[k].job \in {"insert", "append", "list", "delete", "prev", "next", "empty", "format"}

(* After every flush the list is doubly linked and closed: each header's  *)
(* successor names it as its prev, and the MBR's prev is the last one      *)
(* (apaGetNextHeader checks start against prev on every walk).             *)
ListLinked ==
    LET list == Walk IN
    /\ \A k \in 1 .. Len(list) - 1 : hdr[list[k + 1]].prev = list[k]
    /\ hdr[Last(list)].next = 0
    /\ hdr[0].prev = Last(list)

(* The partitions of the list cover the drive from its start without      *)
(* holes or overlaps, whatever insertions, deletions, merges and power     *)
(* failures happened.                                                      *)
Tiled == LET list == Walk
         IN \A k \in 1 .. Len(list) - 1 : list[k + 1] = End(list[k])

(* Every partition of the list starts at a multiple of its length, a      *)
(* power of two: apaInsertPartition halves and apaDelete merges on it.     *)
Aligned == \A u \in InList : IsPowerOf2(hdr[u].length) /\ u % hdr[u].length = 0

(* No partition goes past the end of the drive: hddAddPartitionHere's     *)
(* comparison with totalLBA, which "may overflow (therefore, check for    *)
(* overflows!)".                                                           *)
WithinDrive == \A u \in InList : End(u) <= NUnits

(* No two partitions of the list have the same name (Create and Rename    *)
(* look the new name up first, SwapTemp exchanges two).                    *)
UniqueNames == LET list == InList IN
               \A u, v \in list :
                  hdr[u].kind = "main" /\ hdr[v].kind = "main" /\ hdr[u].id = hdr[v].id => u = v

(* Free space is given back: when no call is running and no power failure *)
(* interrupted one, the last partition of the list is not a free one.      *)
NoTrailingFree == Unlocked => hdr[Last(Walk)].kind # "free"

(* After every flush the table is whole: linked, without holes, aligned,  *)
(* within the drive, with names that are used once and, between calls,    *)
(* without free space at its end.  Insertions, deletions and merges of    *)
(* apa.c rely on all of it at once.                                        *)
WellFormed == ListLinked /\ Tiled /\ Aligned /\ WithinDrive /\ UniqueNames /\ NoTrailingFree

(* A main partition's list of subs names live sub partitions of its own,  *)
(* with their length, even when the power fails inside AddSub, DeleteLast *)
(* Sub or Remove: a sub is linked before it is listed and unlisted before *)
(* it is deleted.                                                          *)
SubsLive ==
    LET list == InList IN
    \A u \in list : \A e \in Range(hdr[u].subs) :
        /\ e.start \in list
        /\ hdr[e.start].kind = "sub" /\ hdr[e.start].main = u
        /\ hdr[e.start].length = e.length

(* Between calls every sub partition is listed exactly once by its main.  *)
(* Only a power failure can leave a sub that nobody lists.                 *)
SubsListed ==
    LET list == InList IN
    Unlocked => \A u \in list : hdr[u].kind = "sub" =>
        LET main == hdr[u].main
        IN /\ main \in list /\ hdr[main].kind = "main"
           /\ Cardinality({k \in DOMAIN hdr[main].subs : hdr[main].subs[k].start = u}) = 1

(* An open file's cached extents are those of the partition it was opened *)
(* on, which is still in the list and is not being deleted: transfers     *)
(* (fioDataTransfer) use them without looking at the header again, and    *)
(* apaRemove "look[s] to see if open".                                     *)
SlotsCurrent ==
    \A i \in Slots : slots[i] # Closed =>
        /\ \A k \in DOMAIN jobs : jobs[k] # DeleteJob(slots[i].start)
        /\ slots[i].start \in InList /\ hdr[slots[i].start].kind = "main"
        /\ slots[i].length = hdr[slots[i].start].length
        /\ slots[i].subs = hdr[slots[i].start].subs

(* Removing a partition only ever frees it and merges free space: no step *)
(* of apaDelete changes or unlinks another partition.                     *)
DeleteKeepsOthers ==
    [][jobs # <<>> /\ Head(jobs).job \in {"delete", "prev", "next", "empty"} =>
          \A u \in InList : hdr[u].kind \in {"main", "sub"} /\ u # Head(jobs).at =>
              /\ hdr'[u] = [hdr[u] EXCEPT !.next = hdr'[u].next, !.prev = hdr'[u].prev]
              /\ hdr'[hdr'[u].prev].next = u]_vars

(* Every call ends: each step of one leaves less to do, whatever the list *)
(* looks like after power failures.  A round of apaInsertPartition halves *)
(* the free partition, a filler of hddAddPartitionHere comes closer to    *)
(* the alignment, the tail loop of apaDelete moves towards the start of   *)
(* the drive, and hddFormat goes through its partitions once.              *)
Work(j) ==
    CASE j.job = "insert" -> 3 + hdr[j.at].length
      [] j.job = "append" -> 3 + Gap(End(j.at) % Wrap, j.size)
      [] j.job = "delete" -> 6 + j.at
      [] j.job = "prev" -> IF j.round = 1 THEN 5 ELSE 3
      [] j.job = "next" -> IF j.round = 1 THEN 4 ELSE 2
      [] j.job = "format" -> (Len(FormatList) - j.n + 2) * (NUnits + 6)
      [] OTHER -> 1
AllWork == FoldLeft(LAMBDA n, j : n + Work(j), 0, jobs)
LoopsShrink == [][~Unlocked => AllWork' < AllWork]_vars
=============================================================================
