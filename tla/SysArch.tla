------------------------------ MODULE SysArch ------------------------------
(***************************************************************************)
(* The system layer of the EE's TCP/IP stack                               *)
(* (ee/network/tcpip/src/sys_arch.c): mailboxes whose messages come from  *)
(* one pool, semaphores, and waits that an alarm ends.  A message is a    *)
(* slot of msg_pool; it is free when next and sys_msg are both NULL.      *)
(*                                                                         *)
(* The kernel's semaphores and alarms are external: a semaphore hands     *)
(* itself to the thread that waits longest, an alarm may fire at any time *)
(* after it is set, and an alarm that is gone leaves its id to the next.  *)
(* sys_mbox_free, the time that fetch and wait return, and                 *)
(* sys_arch_protect are left out.  Posts, Fetches, Waits and Signals say  *)
(* which thread uses what.                                                 *)
(***************************************************************************)
EXTENDS Naturals, Sequences, SequencesExt

CONSTANTS Thread, Box, Sem,
          Posts, Fetches, Waits, Signals,   \* who uses which mailbox and semaphore
          NSlots,    \* SYS_MAX_MESSAGES
          Payload,   \* messages that are not NULL
          NULL,
          End,       \* 0xFFFFFFFF: the last of a chain, and a message not yet filled in
          NAlarms    \* MAX_ALARMS

Slot == 1 .. NSlots
AlarmId == 1 .. NAlarms

ASSUME SysArchAssumption ==
    /\ NSlots \in Nat \ {0} /\ NAlarms \in Nat
    /\ {Posts, Fetches} \subseteq [Thread -> SUBSET Box]
    /\ {Waits, Signals} \subseteq [Thread -> SUBSET Sem]
    /\ "pool" \notin Box \cup Sem
    /\ NULL # End /\ {NULL, End} \cap (Payload \cup Slot) = {}

VARIABLES pool,    \* msg_pool: next and sys_msg of each slot
          box,     \* FirstMessage and LastMessage of each mailbox
          sema,    \* count of each semaphore: "pool" is MsgCountSema
          waitq,   \* the threads that wait for each semaphore
          pc, loc, \* each thread's statement and locals
          alarm,   \* the thread an alarm is set for
          queued   \* history: what was sent to each mailbox and not retrieved

vars == <<pool, box, sema, waitq, pc, loc, alarm, queued>>

Semas == {"pool"} \cup Box \cup Sem
NoLoc == [on |-> NULL, slot |-> NULL, msg |-> NULL, alarm |-> 0]

MaxCount(s) == IF s \in Sem THEN 1 ELSE NSlots

-----------------------------------------------------------------------------
(* External: WaitSema takes the semaphore and goes on to `next', or the   *)
(* thread joins the queue with `next' as the place it goes on at.         *)
WaitSema(t, s, next) ==
    IF sema[s] > 0
    THEN /\ sema' = [sema EXCEPT ![s] = @ - 1]
         /\ pc' = [pc EXCEPT ![t] = next]
         /\ UNCHANGED waitq
    ELSE /\ waitq' = [waitq EXCEPT ![s] = Append(@, t)]
         /\ pc' = [pc EXCEPT ![t] = "waiting"]
         /\ UNCHANGED sema

(* Where a thread goes on when it is given the semaphore. *)
Resume(s) == IF s = "pool" THEN "alloc" ELSE "got"

SignalSema(t, s, next) ==
    IF waitq[s] # <<>>
    THEN /\ waitq' = [waitq EXCEPT ![s] = Tail(@)]
         /\ pc' = [pc EXCEPT ![t] = next, ![Head(waitq[s])] = Resume(s)]
         /\ UNCHANGED sema
    ELSE /\ sema' = [sema EXCEPT ![s] = IF @ < MaxCount(s) THEN @ + 1 ELSE @]
         /\ pc' = [pc EXCEPT ![t] = next]
         /\ UNCHANGED waitq

(* TimeoutHandler: iReleaseWaitThread does nothing to a thread that does  *)
(* not wait.  alloc_msg goes on as if it had been given MsgCountSema.     *)
AlarmFires(i) ==
    /\ alarm[i] # NULL
    /\ alarm' = [alarm EXCEPT ![i] = NULL]
    /\ IF pc[alarm[i]] = "waiting"
       THEN /\ pc' = [pc EXCEPT ![alarm[i]] = IF alarm[i] \in Range(waitq["pool"]) THEN "alloc"
                                               ELSE "timeout"]
            /\ waitq' = [s \in Semas |-> SelectSeq(waitq[s], LAMBDA u : u # alarm[i])]
       ELSE UNCHANGED <<pc, waitq>>
    /\ UNCHANGED <<pool, box, sema, loc, queued>>

-----------------------------------------------------------------------------
(* sys_mbox_post and, if a message is to be had, sys_mbox_trypost.        *)
Post(t, b, m) ==
    /\ pc[t] = "idle"
    /\ loc' = [loc EXCEPT ![t] = [NoLoc EXCEPT !.on = b, !.msg = m]]
    /\ WaitSema(t, "pool", "alloc")
    /\ UNCHANGED <<pool, box, alarm, queued>>

TryPost(t, b, m) == sema["pool"] > 0 /\ Post(t, b, m)

(* Mutant: only sys_msg tells a message that is free. *)
FreeByMsg(i) == pool[i].msg = NULL
Free(i) == pool[i].next = NULL /\ pool[i].msg = NULL

(* alloc_msg takes the first free message. *)
Alloc(t) ==
    /\ pc[t] = "alloc"
    /\ LET free == {i \in Slot : Free(i)}
           i == CHOOSE i \in free : \A j \in free : i <= j
       IN IF free = {} THEN /\ loc' = [loc EXCEPT ![t].slot = NULL]
                            /\ UNCHANGED pool
          ELSE /\ loc' = [loc EXCEPT ![t].slot = i]
               /\ pool' = [pool EXCEPT ![i] = [next |-> End, msg |-> End]]
    /\ pc' = [pc EXCEPT ![t] = "send"]
    /\ UNCHANGED <<box, sema, waitq, alarm, queued>>

(* SendMbx: the message is chained with interrupts off, then signalled. *)
Send(t) ==
    /\ pc[t] = "send"
    /\ LET b == loc[t].on
           i == loc[t].slot
           last == box[b].last
       IN /\ pool' = [j \in Slot |-> IF j = i THEN [pool[j] EXCEPT !.msg = loc[t].msg]
                                     ELSE IF j = last THEN [pool[j] EXCEPT !.next = i]
                                     ELSE pool[j]]
          /\ box' = [box EXCEPT ![b] = [first |-> IF @.first = NULL THEN i ELSE @.first,
                                        last |-> i]]
          /\ queued' = [queued EXCEPT ![b] = Append(@, loc[t].msg)]
    /\ pc' = [pc EXCEPT ![t] = "signal"]
    /\ UNCHANGED <<sema, waitq, loc, alarm>>

SendSignal(t) ==
    /\ pc[t] = "signal"
    /\ SignalSema(t, loc[t].on, "idle")
    /\ loc' = [loc EXCEPT ![t] = NoLoc]
    /\ UNCHANGED <<pool, box, alarm, queued>>

-----------------------------------------------------------------------------
(* sys_arch_mbox_fetch and sys_arch_sem_wait: with a timeout, an alarm is *)
(* set before the wait; SetAlarm fails when there are no more.            *)
Begin(t, s, timed) ==
    /\ pc[t] = "idle"
    /\ LET ids == {i \in AlarmId : alarm[i] = NULL}
           i == CHOOSE i \in ids : \A j \in ids : i <= j
       IN IF timed /\ ids # {}
          THEN /\ loc' = [loc EXCEPT ![t] = [NoLoc EXCEPT !.on = s, !.alarm = i]]
               /\ alarm' = [alarm EXCEPT ![i] = t]
          ELSE /\ loc' = [loc EXCEPT ![t] = [NoLoc EXCEPT !.on = s]]
               /\ UNCHANGED alarm
    /\ pc' = [pc EXCEPT ![t] = "wait"]
    /\ UNCHANGED <<pool, box, sema, waitq, queued>>

Wait(t) ==
    /\ pc[t] = "wait"
    /\ WaitSema(t, loc[t].on, "got")
    /\ UNCHANGED <<pool, box, loc, alarm, queued>>

Timeout(t) ==
    /\ pc[t] = "timeout"
    /\ pc' = [pc EXCEPT ![t] = "idle"]
    /\ loc' = [loc EXCEPT ![t] = NoLoc]
    /\ UNCHANGED <<pool, box, sema, waitq, alarm, queued>>

(* ReleaseAlarm frees whatever alarm has the id. *)
Got(t) ==
    /\ pc[t] = "got"
    /\ alarm' = [alarm EXCEPT ![loc[t].alarm] = NULL]
    /\ IF loc[t].on \in Sem THEN /\ pc' = [pc EXCEPT ![t] = "idle"]
                                 /\ loc' = [loc EXCEPT ![t] = NoLoc]
       ELSE /\ pc' = [pc EXCEPT ![t] = "retrieve"]
            /\ loc' = [loc EXCEPT ![t].alarm = 0]
    /\ UNCHANGED <<pool, box, sema, waitq, queued>>

(* sys_arch_mbox_tryfetch.  Mutant: it does not ask PollSema. *)
TryFetchUnasked(t, b) ==
    /\ pc[t] = "idle"
    /\ pc' = [pc EXCEPT ![t] = "retrieve"]
    /\ loc' = [loc EXCEPT ![t] = [NoLoc EXCEPT !.on = b]]
    /\ UNCHANGED <<pool, box, sema, waitq, alarm, queued>>
TryFetch(t, b) ==
    /\ pc[t] = "idle"
    /\ sema[b] > 0
    /\ sema' = [sema EXCEPT ![b] = @ - 1]
    /\ pc' = [pc EXCEPT ![t] = "retrieve"]
    /\ loc' = [loc EXCEPT ![t] = [NoLoc EXCEPT !.on = b]]
    /\ UNCHANGED <<pool, box, waitq, alarm, queued>>

(* sys_arch_sem_wait with a timeout of 1 polls. *)
PollSem(t, s) ==
    /\ pc[t] = "idle"
    /\ sema[s] > 0
    /\ sema' = [sema EXCEPT ![s] = @ - 1]
    /\ UNCHANGED <<pool, box, waitq, pc, loc, alarm, queued>>

(* RetrieveMbxInternal, with interrupts off.  Mutant: the mark of the     *)
(* last message is taken for a message. *)
NextOfMark(i) == pool[i].next
NextOf(i) == IF pool[i].next = End THEN NULL ELSE pool[i].next
(* Mutant: the last message of the chain is kept. *)
UnlinkedKeepsLast(b) == [box[b] EXCEPT !.first = NextOf(@)]
Unlinked(b) == [first |-> NextOf(box[b].first),
                last |-> IF box[b].first = box[b].last THEN NextOf(box[b].first) ELSE box[b].last]

Retrieve(t) ==
    /\ pc[t] = "retrieve"
    /\ LET b == loc[t].on
       IN /\ loc' = [loc EXCEPT ![t].slot = box[b].first, ![t].msg = pool[box[b].first].msg]
          /\ box' = [box EXCEPT ![b] = Unlinked(b)]
          /\ queued' = [queued EXCEPT ![b] = Tail(@)]
    /\ pc' = [pc EXCEPT ![t] = "free"]
    /\ UNCHANGED <<pool, sema, waitq, alarm>>

(* free_msg *)
FreeMsg(t) ==
    /\ pc[t] = "free"
    /\ pool' = [pool EXCEPT ![loc[t].slot] = [next |-> NULL, msg |-> NULL]]
    /\ loc' = [loc EXCEPT ![t].slot = NULL]
    /\ pc' = [pc EXCEPT ![t] = "freed"]
    /\ UNCHANGED <<box, sema, waitq, alarm, queued>>

(* Mutant: MsgCountSema is not signalled. *)
FreeSignalNot(t) ==
    /\ pc[t] = "freed"
    /\ pc' = [pc EXCEPT ![t] = "idle"]
    /\ loc' = [loc EXCEPT ![t] = NoLoc]
    /\ UNCHANGED <<pool, box, sema, waitq, alarm, queued>>
FreeSignal(t) ==
    /\ pc[t] = "freed"
    /\ SignalSema(t, "pool", "idle")
    /\ loc' = [loc EXCEPT ![t] = NoLoc]
    /\ UNCHANGED <<pool, box, alarm, queued>>

(* sys_sem_signal *)
SemSignal(t, s) ==
    /\ pc[t] = "idle"
    /\ SignalSema(t, s, "idle")
    /\ UNCHANGED <<pool, box, loc, alarm, queued>>

-----------------------------------------------------------------------------
(* sys_init; every semaphore of the stack starts at 0. *)
Init ==
    /\ pool = [i \in Slot |-> [next |-> NULL, msg |-> NULL]]
    /\ box = [b \in Box |-> [first |-> NULL, last |-> NULL]]
    /\ sema = [s \in Semas |-> IF s = "pool" THEN NSlots ELSE 0]
    /\ waitq = [s \in Semas |-> <<>>]
    /\ pc = [t \in Thread |-> "idle"]
    /\ loc = [t \in Thread |-> NoLoc]
    /\ alarm = [i \in {0} \cup AlarmId |-> NULL]
    /\ queued = [b \in Box |-> <<>>]

Running(t) == \/ Alloc(t) \/ Send(t) \/ SendSignal(t)
              \/ Wait(t) \/ Timeout(t) \/ Got(t)
              \/ Retrieve(t) \/ FreeMsg(t) \/ FreeSignal(t)
Fetch(t) == \E b \in Fetches[t], timed \in BOOLEAN : Begin(t, b, timed)

Next == \E t \in Thread :
          \/ Running(t)
          \/ Fetch(t)
          \/ \E b \in Posts[t], m \in Payload \cup {NULL} : Post(t, b, m) \/ TryPost(t, b, m)
          \/ \E b \in Fetches[t] : TryFetch(t, b)
          \/ \E s \in Waits[t], timed \in BOOLEAN : Begin(t, s, timed)
          \/ \E s \in Waits[t] : PollSem(t, s)
          \/ \E s \in Signals[t] : SemSignal(t, s)
          \/ \E i \in AlarmId : AlarmFires(i)

Spec == Init /\ [][Next]_vars

(* A thread that may run does, a thread that serves a mailbox comes back   *)
(* to it, and an alarm that is set fires.                                  *)
FairSpec == /\ Spec
            /\ \A t \in Thread : WF_vars(Running(t)) /\ WF_vars(Fetch(t))
            /\ \A i \in AlarmId : WF_vars(AlarmFires(i))

-----------------------------------------------------------------------------
(* The state has its shape: the pool, the mailboxes, the semaphores and   *)
(* each thread's locals.                                                   *)
TypeOK ==
    /\ pool \in [Slot -> [next : Slot \cup {NULL, End}, msg : Payload \cup {NULL, End}]]
    /\ box \in [Box -> [first : Slot \cup {NULL}, last : Slot \cup {NULL}]]
    /\ sema \in [Semas -> 0 .. NSlots]
    /\ \A s \in Semas : waitq[s] \in Seq(Thread)
    /\ pc \in [Thread -> {"idle", "waiting", "alloc", "send", "signal", "wait", "timeout", "got",
                         "retrieve", "free", "freed"}]
    /\ loc \in [Thread -> [on : Box \cup Sem \cup {NULL}, slot : Slot \cup {NULL},
                          msg : Payload \cup {NULL}, alarm : 0 .. NAlarms]]
    /\ alarm \in [0 .. NAlarms -> Thread \cup {NULL}]

(* The chain of a mailbox holds what was posted to it and not yet fetched, *)
(* in the order of posting, and ends at LastMessage.                       *)
Chain(b) ==
    LET nth[n \in 1 .. NSlots + 1] == IF n = 1 THEN box[b].first
                                      ELSE IF nth[n - 1] = NULL THEN NULL ELSE NextOf(nth[n - 1])
        len == CHOOSE n \in 0 .. NSlots : nth[n + 1] = NULL
    IN [n \in 1 .. len |-> nth[n]]
ChainExact ==
    \A b \in Box :
      /\ [n \in 1 .. Len(Chain(b)) |-> pool[Chain(b)[n]].msg] = queued[b]
      /\ box[b].last = IF queued[b] = <<>> THEN NULL ELSE Last(Chain(b))

(* A message belongs to one mailbox or to one thread, or it is free: a    *)
(* NULL message that waits in a mailbox is never handed out again.        *)
(* alloc_msg finds a message once MsgCountSema lets it pass, and a thread *)
(* that took a mailbox's semaphore finds a message there.                 *)
Held(t) == pc[t] \in {"send", "free"}
OneOwner ==
    /\ \A i \in Slot :
          LET holders == {t \in Thread : Held(t) /\ loc[t].slot = i}
              boxes == {b \in Box : i \in Range(Chain(b))}
          IN \/ Free(i) /\ holders = {} /\ boxes = {}
             \/ ~Free(i) /\ \/ boxes = {} /\ \E t \in Thread : holders = {t}
                            \/ holders = {} /\ \E b \in Box : boxes = {b}
    /\ \A t \in Thread : /\ pc[t] = "send" => loc[t].slot # NULL
                         /\ pc[t] = "retrieve" => box[loc[t].on].first # NULL

(* While the mailboxes are served, a thread that waits for a free message  *)
(* gets one.                                                               *)
PostReturns == \A t \in {u \in Thread : Posts[u] # {}} :
                 (loc[t].on \in Posts[t] /\ pc[t] = "waiting") ~> pc[t] = "idle"
=============================================================================
