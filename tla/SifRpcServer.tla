---------------------------- MODULE SifRpcServer ----------------------------
(***************************************************************************)
(* The server half of SIF RPC on the EE (ee/kernel/src/sifrpc.c).  Each   *)
(* server has a queue and a thread in SifRpcLoop; interrupt handlers take *)
(* the IOP's bind, call and rdata commands and run to their end before a  *)
(* thread continues.  Answers are built in a ring of packets and read     *)
(* from there when the DMA to the IOP is done.                             *)
(*                                                                         *)
(* The clients are on the IOP and modelled from how this file answers     *)
(* them: each has one request under way at a time, in a packet of the     *)
(* IOP's table; it calls with an end function or waits (Rmode 1), or      *)
(* polls the packet (Rmode 0), and wants data back or not (Rsize).  A     *)
(* queue has one server: SifRegisterRpc's walk over a queue that has one  *)
(* already runs to NULL and stores through it (sifrpc.c:457-460).         *)
(***************************************************************************)
EXTENDS Naturals, Sequences, FiniteSets

CONSTANTS Servers, Clients,
          ServerOf,  \* the server each client binds to
          Rmode,     \* how each client calls: 1, or 0 for a poll of the packet
          Rsize,     \* whether a client wants data back
          NPackets,  \* packets of the IOP's table
          NRing,     \* rdata_table_len (32)
          Laps,      \* whether the ring may overtake a packet still in use
          Null,
          Faults     \* what may fail: "send" (SifSetDma in SifSendCmd)

ASSUME ClientAssumption == /\ ServerOf \in [Clients -> Servers]
                           /\ Rmode \in [Clients -> {0, 1}]
                           /\ Rsize \in [Clients -> BOOLEAN]
ASSUME RingAssumption == NRing \in Nat \ {0} /\ NPackets \in Nat
ASSUME NullAssumption == Null \notin Nat \cup Clients \cup Servers
ASSUME ModeAssumption == Laps \in BOOLEAN /\ Faults \subseteq {"send"}

VARIABLES queue,     \* active_queue: the registered queues, in order
          qd,        \* each server's queue: link, start, end, active
          sd,        \* each server: link, and client and pkt_addr of its request
          pc,        \* where each server's thread is
          wake,      \* wake-ups a thread has not yet slept on
          slot,      \* the ring packet a thread has (rend)
          ring,      \* rdata_table: client, cid and server (found or NULL) of each packet
          idx,       \* rdata_table_idx
          cl,        \* external: each client's state and packet
          ipkt,      \* external: which client a packet of the IOP is ALLOC for
          inbox,     \* commands on their way to the EE
          outbox     \* transfers on their way to the IOP

serverVars == <<qd, sd, pc, wake, slot>>
iopVars == <<cl, ipkt>>
vars == <<queue, serverVars, ring, idx, iopVars, inbox, outbox>>

Packet == 1 .. NPackets
Ring == 0 .. NRing - 1
Op == {"bind", "call", "rdata"}

-----------------------------------------------------------------------------
(* The packets of the ring that a thread fills or a transfer will read.   *)
Sending == {outbox[i].slot : i \in {j \in 1 .. Len(outbox) : outbox[j].kind = "end"}}
InUse == Sending \cup {slot[s] : s \in {t \in Servers : pc[t] \in {"fill", "send"}}}

(* Mutant: the index is stored before it is reduced.                      *)
RpcGetFpacketLong(k) == /\ k = idx % NRing
                        /\ Laps \/ k \notin InUse
                        /\ idx' = idx + 1

(* _rpc_get_fpacket, called in handlers or with interrupts off.           *)
RpcGetFpacket(k) == /\ k = idx % NRing
                    /\ Laps \/ k \notin InUse
                    /\ idx' = k + 1

(* SifSendCmd of an END packet; it may find no room and returns 0.        *)
SendEnd(k) == \/ outbox' = Append(outbox, [kind |-> "end", slot |-> k])
              \/ "send" \in Faults /\ UNCHANGED outbox

(* search_svdata, for the sid of server s.  It follows link from a        *)
(* queue's server, and never ends at a server that is its own link.       *)
Found(s) == qd[s].link
SearchEnds(s) == \A i \in 1 .. Len(queue) :
                    qd[queue[i]].link /\ sd[queue[i]].link = queue[i]
                        => \E j \in 1 .. i : queue[j] = s /\ Found(s)

-----------------------------------------------------------------------------
(* A server's thread: SifSetRpcQueue, SifRegisterRpc, SifRpcLoop.         *)

SetRpcQueue(s) ==
    /\ pc[s] = "start"
    /\ qd' = [qd EXCEPT ![s] = [link |-> FALSE, start |-> FALSE, end |-> FALSE, active |-> FALSE]]
    /\ queue' = Append(queue, s)
    /\ pc' = [pc EXCEPT ![s] = "register"]
    /\ UNCHANGED <<sd, wake, slot, ring, idx, iopVars, inbox, outbox>>

RegisterRpc(s) ==
    /\ pc[s] = "register"
    /\ sd' = [sd EXCEPT ![s].link = Null]
    /\ qd' = [qd EXCEPT ![s].link = TRUE]
    /\ pc' = [pc EXCEPT ![s] = "loop"]
    /\ UNCHANGED <<queue, wake, slot, ring, idx, iopVars, inbox, outbox>>

(* Mutants: the request stays in the queue; active is not cleared.        *)
DequeuedStays(q) == [q EXCEPT !.active = q.start]
DequeuedActive(q) == [q EXCEPT !.active = @ \/ q.start, !.start = FALSE]
Dequeued(q) == [q EXCEPT !.active = q.start, !.start = FALSE]

(* SifGetNextRequest: next of a queue's only server is NULL.              *)
GetNextRequest(s) ==
    /\ pc[s] = "loop"
    /\ qd' = [qd EXCEPT ![s] = Dequeued(@)]
    /\ pc' = [pc EXCEPT ![s] = IF qd[s].start THEN "exec" ELSE "sleep"]
    /\ UNCHANGED <<queue, sd, wake, slot, ring, idx, iopVars, inbox, outbox>>

(* SifExecRequest: the server's function runs, then a packet is taken.    *)
ExecRequest(s) ==
    /\ pc[s] = "exec"
    /\ \E k \in Ring : RpcGetFpacket(k) /\ slot' = [slot EXCEPT ![s] = k]
    /\ pc' = [pc EXCEPT ![s] = "fill"]
    /\ UNCHANGED <<queue, qd, sd, wake, ring, iopVars, inbox, outbox>>

FillRend(s) ==
    /\ pc[s] = "fill"
    /\ ring' = [ring EXCEPT ![slot[s]].client = sd[s].client, ![slot[s]].cid = "call"]
    /\ pc' = [pc EXCEPT ![s] = "send"]
    /\ UNCHANGED <<queue, qd, sd, wake, slot, idx, iopVars, inbox, outbox>>

(* With rmode the END packet is sent; when that fails the function ends.  *)
SendRend(s) ==
    /\ pc[s] = "send"
    /\ IF Rmode[sd[s].client] = 1 THEN SendEnd(slot[s]) ELSE UNCHANGED outbox
    /\ pc' = [pc EXCEPT ![s] = IF Rmode[sd[s].client] = 1 /\ outbox' = outbox
                               THEN "loop" ELSE "dma"]
    /\ UNCHANGED <<queue, qd, sd, wake, slot, ring, idx, iopVars, inbox>>

(* Mutant: the packet is cleared also when data is returned.              *)
LastTransferClears(c, p) == [kind |-> "clear", pkt |-> p]
(* The last transfer, made in either mode: the data, or a packet header   *)
(* with rpc_id and rec_id cleared.                                         *)
LastTransfer(c, p) == IF Rsize[c] THEN [kind |-> "data", client |-> c]
                                  ELSE [kind |-> "clear", pkt |-> p]
(* The request is read from sd again for it.                              *)
LastDma(s) ==
    /\ pc[s] = "dma"
    /\ outbox' = Append(outbox, LastTransfer(sd[s].client, sd[s].pkt))
    /\ pc' = [pc EXCEPT ![s] = "loop"]
    /\ UNCHANGED <<queue, qd, sd, wake, slot, ring, idx, iopVars, inbox>>

(* SleepThread returns at once when a wake-up is pending.                 *)
SleepThread(s) ==
    /\ pc[s] = "sleep"
    /\ pc' = [pc EXCEPT ![s] = IF wake[s] > 0 THEN "loop" ELSE "asleep"]
    /\ wake' = [wake EXCEPT ![s] = IF @ > 0 THEN @ - 1 ELSE 0]
    /\ UNCHANGED <<queue, qd, sd, slot, ring, idx, iopVars, inbox, outbox>>

-----------------------------------------------------------------------------
(* The handlers, each for the first command in the inbox.                 *)

Taken(op) == /\ inbox # <<>> /\ Head(inbox).op = op
             /\ inbox' = Tail(inbox)

(* Mutant: cid is not set.                                                *)
BoundNoCid(rend, c) == [rend EXCEPT !.client = c, !.found = Found(ServerOf[c])]
Bound(rend, c) == [client |-> c, cid |-> "bind", found |-> Found(ServerOf[c])]

RequestBind ==
    LET m == Head(inbox) IN
    /\ Taken("bind") /\ SearchEnds(ServerOf[m.client])
    /\ \E k \in Ring :
          /\ RpcGetFpacket(k)
          /\ ring' = [ring EXCEPT ![k] = Bound(@, m.client)]
          /\ SendEnd(k)
    /\ UNCHANGED <<queue, serverVars, iopVars>>

RequestRdata ==
    LET m == Head(inbox) IN
    /\ Taken("rdata")
    /\ \E k \in Ring :
          /\ RpcGetFpacket(k)
          /\ ring' = [ring EXCEPT ![k].client = m.client, ![k].cid = "rdata"]
          /\ SendEnd(k)
    /\ UNCHANGED <<queue, serverVars, iopVars>>

(* iWakeupThread.                                                         *)
Wakeup(s) == IF pc[s] = "asleep"
             THEN pc' = [pc EXCEPT ![s] = "loop"] /\ UNCHANGED wake
             ELSE wake' = [wake EXCEPT ![s] = @ + 1] /\ UNCHANGED pc

(* Mutants: end is tested instead of start; a server that is not asleep   *)
(* is not woken.                                                           *)
WaitingEnd(s) == qd[s].end
ActiveNotAsleep(s) == pc[s] # "asleep"
Waiting(s) == qd[s].start
Active(s) == qd[s].active

(* _request_call: the server becomes start of its queue, or, when the     *)
(* queue is not empty, the link of the last one, which is itself; its     *)
(* fields are set in any case.                                            *)
RequestCall ==
    LET m == Head(inbox)
        s == ServerOf[m.client] IN
    /\ Taken("call")
    /\ qd' = [qd EXCEPT ![s].start = @ \/ ~Waiting(s), ![s].end = TRUE]
    /\ sd' = [sd EXCEPT ![s] = [link |-> IF Waiting(s) THEN s ELSE @.link,
                                client |-> m.client, pkt |-> m.pkt]]
    /\ IF Active(s) THEN UNCHANGED <<pc, wake>> ELSE Wakeup(s)
    /\ UNCHANGED <<queue, slot, ring, idx, iopVars, outbox>>

-----------------------------------------------------------------------------
(* The IOP (external).                                                    *)

IopFirstFree(p) == /\ p \in Packet /\ ipkt[p] = Null
                   /\ \A q \in 1 .. p - 1 : ipkt[q] # Null

(* A client binds until the server is found, then calls and fetches.      *)
IopRequest(c, op, p) ==
    /\ cl[c].st = IF op = "bind" THEN "unbound" ELSE "bound"
    /\ IopFirstFree(p)
    /\ ipkt' = [ipkt EXCEPT ![p] = c]
    /\ cl' = [cl EXCEPT ![c] = [st |-> op, pkt |-> p]]
    /\ inbox' = Append(inbox, [op |-> op, client |-> c, pkt |-> p])
    /\ UNCHANGED <<queue, serverVars, ring, idx, outbox>>

(* A client that polls sees that its packet has been cleared.             *)
IopPolled(c) ==
    /\ cl[c].st = "call" /\ Rmode[c] = 0 /\ ipkt[cl[c].pkt] # c
    /\ cl' = [cl EXCEPT ![c].st = "bound"]
    /\ UNCHANGED <<queue, serverVars, ring, idx, ipkt, inbox, outbox>>

(* The first transfer arrives: an END packet, a cleared packet or data.   *)
IopReceive ==
    LET d == Head(outbox)
        r == ring[d.slot] IN
    /\ outbox # <<>> /\ outbox' = Tail(outbox)
    /\ CASE d.kind = "end" ->
              /\ cl' = [cl EXCEPT ![r.client].st =
                                     IF r.cid = "bind" /\ ~r.found THEN "unbound" ELSE "bound"]
              /\ ipkt' = [ipkt EXCEPT ![cl[r.client].pkt] = Null]
         [] d.kind = "clear" -> ipkt' = [ipkt EXCEPT ![d.pkt] = Null] /\ UNCHANGED cl
         [] OTHER -> UNCHANGED iopVars
    /\ UNCHANGED <<queue, serverVars, ring, idx, inbox>>

-----------------------------------------------------------------------------
Init == /\ queue = <<>>
        /\ qd = [s \in Servers |-> [link |-> FALSE, start |-> FALSE, end |-> FALSE, active |-> FALSE]]
        /\ sd = [s \in Servers |-> [link |-> Null, client |-> Null, pkt |-> Null]]
        /\ pc = [s \in Servers |-> "start"]
        /\ wake = [s \in Servers |-> 0]
        /\ slot = [s \in Servers |-> 0]
        /\ ring = [k \in Ring |-> [client |-> Null, cid |-> Null, found |-> FALSE]]
        /\ idx = 0
        /\ cl = [c \in Clients |-> [st |-> "unbound", pkt |-> Null]]
        /\ ipkt = [p \in Packet |-> Null]
        /\ inbox = <<>> /\ outbox = <<>>

Thread(s) == \/ SetRpcQueue(s) \/ RegisterRpc(s)
             \/ GetNextRequest(s)
             \/ ExecRequest(s) \/ FillRend(s) \/ SendRend(s) \/ LastDma(s)
             \/ SleepThread(s)
Handler == RequestBind \/ RequestCall \/ RequestRdata
Next == \/ \E s \in Servers : Thread(s)
        \/ Handler
        \/ \E c \in Clients, op \in Op, p \in Packet : IopRequest(c, op, p)
        \/ \E c \in Clients : IopPolled(c)
        \/ IopReceive

Spec == Init /\ [][Next]_vars

(* Every server's thread gets to run, interrupts are taken, and the DMA   *)
(* makes progress.                                                         *)
Fairness == /\ \A s \in Servers : WF_vars(Thread(s))
            /\ WF_vars(Handler) /\ WF_vars(IopReceive)
            /\ \A c \in Clients : WF_vars(IopPolled(c))
FairSpec == Spec /\ Fairness

-----------------------------------------------------------------------------
(* Type invariant: the ring index stays within one of the table, a thread *)
(* has at most two wake-ups ahead of its sleep, and the records have the  *)
(* shapes of SifRpcDataQueue_t, SifRpcServerData_t and the END packet.    *)
TypeOK ==
    /\ queue \in Seq(Servers)
    /\ qd \in [Servers -> [link : BOOLEAN, start : BOOLEAN, end : BOOLEAN, active : BOOLEAN]]
    /\ sd \in [Servers -> [link : Servers \cup {Null}, client : Clients \cup {Null},
                           pkt : Packet \cup {Null}]]
    /\ pc \in [Servers -> {"start", "register", "loop", "exec", "fill", "send", "dma",
                           "sleep", "asleep"}]
    /\ wake \in [Servers -> 0 .. 2]
    /\ slot \in [Servers -> Ring]
    /\ ring \in [Ring -> [client : Clients \cup {Null}, cid : Op \cup {Null}, found : BOOLEAN]]
    /\ idx \in 0 .. NRing
    /\ cl \in [Clients -> [st : {"unbound", "bound"} \cup Op, pkt : Packet \cup {Null}]]
    /\ ipkt \in [Packet -> Clients \cup {Null}]

(* A call is never left behind: a thread sleeps only while its queue is   *)
(* empty, although _request_call wakes it only when active is 0 and may   *)
(* run between SifGetNextRequest and SleepThread.                          *)
NoLostWakeup == \A s \in Servers : pc[s] = "asleep" => ~qd[s].start

(* A thread works on the request of a client that still waits for it:     *)
(* _request_call does not overwrite a request, and no request is run      *)
(* twice.  A server is never its own link, where search_svdata would not  *)
(* end.                                                                    *)
ServesCurrent ==
    \A s \in Servers :
        /\ qd[s].start \/ pc[s] \in {"exec", "fill", "send"} =>
              cl[sd[s].client].st = "call" /\ cl[sd[s].client].pkt = sd[s].pkt
        /\ sd[s].link # s

(* Every END packet on its way answers the request its client has under   *)
(* way, and there is one at most for it: the contents of the ring packet  *)
(* are those of the answer until the transfer is done.                     *)
EndsRight ==
    LET Ends == {i \in 1 .. Len(outbox) : outbox[i].kind = "end"}
        Rend(i) == ring[outbox[i].slot] IN
    /\ \A i \in Ends : cl[Rend(i).client].st = Rend(i).cid
    /\ \A i, j \in Ends : Rend(i).client = Rend(j).client => i = j

(* The packet of a request under way is marked ALLOC, "Set if the packet  *)
(* has been allocated" (sifrpc.c:27), so that it is not handed out again.  *)
PacketMarked ==
    /\ \A i \in 1 .. Len(inbox) : ipkt[inbox[i].pkt] = inbox[i].client
    /\ \A s \in Servers : qd[s].start \/ pc[s] \in {"exec", "fill", "send"} =>
                              ipkt[sd[s].pkt] = sd[s].client

(* Every bind, call and fetch of a client is answered.                    *)
CallAnswered == \A c \in Clients : cl[c].st \in Op ~> cl[c].st \notin Op
=============================================================================
