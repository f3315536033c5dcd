---------------------------- MODULE SifRpcClient ----------------------------
(***************************************************************************)
(* The client half of SIF RPC on the EE (ee/kernel/src/sifrpc.c): threads  *)
(* bind to servers on the IOP, call them and fetch IOP memory, waiting or *)
(* not, with packets from one shared table.  Interrupt handlers run to    *)
(* their end before a thread continues, so _request_end is one action; a  *)
(* thread may be preempted between the calls it makes.                     *)
(*                                                                         *)
(* The IOP's half is code in its ROM and is modelled from how this file   *)
(* uses it: it answers every request once, requests of different threads  *)
(* in any order.  A call without an end function that does not wait       *)
(* (rmode 0) is answered by writing a cleared header over the packet.     *)
(***************************************************************************)
EXTENDS Naturals, FiniteSets

CONSTANTS Threads,   \* each with a SifRpcClientData_t of its own
          NPackets,  \* pkt_table_len (32)
          MaxPid,    \* bound on rpc_data->pid
          Null,      \* a NULL pkt_addr
          Faults     \* what may fail: "send" (SifSetDma), "sema" (CreateSema)

ASSUME PacketsAssumption == NPackets \in Nat
ASSUME PidAssumption == MaxPid \in Nat
ASSUME NullAssumption == Null \notin 1 .. NPackets
ASSUME FaultsAssumption == Faults \subseteq {"send", "sema"}

VARIABLES table,     \* pkt_table: the ALLOC flag of rec_id, and rpc_id
          pid,       \* rpc_data->pid
          cd,        \* each thread's client data: hdr.pkt_addr, hdr.rpc_id
          server,    \* whether client->server is known
          sema,      \* the semaphore a thread made: its count, or none
          pc,        \* where each thread is
          request,   \* what each thread asked last
          asked,     \* requests sent and not answered
          replies,   \* answers sent and not handled
          lost       \* history: the packets of requests that failed

vars == <<table, pid, cd, server, sema, pc, request, asked, replies, lost>>

Packet == 1 .. NPackets
(* A request: its command, whether the thread waits, and rmode.  Only a   *)
(* call that does not wait and has no end function has rmode 0.           *)
Request == [cid : {"bind", "call", "rdata"}, wait : BOOLEAN, rmode : {1}]
             \cup [cid : {"call"}, wait : {FALSE}, rmode : {0}]
Message == [client : Threads, pkt : Packet, cid : {"bind", "call", "rdata"}, rmode : {0, 1}]

(* Mutants: rpc_id is not compared, or compared the wrong way.            *)
CheckStatWrongId(t) ==
    cd[t].pkt # Null /\ cd[t].id < table[cd[t].pkt].id /\ table[cd[t].pkt].alloc
CheckStatNoId(t) == cd[t].pkt # Null /\ table[cd[t].pkt].alloc

(* SifCheckStatRpc.                                                       *)
CheckStat(t) ==
    /\ cd[t].pkt # Null
    /\ cd[t].id = table[cd[t].pkt].id
    /\ table[cd[t].pkt].alloc

-----------------------------------------------------------------------------
(* Mutant: a packet is handed out that is in use.                         *)
FirstFreeAny(p) == p \in Packet /\ \A q \in 1 .. p - 1 : table[q].alloc

(* _rpc_get_packet, with interrupts off: the first packet without ALLOC.  *)
FirstFree(p) == /\ p \in Packet /\ ~table[p].alloc
                /\ \A q \in 1 .. p - 1 : table[q].alloc

(* SifBindRpc, SifCallRpc and SifRpcGetOtherData up to the packet.  A     *)
(* caller that did not wait for its last request asks SifCheckStatRpc     *)
(* first; one that got an error just tries again.                         *)
GetPacket(t, r, p) ==
    /\ pc[t] = "failed" \/ (pc[t] = "idle" /\ ~CheckStat(t))
    /\ r.cid = "call" => server[t]
    /\ FirstFree(p) /\ pid < MaxPid
    /\ table' = [table EXCEPT ![p] = [alloc |-> TRUE, id |-> pid + 1]]
    /\ pid' = pid + 1
    /\ cd' = [cd EXCEPT ![t] = [pkt |-> p, id |-> pid + 1]]
    /\ server' = [server EXCEPT ![t] = @ /\ r.cid # "bind"]
    /\ request' = [request EXCEPT ![t] = r]
    /\ pc' = [pc EXCEPT ![t] = IF r.wait THEN "sema" ELSE "send"]
    /\ sema' = [sema EXCEPT ![t] = "none"]
    /\ UNCHANGED <<asked, replies, lost>>

(* Mutant: the semaphore is made with a count of one.                     *)
NewSemaOne == "one"
NewSema == "zero"

CreateSema(t) ==
    /\ pc[t] = "sema"
    /\ sema' = [sema EXCEPT ![t] = NewSema]
    /\ pc' = [pc EXCEPT ![t] = "send"]
    /\ UNCHANGED <<table, pid, cd, server, request, asked, replies, lost>>

(* CreateSema fails: the packet stays allocated.                          *)
CreateSemaFails(t) ==
    /\ "sema" \in Faults
    /\ pc[t] = "sema"
    /\ pc' = [pc EXCEPT ![t] = "failed"]
    /\ lost' = lost \cup {cd[t].pkt}
    /\ UNCHANGED <<table, pid, cd, server, sema, request, asked, replies>>

(* Mutant: pkt_addr is not set.                                           *)
MessageOfNoPkt(t) == [client |-> t, pkt |-> Null,
                      cid |-> request[t].cid, rmode |-> request[t].rmode]

MessageOf(t) == [client |-> t, pkt |-> cd[t].pkt,
                 cid |-> request[t].cid, rmode |-> request[t].rmode]

SendCmd(t) ==
    /\ pc[t] = "send"
    /\ asked' = asked \cup {MessageOf(t)}
    /\ pc' = [pc EXCEPT ![t] = IF request[t].wait THEN "wait" ELSE "idle"]
    /\ UNCHANGED <<table, pid, cd, server, sema, request, replies, lost>>

(* SifSendCmd finds no room for the transfer: packet and semaphore stay.  *)
SendCmdFails(t) ==
    /\ "send" \in Faults
    /\ pc[t] = "send"
    /\ pc' = [pc EXCEPT ![t] = "failed"]
    /\ lost' = lost \cup {cd[t].pkt}
    /\ UNCHANGED <<table, pid, cd, server, sema, request, asked, replies>>

(* WaitSema returns, DeleteSema.                                          *)
WaitSema(t) ==
    /\ pc[t] = "wait" /\ sema[t] = "one"
    /\ sema' = [sema EXCEPT ![t] = "none"]
    /\ pc' = [pc EXCEPT ![t] = "idle"]
    /\ UNCHANGED <<table, pid, cd, server, request, asked, replies, lost>>

-----------------------------------------------------------------------------
(* The IOP answers a request.                                             *)
Answer(m) ==
    /\ m \in asked
    /\ asked' = asked \ {m}
    /\ replies' = replies \cup {m}
    /\ UNCHANGED <<table, pid, cd, server, sema, pc, request, lost>>

(* Mutant: _request_end forgets to free the packet.                       *)
FreedNot(p) == table
Freed(p) == [table EXCEPT ![p] = [alloc |-> FALSE, id |-> 0]]

(* Mutant: _request_end does not signal.                                  *)
SignalledNot(t) == sema
Signalled(t) == IF sema[t] # "none" THEN [sema EXCEPT ![t] = "one"] ELSE sema

(* _request_end: the end function is called, a bind's answer is stored,   *)
(* the waiting thread signalled and the client's packet freed.            *)
RequestEnd(m, found) ==
    /\ m \in replies /\ m.rmode = 1
    /\ cd[m.client].pkt # Null
    /\ server' = IF m.cid = "bind" THEN [server EXCEPT ![m.client] = found] ELSE server
    /\ sema' = Signalled(m.client)
    /\ table' = Freed(cd[m.client].pkt)
    /\ cd' = [cd EXCEPT ![m.client].pkt = Null]
    /\ replies' = replies \ {m}
    /\ UNCHANGED <<pid, pc, request, asked, lost>>

(* The cleared header of a call with rmode 0 arrives in the packet.       *)
PacketCleared(m) ==
    /\ m \in replies /\ m.rmode = 0
    /\ table' = Freed(m.pkt)
    /\ replies' = replies \ {m}
    /\ UNCHANGED <<pid, cd, server, sema, pc, request, asked, lost>>

-----------------------------------------------------------------------------
Init == /\ table = [p \in Packet |-> [alloc |-> FALSE, id |-> 0]]
        /\ pid = 1
        /\ cd = [t \in Threads |-> [pkt |-> Null, id |-> 0]]
        /\ server = [t \in Threads |-> FALSE]
        /\ sema = [t \in Threads |-> "none"]
        /\ pc = [t \in Threads |-> "idle"]
        /\ request = [t \in Threads |-> [cid |-> "bind", wait |-> TRUE, rmode |-> 1]]
        /\ asked = {}
        /\ replies = {}
        /\ lost = {}

Continue(t) == \/ CreateSema(t) \/ CreateSemaFails(t)
               \/ SendCmd(t) \/ SendCmdFails(t)
               \/ WaitSema(t)
Handle(m) == PacketCleared(m) \/ \E found \in BOOLEAN : RequestEnd(m, found)
Next == \/ \E t \in Threads, r \in Request, p \in Packet : GetPacket(t, r, p)
        \/ \E t \in Threads : Continue(t)
        \/ \E m \in asked : Answer(m)
        \/ \E m \in replies : Handle(m)

Spec == Init /\ [][Next]_vars

(* The scheduler runs every ready thread (the application's duty: no      *)
(* thread of a higher priority runs for ever), the IOP's servers answer,  *)
(* and the SIF0 interrupt is delivered.                                    *)
Fairness == /\ \A t \in Threads : WF_vars(Continue(t))
            /\ \A m \in Message : WF_vars(Answer(m)) /\ WF_vars(Handle(m))
FairSpec == Spec /\ Fairness

-----------------------------------------------------------------------------
(* Type invariant: packets, client data, semaphores and messages have the *)
(* shapes of SifRpcPktHeader_t, SifRpcHeader_t and the RPC packets.        *)
TypeOK ==
    /\ table \in [Packet -> [alloc : BOOLEAN, id : Nat]]
    /\ pid \in Nat
    /\ cd \in [Threads -> [pkt : Packet \cup {Null}, id : Nat]]
    /\ server \in [Threads -> BOOLEAN]
    /\ sema \in [Threads -> {"none", "zero", "one"}]
    /\ pc \in [Threads -> {"idle", "failed", "sema", "send", "wait"}]
    /\ request \in [Threads -> Request]
    /\ asked \subseteq Message /\ replies \subseteq Message
    /\ lost \subseteq Packet

InFlight == asked \cup replies
(* A thread has a request open from _rpc_get_packet to its answer.        *)
Open(t) == pc[t] \in {"sema", "send"} \/ \E m \in InFlight : m.client = t

(* Every packet marked ALLOC belongs to a request under way or to one     *)
(* that failed, so a table as large as the number of threads is exhausted *)
(* by failures only.                                                       *)
PacketsOwned == \A p \in Packet : table[p].alloc =>
                    p \in lost \/ \E t \in Threads : Open(t) /\ cd[t].pkt = p

(* An open request's packet is marked ALLOC, and no two open requests     *)
(* have the same packet: _rpc_get_packet never hands out a packet that    *)
(* the IOP may still answer or clear.  Nothing but a failure loses one.   *)
PacketExclusive ==
    /\ \A t \in Threads : Open(t) => cd[t].pkt # Null /\ table[cd[t].pkt].alloc
    /\ \A t, u \in Threads : Open(t) /\ Open(u) /\ cd[t].pkt = cd[u].pkt => t = u
    /\ PacketsOwned

(* An answer finds the client waiting for it: _request_end frees the      *)
(* packet the request was sent in, not NULL and not the packet of a later  *)
(* request made with the same client data.                                 *)
NoStrayEnd ==
    /\ \A m \in InFlight : cd[m.client].pkt = m.pkt
    /\ \A m, n \in InFlight : m.client = n.client => m = n
    /\ asked \cap replies = {}

(* SifCheckStatRpc is exact: it says a request is under way from the time *)
(* it has a packet until its answer is handled, also when the packet has  *)
(* been given to another thread since (rpc_id tells them apart).  Only of *)
(* a request that failed does it say so for ever.                          *)
CheckStatExact == \A t \in Threads : pc[t] # "failed" => (CheckStat(t) <=> Open(t))

(* A thread leaves WaitSema only when its own request has been answered,  *)
(* and while it has not been, the answer is still to come.                 *)
WakeupExact == \A t \in Threads : pc[t] = "wait" => (sema[t] = "one" <=> ~Open(t))

(* Every SifBindRpc, SifCallRpc and SifRpcGetOtherData that waits returns. *)
CallReturns == \A t \in Threads : pc[t] = "wait" ~> pc[t] = "idle"
=============================================================================
