------------------------- MODULE SifRpcClient_proof -------------------------
(***************************************************************************)
(* Proofs about SifRpcClient, for any number of threads and packets.      *)
(*                                                                         *)
(* The argument: rpc_ids are handed out once, so two client data never    *)
(* have the same one (Ids); the packet of an open request carries the id  *)
(* of its client data (Carried); a message in flight names the packet its *)
(* client data names, and a thread has at most one (Messages).  Two open  *)
(* requests with the same packet would then have the same id.  A packet   *)
(* marked ALLOC is carried by an open request or lost (PacketsOwned), and *)
(* a lost one has the id of no client data but that of a request that     *)
(* just failed (Lost).  A thread that waits has its answer or its signal  *)
(* to come (Waiting).                                                      *)
(***************************************************************************)
EXTENDS SifRpcClient, TLAPS

Ids ==
    /\ pid > 0
    /\ \A t \in Threads : cd[t].id <= pid
    /\ \A p \in Packet : table[p].id <= pid
    /\ \A t, u \in Threads : cd[t].id = cd[u].id /\ cd[t].id # 0 => t = u

Carried ==
    \A t \in Threads : Open(t) =>
        /\ cd[t].pkt \in Packet /\ cd[t].id # 0
        /\ table[cd[t].pkt].alloc /\ table[cd[t].pkt].id = cd[t].id

Messages ==
    /\ \A m \in InFlight : /\ cd[m.client].pkt = m.pkt
                           /\ pc[m.client] \in {"idle", "wait"}
                           /\ pc[m.client] = "wait" => m.rmode = 1
    /\ \A m, n \in InFlight : m.client = n.client => m = n
    /\ asked \cap replies = {}

Waiting ==
    \A t \in Threads :
        /\ pc[t] = "sema" => request[t].wait
        /\ pc[t] = "send" => sema[t] = IF request[t].wait THEN "zero" ELSE "none"
        /\ pc[t] = "wait" => sema[t] = IF Open(t) THEN "zero" ELSE "one"

Lost ==
    \A p \in lost : /\ table[p].alloc
                    /\ \A t \in Threads : pc[t] # "failed" => cd[t].id # table[p].id

IInv == /\ TypeOK /\ Ids /\ Carried /\ Messages
        /\ PacketsOwned /\ Lost /\ Waiting

(* What a thread sends is a message: waiting requests have rmode 1.        *)
LEMMA MessageType ==
    ASSUME IInv, NEW t \in Threads, pc[t] = "send"
    PROVE  /\ MessageOf(t) \in Message
           /\ request[t].wait => MessageOf(t).rmode = 1
<1>1. request[t] \in Request  BY DEF IInv, TypeOK
<1>2. /\ request[t].cid \in {"bind", "call", "rdata"} /\ request[t].rmode \in {0, 1}
      /\ request[t].wait => request[t].rmode = 1
  BY <1>1 DEF Request
<1>3. cd[t].pkt \in Packet  BY DEF IInv, Carried, Open
<1>. QED  BY <1>2, <1>3 DEF MessageOf, Message

(* A thread that starts a request, or is about to send one, has no message *)
(* in flight.                                                              *)
LEMMA Quiet ==
    ASSUME IInv, NEW t \in Threads,
           \/ pc[t] \in {"failed", "send"}
           \/ pc[t] = "idle" /\ ~CheckStat(t)
    PROVE  \A m \in InFlight : m.client # t
<1>1. CASE pc[t] \in {"failed", "send"}
  BY <1>1 DEF IInv, Messages
<1>2. CASE pc[t] = "idle" /\ ~CheckStat(t)
  BY <1>2, NullAssumption DEF IInv, Carried, Open, CheckStat, Packet
<1>. QED  BY <1>1, <1>2

(* The type invariant is preserved.                                        *)
LEMMA NextType == ASSUME IInv, [Next]_vars PROVE TypeOK'
<1>. USE DEF IInv, Packet
<1>1. ASSUME NEW t \in Threads, NEW r \in Request, NEW p \in Packet, GetPacket(t, r, p)
      PROVE TypeOK'
  <2>1. table' \in [Packet -> [alloc : BOOLEAN, id : Nat]] /\ pid' \in Nat
    BY <1>1 DEF GetPacket, TypeOK
  <2>2. cd' \in [Threads -> [pkt : Packet \cup {Null}, id : Nat]]
    BY <1>1 DEF GetPacket, TypeOK
  <2>3. server' \in [Threads -> BOOLEAN]
    BY <1>1 DEF GetPacket, TypeOK
  <2>4. /\ sema' \in [Threads -> {"none", "zero", "one"}]
        /\ pc' \in [Threads -> {"idle", "failed", "sema", "send", "wait"}]
    BY <1>1 DEF GetPacket, TypeOK
  <2>5. request' \in [Threads -> Request] /\ asked' \subseteq Message /\ replies' \subseteq Message
        /\ lost' \subseteq Packet
    BY <1>1 DEF GetPacket, TypeOK
  <2>. QED  BY <2>1, <2>2, <2>3, <2>4, <2>5 DEF TypeOK
<1>2. ASSUME NEW t \in Threads, CreateSema(t)
      PROVE TypeOK'
  BY <1>2 DEF CreateSema, NewSema, TypeOK
<1>3. ASSUME NEW t \in Threads, CreateSemaFails(t)
      PROVE TypeOK'
  <2>1. lost' \subseteq Packet  BY <1>3 DEF CreateSemaFails, TypeOK, Carried, Open
  <2>. QED  BY <1>3, <2>1 DEF CreateSemaFails, TypeOK
<1>4. ASSUME NEW t \in Threads, SendCmd(t)
      PROVE TypeOK'
  <2>1. MessageOf(t) \in Message  BY <1>4, MessageType DEF SendCmd
  <2>. QED  BY <1>4, <2>1 DEF SendCmd, TypeOK
<1>5. ASSUME NEW t \in Threads, SendCmdFails(t)
      PROVE TypeOK'
  <2>1. lost' \subseteq Packet  BY <1>5 DEF SendCmdFails, TypeOK, Carried, Open
  <2>. QED  BY <1>5, <2>1 DEF SendCmdFails, TypeOK
<1>6. ASSUME NEW t \in Threads, WaitSema(t)
      PROVE TypeOK'
  BY <1>6 DEF WaitSema, TypeOK
<1>7. ASSUME NEW m \in asked, Answer(m)
      PROVE TypeOK'
  BY <1>7 DEF Answer, TypeOK, Message, Request
<1>8. ASSUME NEW m \in replies, PacketCleared(m)
      PROVE TypeOK'
  BY <1>8 DEF PacketCleared, TypeOK, Message, Request, Freed
<1>9. ASSUME NEW m \in replies, NEW found \in BOOLEAN, RequestEnd(m, found)
      PROVE TypeOK'
  BY <1>9 DEF RequestEnd, Signalled, TypeOK, Message, Request, Freed
<1>10. CASE UNCHANGED vars
  BY <1>10 DEF vars, TypeOK
<1>. QED  BY <1>1, <1>2, <1>3, <1>4, <1>5, <1>6, <1>7, <1>8, <1>9, <1>10 DEF Next, Continue, Handle

(* No two client data get the same rpc_id.                                 *)
LEMMA NextIds == ASSUME IInv, [Next]_vars PROVE Ids'
<1>. USE DEF IInv, Packet
<1>1. ASSUME NEW t \in Threads, NEW r \in Request, NEW p \in Packet, GetPacket(t, r, p)
      PROVE Ids'
  <2>1. \A q \in Packet : table'[q].id <= pid'
    <3>. SUFFICES ASSUME NEW q \in Packet PROVE table'[q].id <= pid'
      OBVIOUS
    <3>1. pid \in Nat /\ pid' = pid + 1 /\ table[q].id \in Nat /\ table[q].id <= pid
      BY <1>1 DEF GetPacket, TypeOK, Ids
    <3>2. table'[q] = IF q = p THEN [alloc |-> TRUE, id |-> pid + 1] ELSE table[q]
      BY <1>1 DEF GetPacket, TypeOK
    <3>. QED  BY <3>1, <3>2
  <2>2. /\ pid' > 0
        /\ \A u \in Threads : cd'[u].id <= pid'
    BY <1>1 DEF GetPacket, TypeOK, Ids
  <2>3. \A u, v \in Threads : cd'[u].id = cd'[v].id /\ cd'[u].id # 0 => u = v
    BY <1>1 DEF GetPacket, TypeOK, Ids
  <2>. QED  BY <2>1, <2>2, <2>3 DEF Ids
<1>2. ASSUME NEW t \in Threads, CreateSema(t)
      PROVE Ids'
  BY <1>2 DEF CreateSema, NewSema, TypeOK, Ids
<1>3. ASSUME NEW t \in Threads, CreateSemaFails(t)
      PROVE Ids'
  BY <1>3 DEF CreateSemaFails, TypeOK, Ids
<1>4. ASSUME NEW t \in Threads, SendCmd(t)
      PROVE Ids'
  BY <1>4 DEF SendCmd, TypeOK, Message, Request, MessageOf, Ids
<1>5. ASSUME NEW t \in Threads, SendCmdFails(t)
      PROVE Ids'
  BY <1>5 DEF SendCmdFails, TypeOK, Ids
<1>6. ASSUME NEW t \in Threads, WaitSema(t)
      PROVE Ids'
  BY <1>6 DEF WaitSema, TypeOK, Ids
<1>7. ASSUME NEW m \in asked, Answer(m)
      PROVE Ids'
  BY <1>7 DEF Answer, TypeOK, Message, Request, Ids
<1>8. ASSUME NEW m \in replies, PacketCleared(m)
      PROVE Ids'
  BY <1>8 DEF PacketCleared, TypeOK, Message, Request, Freed, Ids
<1>9. ASSUME NEW m \in replies, NEW found \in BOOLEAN, RequestEnd(m, found)
      PROVE Ids'
  BY <1>9 DEF RequestEnd, Signalled, TypeOK, Message, Request, Freed, Ids
<1>10. CASE UNCHANGED vars
  BY <1>10 DEF vars, TypeOK, Ids
<1>. QED  BY <1>1, <1>2, <1>3, <1>4, <1>5, <1>6, <1>7, <1>8, <1>9, <1>10 DEF Next, Continue, Handle

(* The packet of an open request keeps ALLOC and the id of its client.     *)
LEMMA NextCarried == ASSUME IInv, [Next]_vars PROVE Carried'
<1>. USE DEF IInv, Packet
<1>1. ASSUME NEW t \in Threads, NEW r \in Request, NEW p \in Packet, GetPacket(t, r, p)
      PROVE Carried'
  BY <1>1 DEF GetPacket, TypeOK, Message, Request, Ids, Carried, Messages, Open, InFlight, CheckStat, FirstFree
<1>2. ASSUME NEW t \in Threads, CreateSema(t)
      PROVE Carried'
  BY <1>2 DEF CreateSema, NewSema, TypeOK, Ids, Carried, Messages, Open, InFlight
<1>3. ASSUME NEW t \in Threads, CreateSemaFails(t)
      PROVE Carried'
  BY <1>3 DEF CreateSemaFails, TypeOK, Ids, Carried, Messages, Open, InFlight
<1>4. ASSUME NEW t \in Threads, SendCmd(t)
      PROVE Carried'
  BY <1>4 DEF SendCmd, TypeOK, Message, Request, MessageOf, Ids, Carried, Messages, Open, InFlight
<1>5. ASSUME NEW t \in Threads, SendCmdFails(t)
      PROVE Carried'
  BY <1>5 DEF SendCmdFails, TypeOK, Ids, Carried, Messages, Open, InFlight
<1>6. ASSUME NEW t \in Threads, WaitSema(t)
      PROVE Carried'
  BY <1>6 DEF WaitSema, TypeOK, Ids, Carried, Messages, Open, InFlight
<1>7. ASSUME NEW m \in asked, Answer(m)
      PROVE Carried'
  BY <1>7 DEF Answer, TypeOK, Message, Request, Ids, Carried, Messages, Open, InFlight
<1>8. ASSUME NEW m \in replies, PacketCleared(m)
      PROVE Carried'
  <2>1. m \in InFlight /\ m.client \in Threads /\ InFlight' = InFlight \ {m}
    BY <1>8 DEF PacketCleared, TypeOK, Message, InFlight, Messages
  <2>2. m.pkt = cd[m.client].pkt /\ Open(m.client)
    BY <2>1 DEF Messages, Open
  <2>3. ~Open(m.client)'
    BY <1>8, <2>1 DEF PacketCleared, Messages, Open
  <2>4. \A u \in Threads : Open(u)' => Open(u) /\ u # m.client
    BY <1>8, <2>1, <2>3 DEF PacketCleared, Open
  <2>5. \A u \in Threads : Open(u) /\ u # m.client => cd[u].pkt # m.pkt
    BY <2>1, <2>2 DEF Ids, Carried
  <2>6. \A q \in Packet : q # m.pkt => table'[q] = table[q]
    BY <1>8 DEF PacketCleared, Freed, TypeOK
  <2>. QED  BY <1>8, <2>4, <2>5, <2>6 DEF PacketCleared, Carried
<1>9. ASSUME NEW m \in replies, NEW found \in BOOLEAN, RequestEnd(m, found)
      PROVE Carried'
  BY <1>9 DEF RequestEnd, Signalled, TypeOK, Message, Request, Freed, Ids, Carried, Messages, Open, InFlight
<1>10. CASE UNCHANGED vars
  BY <1>10 DEF vars, TypeOK, Ids, Carried, Messages, Open, InFlight
<1>. QED  BY <1>1, <1>2, <1>3, <1>4, <1>5, <1>6, <1>7, <1>8, <1>9, <1>10 DEF Next, Continue, Handle

(* Messages in flight stay tied to the client data that sent them.         *)
LEMMA NextMessages == ASSUME IInv, [Next]_vars PROVE Messages'
<1>. USE DEF IInv, Packet
<1>1. ASSUME NEW t \in Threads, NEW r \in Request, NEW p \in Packet, GetPacket(t, r, p)
      PROVE Messages'
  <2>1. \A m \in InFlight : m.client # t  BY <1>1, Quiet DEF GetPacket
  <2>2. InFlight \subseteq Message /\ InFlight' = InFlight
    BY <1>1 DEF GetPacket, TypeOK, InFlight
  <2>3. \A m \in InFlight : m.client \in Threads /\ cd'[m.client] = cd[m.client]
                            /\ pc'[m.client] = pc[m.client]
    BY <1>1, <2>1, <2>2 DEF GetPacket, TypeOK, Message
  <2>. QED  BY <1>1, <2>2, <2>3 DEF GetPacket, Messages
<1>2. ASSUME NEW t \in Threads, CreateSema(t)
      PROVE Messages'
  BY <1>2 DEF CreateSema, NewSema, TypeOK, Carried, Messages, Open, InFlight
<1>3. ASSUME NEW t \in Threads, CreateSemaFails(t)
      PROVE Messages'
  BY <1>3 DEF CreateSemaFails, TypeOK, Carried, Messages, Open, InFlight
<1>4. ASSUME NEW t \in Threads, SendCmd(t)
      PROVE Messages'
  <2>1. \A m \in InFlight : m.client # t  BY <1>4, Quiet DEF SendCmd
  <2>2. InFlight \subseteq Message  BY DEF TypeOK, InFlight
  <2>3. InFlight' = InFlight \cup {MessageOf(t)}  BY <1>4 DEF SendCmd, InFlight
  <2>4. MessageOf(t).client = t /\ MessageOf(t).pkt = cd[t].pkt
        /\ (request[t].wait => MessageOf(t).rmode = 1)
    BY <1>4, MessageType DEF SendCmd, MessageOf
  <2>5. \A m \in InFlight : m.client \in Threads /\ pc'[m.client] = pc[m.client]
    BY <1>4, <2>1, <2>2 DEF SendCmd, TypeOK, Message
  <2>6. pc'[t] = (IF request[t].wait THEN "wait" ELSE "idle") /\ cd' = cd
    BY <1>4 DEF SendCmd, TypeOK
  <2>7. \A m \in InFlight' : /\ cd'[m.client].pkt = m.pkt
                             /\ pc'[m.client] \in {"idle", "wait"}
                             /\ pc'[m.client] = "wait" => m.rmode = 1
    BY <2>3, <2>4, <2>5, <2>6 DEF Messages
  <2>8. \A m, n \in InFlight' : m.client = n.client => m = n
    BY <2>1, <2>3, <2>4 DEF Messages
  <2>9. asked' \cap replies' = {}
    BY <1>4, <2>1, <2>4 DEF SendCmd, Messages, InFlight
  <2>. QED  BY <2>7, <2>8, <2>9 DEF Messages
<1>5. ASSUME NEW t \in Threads, SendCmdFails(t)
      PROVE Messages'
  BY <1>5 DEF SendCmdFails, TypeOK, Carried, Messages, Open, InFlight
<1>6. ASSUME NEW t \in Threads, WaitSema(t)
      PROVE Messages'
  BY <1>6 DEF WaitSema, TypeOK, Carried, Messages, Open, InFlight
<1>7. ASSUME NEW m \in asked, Answer(m)
      PROVE Messages'
  BY <1>7 DEF Answer, TypeOK, Message, Request, Carried, Messages, Open, InFlight
<1>8. ASSUME NEW m \in replies, PacketCleared(m)
      PROVE Messages'
  BY <1>8 DEF PacketCleared, TypeOK, Message, Request, Freed, Carried, Messages, Open, InFlight
<1>9. ASSUME NEW m \in replies, NEW found \in BOOLEAN, RequestEnd(m, found)
      PROVE Messages'
  BY <1>9 DEF RequestEnd, Signalled, TypeOK, Message, Request, Freed, Carried, Messages, Open, InFlight
<1>10. CASE UNCHANGED vars
  BY <1>10 DEF vars, TypeOK, Carried, Messages, Open, InFlight
<1>. QED  BY <1>1, <1>2, <1>3, <1>4, <1>5, <1>6, <1>7, <1>8, <1>9, <1>10 DEF Next, Continue, Handle

(* An allocated packet belongs to an open request or is lost.              *)
LEMMA NextOwned == ASSUME IInv, [Next]_vars PROVE PacketsOwned'
<1>. USE DEF IInv, Packet
<1>1. ASSUME NEW t \in Threads, NEW r \in Request, NEW p \in Packet, GetPacket(t, r, p)
      PROVE PacketsOwned'
  <2>1. \A m \in InFlight : m.client # t  BY <1>1, Quiet DEF GetPacket
  <2>2. ~Open(t)  BY <1>1, <2>1 DEF GetPacket, Open
  <2>3. \A u \in Threads : Open(u) => Open(u)' /\ cd'[u] = cd[u]
    BY <1>1, <2>2 DEF GetPacket, TypeOK, Open, InFlight
  <2>4. Open(t)' /\ cd'[t].pkt = p  BY <1>1 DEF GetPacket, TypeOK, Open
  <2>5. \A q \in Packet : q # p => table'[q] = table[q]  BY <1>1 DEF GetPacket, TypeOK
  <2>6. lost' = lost  BY <1>1 DEF GetPacket
  <2>. QED  BY <2>3, <2>4, <2>5, <2>6 DEF PacketsOwned
<1>2. ASSUME NEW t \in Threads, CreateSema(t)
      PROVE PacketsOwned'
  BY <1>2 DEF CreateSema, NewSema, TypeOK, Ids, Carried, Messages, PacketsOwned, Waiting, Open, InFlight
<1>3. ASSUME NEW t \in Threads, CreateSemaFails(t)
      PROVE PacketsOwned'
  BY <1>3 DEF CreateSemaFails, TypeOK, Ids, Carried, Messages, PacketsOwned, Waiting, Open, InFlight
<1>4. ASSUME NEW t \in Threads, SendCmd(t)
      PROVE PacketsOwned'
  <2>1. MessageOf(t).client = t  BY DEF MessageOf
  <2>2. \A u \in Threads : Open(u) => Open(u)'
    BY <1>4, <2>1 DEF SendCmd, TypeOK, Open, InFlight
  <2>. QED  BY <1>4, <2>2 DEF SendCmd, PacketsOwned
<1>5. ASSUME NEW t \in Threads, SendCmdFails(t)
      PROVE PacketsOwned'
  BY <1>5 DEF SendCmdFails, TypeOK, Ids, Carried, Messages, PacketsOwned, Waiting, Open, InFlight
<1>6. ASSUME NEW t \in Threads, WaitSema(t)
      PROVE PacketsOwned'
  BY <1>6 DEF WaitSema, TypeOK, Ids, Carried, Messages, PacketsOwned, Waiting, Open, InFlight
<1>7. ASSUME NEW m \in asked, Answer(m)
      PROVE PacketsOwned'
  BY <1>7 DEF Answer, TypeOK, Message, Request, Ids, Carried, Messages, PacketsOwned, Waiting, Open, InFlight
<1>8. ASSUME NEW m \in replies, PacketCleared(m)
      PROVE PacketsOwned'
  BY <1>8 DEF PacketCleared, TypeOK, Message, Request, Freed, Ids, Carried, Messages, PacketsOwned, Waiting, Open, InFlight
<1>9. ASSUME NEW m \in replies, NEW found \in BOOLEAN, RequestEnd(m, found)
      PROVE PacketsOwned'
  <2>1. m \in InFlight /\ m.client \in Threads /\ InFlight' \subseteq InFlight
    BY <1>9 DEF RequestEnd, Signalled, TypeOK, Message, InFlight
  <2>2. \A n \in InFlight : n # m => n \in InFlight'
    BY <1>9 DEF RequestEnd, Signalled, InFlight
  <2>3. \A u \in Threads : u # m.client /\ Open(u) => Open(u)' /\ cd'[u] = cd[u]
    BY <1>9, <2>1, <2>2 DEF RequestEnd, Signalled, TypeOK, Open
  <2>4. cd[m.client].pkt \in Packet  BY <2>1 DEF Carried, Open
  <2>5. \A q \in Packet : /\ q = cd[m.client].pkt => ~table'[q].alloc
                          /\ q # cd[m.client].pkt => table'[q] = table[q]
    BY <1>9, <2>4 DEF RequestEnd, Signalled, TypeOK, Freed
  <2>6. lost' = lost  BY <1>9 DEF RequestEnd
  <2>. QED  BY <2>3, <2>5, <2>6 DEF PacketsOwned
<1>10. CASE UNCHANGED vars
  BY <1>10 DEF vars, TypeOK, Ids, Carried, Messages, PacketsOwned, Waiting, Open, InFlight
<1>. QED  BY <1>1, <1>2, <1>3, <1>4, <1>5, <1>6, <1>7, <1>8, <1>9, <1>10 DEF Next, Continue, Handle

(* A lost packet stays allocated, under an id nobody asks about.           *)
LEMMA NextLost == ASSUME IInv, [Next]_vars PROVE Lost'
<1>. USE DEF IInv, Packet
<1>1. ASSUME NEW t \in Threads, NEW r \in Request, NEW p \in Packet, GetPacket(t, r, p)
      PROVE Lost'
  BY <1>1 DEF GetPacket, FirstFree, TypeOK, Ids, Lost
<1>2. ASSUME NEW t \in Threads, CreateSema(t)
      PROVE Lost'
  BY <1>2 DEF CreateSema, TypeOK, Lost
<1>3. ASSUME NEW t \in Threads, CreateSemaFails(t)
      PROVE Lost'
  BY <1>3 DEF CreateSemaFails, TypeOK, Ids, Carried, Open, Lost
<1>4. ASSUME NEW t \in Threads, SendCmd(t)
      PROVE Lost'
  BY <1>4 DEF SendCmd, TypeOK, Lost
<1>5. ASSUME NEW t \in Threads, SendCmdFails(t)
      PROVE Lost'
  BY <1>5 DEF SendCmdFails, TypeOK, Ids, Carried, Open, Lost
<1>6. ASSUME NEW t \in Threads, WaitSema(t)
      PROVE Lost'
  BY <1>6 DEF WaitSema, TypeOK, Lost
<1>7. ASSUME NEW m \in asked, Answer(m)
      PROVE Lost'
  BY <1>7 DEF Answer, Lost
<1>8. ASSUME NEW m \in replies, \/ PacketCleared(m)
                                \/ \E found \in BOOLEAN : RequestEnd(m, found)
      PROVE Lost'
  <2>1. m \in InFlight /\ m.client \in Threads  BY DEF TypeOK, Message, InFlight
  <2>2. cd[m.client].pkt = m.pkt /\ pc[m.client] # "failed"  BY <2>1 DEF Messages
  <2>3. m.pkt \in Packet /\ table[m.pkt].id = cd[m.client].id
    BY <2>1, <2>2 DEF Carried, Open
  <2>4. m.pkt \notin lost  BY <2>1, <2>2, <2>3 DEF Lost
  <2>5. \A q \in lost : table'[q] = table[q]
    BY <1>8, <2>2, <2>4 DEF PacketCleared, RequestEnd, Freed, TypeOK
  <2>6. lost' = lost /\ pc' = pc /\ \A u \in Threads : cd'[u].id = cd[u].id
    <3>1. CASE PacketCleared(m)
      BY <3>1 DEF PacketCleared
    <3>2. ASSUME NEW found \in BOOLEAN, RequestEnd(m, found)
          PROVE  lost' = lost /\ pc' = pc /\ \A u \in Threads : cd'[u].id = cd[u].id
      BY <2>1, <3>2 DEF RequestEnd, TypeOK
    <3>. QED  BY <1>8, <3>1, <3>2
  <2>. QED  BY <2>5, <2>6 DEF Lost
<1>9. CASE UNCHANGED vars
  BY <1>9 DEF vars, Lost
<1>. QED  BY <1>1, <1>2, <1>3, <1>4, <1>5, <1>6, <1>7, <1>8, <1>9 DEF Next, Continue, Handle

(* A waiting thread has its answer or its signal to come.                  *)
LEMMA NextWaiting == ASSUME IInv, [Next]_vars PROVE Waiting'
<1>. USE DEF IInv, Packet
<1>1. ASSUME NEW t \in Threads, NEW r \in Request, NEW p \in Packet, GetPacket(t, r, p)
      PROVE Waiting'
  BY <1>1 DEF GetPacket, TypeOK, Message, Request, Carried, Messages, Waiting, Open, InFlight, CheckStat
<1>2. ASSUME NEW t \in Threads, CreateSema(t)
      PROVE Waiting'
  BY <1>2 DEF CreateSema, NewSema, TypeOK, Carried, Messages, Waiting, Open, InFlight
<1>3. ASSUME NEW t \in Threads, CreateSemaFails(t)
      PROVE Waiting'
  BY <1>3 DEF CreateSemaFails, TypeOK, Carried, Messages, Waiting, Open, InFlight
<1>4. ASSUME NEW t \in Threads, SendCmd(t)
      PROVE Waiting'
  <2>1. MessageOf(t).client = t  BY DEF MessageOf
  <2>2. Open(t)' /\ \A u \in Threads : u # t => (Open(u)' <=> Open(u))
    BY <1>4, <2>1 DEF SendCmd, TypeOK, Open, InFlight
  <2>3. \A u \in Threads : u # t => pc'[u] = pc[u]  BY <1>4 DEF SendCmd, TypeOK
  <2>4. pc'[t] = IF request[t].wait THEN "wait" ELSE "idle"  BY <1>4 DEF SendCmd, TypeOK
  <2>. QED  BY <1>4, <2>2, <2>3, <2>4 DEF SendCmd, Waiting
<1>5. ASSUME NEW t \in Threads, SendCmdFails(t)
      PROVE Waiting'
  BY <1>5 DEF SendCmdFails, TypeOK, Carried, Messages, Waiting, Open, InFlight
<1>6. ASSUME NEW t \in Threads, WaitSema(t)
      PROVE Waiting'
  BY <1>6 DEF WaitSema, TypeOK, Carried, Messages, Waiting, Open, InFlight
<1>7. ASSUME NEW m \in asked, Answer(m)
      PROVE Waiting'
  BY <1>7 DEF Answer, TypeOK, Message, Request, Carried, Messages, Waiting, Open, InFlight
<1>8. ASSUME NEW m \in replies, PacketCleared(m)
      PROVE Waiting'
  BY <1>8 DEF PacketCleared, TypeOK, Message, Request, Freed, Carried, Messages, Waiting, Open, InFlight
<1>9. ASSUME NEW m \in replies, NEW found \in BOOLEAN, RequestEnd(m, found)
      PROVE Waiting'
  BY <1>9 DEF RequestEnd, Signalled, TypeOK, Message, Request, Freed, Carried, Messages, Waiting, Open, InFlight
<1>10. CASE UNCHANGED vars
  BY <1>10 DEF vars, TypeOK, Carried, Messages, Waiting, Open, InFlight
<1>. QED  BY <1>1, <1>2, <1>3, <1>4, <1>5, <1>6, <1>7, <1>8, <1>9, <1>10 DEF Next, Continue, Handle

LEMMA InitIInv == Init => IInv
  BY NullAssumption DEF Init, IInv, TypeOK, Ids, Carried, Messages, PacketsOwned, Lost, Waiting, Open,
     InFlight, Packet, Request, Message

LEMMA NextIInv == IInv /\ [Next]_vars => IInv'
  BY NextType, NextIds, NextCarried, NextMessages, NextOwned, NextLost, NextWaiting DEF IInv

LEMMA Inductive == Spec => []IInv
  BY InitIInv, NextIInv, PTL DEF Spec

(* The shapes of the packet table, client data, semaphores and messages.   *)
THEOREM TypeCorrect == Spec => []TypeOK
<1>1. IInv => TypeOK  BY DEF IInv
<1>. QED  BY <1>1, Inductive, PTL

(* _rpc_get_packet never hands out a packet whose request is open, for any *)
(* number of threads and packets, and only a request that failed loses one. *)
THEOREM Exclusive == Spec => []PacketExclusive
<1>1. IInv => PacketExclusive
  BY NullAssumption DEF IInv, Ids, Carried, PacketExclusive, Packet
<1>. QED  BY <1>1, Inductive, PTL

(* _request_end always frees the packet of the request it answers.         *)
THEOREM AnswersMatch == Spec => []NoStrayEnd
<1>1. IInv => NoStrayEnd  BY DEF IInv, Messages, NoStrayEnd
<1>. QED  BY <1>1, Inductive, PTL

(* SifCheckStatRpc is exact for every request that did not fail.           *)
THEOREM StatExact == Spec => []CheckStatExact
<1>1. IInv => CheckStatExact
  <2>1. ASSUME IInv, NEW t \in Threads, pc[t] # "failed", CheckStat(t) PROVE Open(t)
    BY <2>1 DEF IInv, TypeOK, Ids, Carried, PacketsOwned, Lost, CheckStat
  <2>2. ASSUME IInv, NEW t \in Threads, Open(t) PROVE CheckStat(t)
    BY <2>2, NullAssumption DEF IInv, Carried, CheckStat, Packet
  <2>. QED  BY <2>1, <2>2 DEF CheckStatExact
<1>. QED  BY <1>1, Inductive, PTL

(* A waiting thread is signalled exactly by its own answer.                *)
THEOREM WakesRight == Spec => []WakeupExact
<1>1. IInv => WakeupExact  BY DEF IInv, Waiting, WakeupExact
<1>. QED  BY <1>1, Inductive, PTL
=============================================================================
