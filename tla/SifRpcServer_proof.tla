------------------------- MODULE SifRpcServer_proof -------------------------
(***************************************************************************)
(* No call is left behind by SifRpcLoop: a proof of NoLostWakeup for any  *)
(* number of servers and clients, any assignment of clients to servers    *)
(* (several to one included), any ring and packet table, and whether or   *)
(* not answers are dropped.                                                *)
(***************************************************************************)
EXTENDS SifRpcServer, TLAPS

(* The shapes of the variables that decide whether a thread sleeps.       *)
Shapes ==
    /\ qd \in [Servers -> [link : BOOLEAN, start : BOOLEAN, end : BOOLEAN, active : BOOLEAN]]
    /\ pc \in [Servers -> {"start", "register", "loop", "exec", "fill", "send", "dma",
                           "sleep", "asleep"}]
    /\ wake \in [Servers -> Nat]
    /\ inbox \in Seq([op : Op, client : Clients, pkt : Packet])

(* A thread that is marked active goes through SifGetNextRequest again    *)
(* before it sleeps; one that has left SifGetNextRequest with an empty    *)
(* queue has a wake-up pending if a call has come in since.                *)
Awake == \A s \in Servers :
            /\ qd[s].active => pc[s] \in {"loop", "exec", "fill", "send", "dma"}
            /\ pc[s] = "sleep" /\ qd[s].start => wake[s] > 0
            /\ pc[s] = "asleep" => ~qd[s].start
            /\ pc[s] = "start" => ~qd[s].active

IInv == Shapes /\ Awake

LEMMA InitIInv == Init => IInv
  BY DEF Init, IInv, Shapes, Awake

(* Taking the first command leaves a sequence of commands.                *)
LEMMA TakeFirst ==
  ASSUME NEW S, NEW q \in Seq(S), q # <<>>
  PROVE  Head(q) \in S /\ Tail(q) \in Seq(S)
  OBVIOUS

(* Each step of a server's thread keeps the invariant.                    *)
LEMMA ThreadStep ==
  ASSUME IInv, NEW s \in Servers, Thread(s)
  PROVE  IInv'
  <1>1. CASE SetRpcQueue(s)
    BY <1>1 DEF SetRpcQueue, IInv, Shapes, Awake, iopVars
  <1>2. CASE RegisterRpc(s)
    BY <1>2 DEF RegisterRpc, IInv, Shapes, Awake, iopVars
  <1>3. CASE GetNextRequest(s)
    <2>1. Shapes'
      BY <1>3 DEF GetNextRequest, Dequeued, IInv, Shapes
    <2>2. Awake'
      BY <1>3 DEF GetNextRequest, Dequeued, IInv, Shapes, Awake
    <2> QED BY <2>1, <2>2 DEF IInv
  <1>4. CASE ExecRequest(s) \/ FillRend(s) \/ LastDma(s)
    BY <1>4 DEF ExecRequest, FillRend, LastDma, IInv, Shapes, Awake
  <1>5. CASE SendRend(s)
    BY <1>5 DEF SendRend, IInv, Shapes, Awake
  <1>6. CASE SleepThread(s)
    BY <1>6 DEF SleepThread, IInv, Shapes, Awake
  <1> QED BY <1>1, <1>2, <1>3, <1>4, <1>5, <1>6 DEF Thread

(* _request_call may come in at any step of the thread.                   *)
LEMMA CallStep ==
  ASSUME IInv, RequestCall
  PROVE  IInv'
  <1> DEFINE s == ServerOf[Head(inbox).client]
  <1>1. /\ inbox # <<>> /\ inbox' = Tail(inbox)
        /\ qd' = [qd EXCEPT ![s].start = TRUE, ![s].end = TRUE]
        /\ IF qd[s].active THEN UNCHANGED <<pc, wake>> ELSE Wakeup(s)
    BY DEF RequestCall, Taken, Waiting, Active
  <1>2. s \in Servers /\ inbox' \in Seq([op : Op, client : Clients, pkt : Packet])
    <2>1. Head(inbox) \in [op : Op, client : Clients, pkt : Packet]
      BY <1>1, TakeFirst DEF IInv, Shapes
    <2>2. Head(inbox).client \in Clients
      BY <2>1
    <2>3. inbox' \in Seq([op : Op, client : Clients, pkt : Packet])
      BY <1>1 DEF IInv, Shapes
    <2> QED BY <2>2, <2>3, ClientAssumption
  <1>3. /\ qd' \in [Servers -> [link : BOOLEAN, start : BOOLEAN, end : BOOLEAN, active : BOOLEAN]]
        /\ \A t \in Servers : qd'[t].active = qd[t].active
        /\ \A t \in Servers : t # s => qd'[t] = qd[t]
    BY <1>1, <1>2 DEF IInv, Shapes
  <1>4. CASE qd[s].active
    BY <1>1, <1>2, <1>3, <1>4 DEF IInv, Shapes, Awake
  <1>5. CASE ~qd[s].active /\ pc[s] = "asleep"
    <2>1. pc' = [pc EXCEPT ![s] = "loop"] /\ wake' = wake
      BY <1>1, <1>5 DEF Wakeup
    <2> QED BY <1>2, <1>3, <2>1 DEF IInv, Shapes, Awake
  <1>6. CASE ~qd[s].active /\ pc[s] # "asleep"
    <2>1. wake' = [wake EXCEPT ![s] = @ + 1] /\ pc' = pc
      BY <1>1, <1>6 DEF Wakeup
    <2>2. wake' \in [Servers -> Nat] /\ wake'[s] > 0 /\ \A t \in Servers : t # s => wake'[t] = wake[t]
      BY <1>2, <2>1 DEF IInv, Shapes
    <2> QED BY <1>2, <1>3, <1>6, <2>1, <2>2 DEF IInv, Shapes, Awake
  <1> QED BY <1>4, <1>5, <1>6

LEMMA NextIInv == IInv /\ [Next]_vars => IInv'
  <1> SUFFICES ASSUME IInv, [Next]_vars PROVE IInv'  OBVIOUS
  <1>1. ASSUME NEW s \in Servers, Thread(s) PROVE IInv'
    BY <1>1, ThreadStep
  <1>2. CASE RequestBind \/ RequestRdata
    <2>1. inbox # <<>> /\ inbox' = Tail(inbox) /\ UNCHANGED serverVars
      BY <1>2 DEF RequestBind, RequestRdata, Taken
    <2>2. inbox' \in Seq([op : Op, client : Clients, pkt : Packet])
      BY <2>1 DEF IInv, Shapes
    <2> QED BY <2>1, <2>2 DEF serverVars, IInv, Shapes, Awake
  <1>3. CASE RequestCall
    BY <1>3, CallStep
  <1>4. ASSUME NEW c \in Clients, NEW op \in Op, NEW p \in Packet, IopRequest(c, op, p)
        PROVE  IInv'
    BY <1>4 DEF IopRequest, serverVars, IInv, Shapes, Awake
  <1>5. ASSUME NEW c \in Clients, IopPolled(c) PROVE IInv'
    BY <1>5 DEF IopPolled, serverVars, IInv, Shapes, Awake
  <1>6. CASE IopReceive
    BY <1>6 DEF IopReceive, serverVars, IInv, Shapes, Awake
  <1>7. CASE UNCHANGED vars
    BY <1>7 DEF vars, serverVars, IInv, Shapes, Awake
  <1> QED BY <1>1, <1>2, <1>3, <1>4, <1>5, <1>6, <1>7 DEF Next, Handler

(* SifRpcLoop never sleeps while a call is in its queue, although         *)
(* _request_call wakes the thread only when active is 0 (sifrpc.c:369).   *)
THEOREM CallsNoticed == Spec => []NoLostWakeup
  <1>1. IInv => NoLostWakeup
    BY DEF IInv, Awake, NoLostWakeup
  <1> QED BY <1>1, InitIInv, NextIInv, PTL DEF Spec
=============================================================================
