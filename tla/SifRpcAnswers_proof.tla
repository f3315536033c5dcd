------------------------ MODULE SifRpcAnswers_proof ------------------------
(***************************************************************************)
(* The server runs each request once, for the client that waits for it,   *)
(* and every answer finds that client: proofs about SifRpcServer for any  *)
(* number of servers, packets and ring entries, with lost answers.         *)
(***************************************************************************)
EXTENDS SifRpcServer_proof

(* What the code needs for it: a server has one client, the ring is long  *)
(* enough, and a client that waits for the END packet wants data back     *)
(* (its packet is cleared a second time otherwise, sifrpc.c:633-641).      *)
Usual == /\ \A c, d \in Clients : ServerOf[c] = ServerOf[d] => c = d
         /\ ~Laps
         /\ \A c \in Clients : Rmode[c] = 1 => Rsize[c]

Transfer == [kind : {"end"}, slot : Ring] \cup [kind : {"clear"}, pkt : Packet \cup {Null}]
                \cup [kind : {"data"}, client : Clients]
Forms ==
    /\ sd \in [Servers -> [link : Servers \cup {Null}, client : Clients \cup {Null},
                           pkt : Packet \cup {Null}]]
    /\ slot \in [Servers -> Ring]
    /\ ring \in [Ring -> [client : Clients \cup {Null}, cid : Op \cup {Null}, found : BOOLEAN]]
    /\ cl \in [Clients -> [st : {"unbound", "bound"} \cup Op, pkt : Packet \cup {Null}]]
    /\ ipkt \in [Packet -> Clients \cup {Null}]
    /\ outbox \in Seq(Transfer)

(* Where the request of a client is: in the inbox, with a server, or       *)
(* answered by an END packet or by clearing its packet.                    *)
InAt(c, i) == i \in 1 .. Len(inbox) /\ inbox[i].client = c
Running(s) == pc[s] \in {"exec", "fill", "send"} \/ (pc[s] = "dma" /\ Rmode[sd[s].client] = 0)
Serves(c, s) == s \in Servers /\ sd[s].client = c /\ (qd[s].start \/ Running(s))
EndAt(c, i) == /\ i \in 1 .. Len(outbox) /\ outbox[i].kind = "end"
               /\ ring[outbox[i].slot].client = c
ClearAt(c, i) == /\ i \in 1 .. Len(outbox) /\ outbox[i].kind = "clear"
                 /\ cl[c].pkt \in Packet /\ outbox[i].pkt = cl[c].pkt /\ ipkt[cl[c].pkt] = c
OutAt(c, i) == EndAt(c, i) \/ ClearAt(c, i)

(* It is in one place at most... *)
Single(c) ==
    /\ \A i, j : InAt(c, i) /\ InAt(c, j) => i = j
    /\ \A i, j : OutAt(c, i) /\ OutAt(c, j) => i = j
    /\ \A i, s : ~(InAt(c, i) /\ Serves(c, s))
    /\ \A i, j : ~(InAt(c, i) /\ OutAt(c, j))
    /\ \A s, j : ~(Serves(c, s) /\ OutAt(c, j))

(* ...and there it is the one the client has under way, in its packet. *)
Marked(c) == cl[c].pkt \in Packet /\ ipkt[cl[c].pkt] = c
Right(c) ==
    /\ \A i : InAt(c, i) => inbox[i].op = cl[c].st /\ inbox[i].pkt = cl[c].pkt /\ Marked(c)
    /\ \A s : Serves(c, s) => cl[c].st = "call" /\ sd[s].pkt = cl[c].pkt /\ Marked(c)
    /\ \A i : EndAt(c, i) => /\ ring[outbox[i].slot].cid \in Op
                             /\ ring[outbox[i].slot].cid = cl[c].st /\ Marked(c)
    /\ \A i : ClearAt(c, i) => cl[c].st = "call" /\ Rmode[c] = 0

Requests == \A c \in Clients : Single(c) /\ Right(c)

(* A packet of the ring is filled or sent by one at a time. *)
Filling(s) == pc[s] \in {"fill", "send"}
End(i) == i \in 1 .. Len(outbox) /\ outbox[i].kind = "end"
Apart ==
    /\ \A i, j : End(i) /\ End(j) /\ outbox[i].slot = outbox[j].slot => i = j
    /\ \A s, t \in Servers : Filling(s) /\ Filling(t) /\ slot[s] = slot[t] => s = t
    /\ \A s \in Servers : \A i : Filling(s) /\ End(i) => outbox[i].slot # slot[s]

(* Who is served and answered. *)
Names ==
    /\ \A s \in Servers : qd[s].start \/ pc[s] \in {"exec", "fill", "send", "dma"} =>
                              sd[s].client \in Clients /\ ServerOf[sd[s].client] = s
    /\ \A s \in Servers : ~(qd[s].start /\ Running(s)) /\ sd[s].link # s
    /\ \A s \in Servers : pc[s] = "send" =>
                              ring[slot[s]].client = sd[s].client /\ ring[slot[s]].cid = "call"
    /\ \A i : End(i) => ring[outbox[i].slot].client \in Clients
    /\ \A i \in 1 .. Len(outbox) : outbox[i].kind = "clear" => \E c \in Clients : ClearAt(c, i)

AInv == IInv /\ Forms /\ Requests /\ Apart /\ Names

-----------------------------------------------------------------------------
(* A client keeps its request when the places where it is are places where *)
(* it was, d commands further on in the inbox and e transfers in the       *)
(* outbox.                                                                 *)
Keeps(c, d, e) ==
    /\ cl'[c] = cl[c] /\ (Marked(c) => ipkt'[cl[c].pkt] = c)
    /\ \A i : InAt(c, i)' => i + d \in Nat /\ i \in Nat /\ InAt(c, i + d) /\ inbox'[i] = inbox[i + d]
    /\ \A s : Serves(c, s)' => Serves(c, s) /\ sd'[s].pkt = sd[s].pkt
    /\ \A i : EndAt(c, i)' => /\ i \in Nat /\ EndAt(c, i + e)
                              /\ ring'[outbox'[i].slot].cid = ring[outbox[i + e].slot].cid
    /\ \A i : ClearAt(c, i)' => i \in Nat /\ ClearAt(c, i + e)

LEMMA KeepsRequest ==
  ASSUME NEW c, Single(c), Right(c), NEW d \in {0, 1}, NEW e \in {0, 1}, Keeps(c, d, e)
  PROVE  Single(c)' /\ Right(c)'
  <1>1. \A i : OutAt(c, i)' => i \in Nat /\ OutAt(c, i + e)
    BY DEF Keeps, OutAt
  <1>2. \A i : InAt(c, i)' => i \in Nat /\ InAt(c, i + d)
    BY DEF Keeps
  <1>3. \A s : Serves(c, s)' => Serves(c, s)
    BY DEF Keeps
  <1>4. ASSUME NEW i, NEW j, InAt(c, i)', InAt(c, j)' PROVE i = j
    <2>1. i \in Nat /\ j \in Nat /\ i + d = j + d
      BY <1>2, <1>4 DEF Single
    <2> QED BY <2>1
  <1>5. ASSUME NEW i, NEW j, OutAt(c, i)', OutAt(c, j)' PROVE i = j
    <2>1. i \in Nat /\ j \in Nat /\ i + e = j + e
      BY <1>1, <1>5 DEF Single
    <2> QED BY <2>1
  <1>6. Single(c)'
    BY <1>1, <1>2, <1>3, <1>4, <1>5 DEF Single
  <1>7. \A i : InAt(c, i)' => inbox'[i].op = cl'[c].st /\ inbox'[i].pkt = cl'[c].pkt /\ Marked(c)'
    BY DEF Keeps, Right, Marked
  <1>8. \A s : Serves(c, s)' => cl'[c].st = "call" /\ sd'[s].pkt = cl'[c].pkt /\ Marked(c)'
    BY DEF Keeps, Right, Marked
  <1>9. \A i : EndAt(c, i)' => /\ ring'[outbox'[i].slot].cid \in Op
                              /\ ring'[outbox'[i].slot].cid = cl'[c].st /\ Marked(c)'
    BY DEF Keeps, Right, Marked
  <1>10. \A i : ClearAt(c, i)' => cl'[c].st = "call" /\ Rmode[c] = 0
    BY DEF Keeps, Right
  <1> QED BY <1>6, <1>7, <1>8, <1>9, <1>10 DEF Right

(* A client whose request is nowhere: it has none, or it was lost. *)
Nowhere(c) == \A x : ~InAt(c, x) /\ ~Serves(c, x) /\ ~EndAt(c, x) /\ ~ClearAt(c, x)

LEMMA NowhereRight ==
  ASSUME NEW c, Nowhere(c)'
  PROVE  Single(c)' /\ Right(c)'
  BY DEF Nowhere, Single, Right, OutAt

(* The inbox and the outbox after an append or without the first entry. *)
LEMMA Appended ==
  ASSUME NEW S, NEW q \in Seq(S), NEW x \in S
  PROVE  /\ Append(q, x) \in Seq(S) /\ Len(q) \in Nat /\ Len(Append(q, x)) = Len(q) + 1
         /\ \A i \in 1 .. Len(q) : Append(q, x)[i] = q[i]
         /\ Append(q, x)[Len(q) + 1] = x /\ Append(q, x) # q
  OBVIOUS

LEMMA Shifted ==
  ASSUME NEW S, NEW q \in Seq(S), q # <<>>
  PROVE  /\ Tail(q) \in Seq(S) /\ Len(q) \in Nat \ {0} /\ Len(Tail(q)) = Len(q) - 1
         /\ \A i \in 1 .. Len(q) - 1 : Tail(q)[i] = q[i + 1]
         /\ Head(q) = q[1] /\ q[1] \in S
  OBVIOUS

LEMMA InitAInv == Init => AInv
  <1> SUFFICES ASSUME Init PROVE AInv
    OBVIOUS
  <1>1. IInv
    BY InitIInv
  <1>2. Forms
    BY RingAssumption DEF Init, Forms, Ring
  <1>3. Len(inbox) = 0 /\ Len(outbox) = 0 /\ \A i : i \notin 1 .. 0
    BY DEF Init
  <1>4. \A c \in Clients : Nowhere(c)
    BY <1>3 DEF Init, Nowhere, InAt, Serves, Running, EndAt, ClearAt
  <1>5. Requests
    BY <1>4 DEF Requests, Nowhere, Single, Right, OutAt
  <1>6. Apart
    BY <1>3 DEF Init, Apart, Filling, End
  <1>7. Names
    BY <1>3, NullAssumption DEF Init, Names, Running, End
  <1> QED BY <1>1, <1>2, <1>5, <1>6, <1>7 DEF AInv

-----------------------------------------------------------------------------
(* Steps of a thread that neither take nor give an answer. *)
LEMMA QuietThread ==
  ASSUME AInv,
         UNCHANGED <<iopVars, inbox, outbox>>,
         \A t \in Servers : sd'[t].client = sd[t].client /\ sd'[t].pkt = sd[t].pkt,
         \A t \in Servers : qd'[t].start \/ Running(t)' => qd[t].start \/ Running(t),
         \A i \in 1 .. Len(outbox) : outbox[i].kind = "end" =>
                                     ring'[outbox[i].slot] = ring[outbox[i].slot]
  PROVE  Requests'
  <1> SUFFICES ASSUME NEW c \in Clients PROVE Single(c)' /\ Right(c)'
    BY DEF Requests
  <1>1. Single(c) /\ Right(c)
    BY DEF AInv, Requests
  <1>2. inbox' = inbox /\ outbox' = outbox /\ cl' = cl /\ ipkt' = ipkt
    BY DEF iopVars
  <1>3. \A i : InAt(c, i)' => i + 0 \in Nat /\ i \in Nat /\ InAt(c, i + 0) /\ inbox'[i] = inbox[i + 0]
    BY <1>2 DEF InAt, AInv, IInv, Shapes
  <1>4. \A t : Serves(c, t)' => Serves(c, t) /\ sd'[t].pkt = sd[t].pkt
    BY DEF Serves
  <1>5. \A i : EndAt(c, i)' => i \in Nat /\ EndAt(c, i + 0)
                              /\ ring'[outbox'[i].slot].cid = ring[outbox[i + 0].slot].cid
    BY <1>2 DEF EndAt, AInv, Forms
  <1>6. \A i : ClearAt(c, i)' => i \in Nat /\ ClearAt(c, i + 0)
    BY <1>2 DEF ClearAt, AInv, Forms
  <1>7. Keeps(c, 0, 0)
    BY <1>2, <1>3, <1>4, <1>5, <1>6 DEF Keeps, Marked
  <1> QED BY <1>1, <1>7, KeepsRequest

(* The clears in the outbox are still the clients'. *)
LEMMA SameClears ==
  ASSUME AInv, UNCHANGED <<iopVars, outbox>>
  PROVE  \A i \in 1 .. Len(outbox') : outbox'[i].kind = "clear" => \E c \in Clients : ClearAt(c, i)'
  BY DEF AInv, Names, ClearAt, iopVars

LEMMA StartsKeep ==
  ASSUME AInv, NEW s \in Servers,
         SetRpcQueue(s) \/ RegisterRpc(s) \/ GetNextRequest(s) \/ SleepThread(s)
  PROVE  AInv'
  <1>0. IInv /\ Forms /\ Apart /\ Names /\ Shapes
    BY DEF AInv, IInv
  <1>1. IInv'
    BY <1>0, ThreadStep DEF Thread
  <1>2. UNCHANGED <<iopVars, inbox, outbox>> /\ ring' = ring /\ slot' = slot
    BY DEF SetRpcQueue, RegisterRpc, GetNextRequest, SleepThread
  <1>3. /\ \A t \in Servers : sd'[t].client = sd[t].client /\ sd'[t].pkt = sd[t].pkt
        /\ \A t \in Servers : sd'[t].link \in {sd[t].link, Null}
        /\ Forms'
    <2>1. sd' = sd \/ sd' = [sd EXCEPT ![s].link = Null]
      BY DEF SetRpcQueue, RegisterRpc, GetNextRequest, SleepThread
    <2>2. /\ sd' \in [Servers -> [link : Servers \cup {Null}, client : Clients \cup {Null},
                                  pkt : Packet \cup {Null}]]
          /\ \A t \in Servers : sd'[t].client = sd[t].client /\ sd'[t].pkt = sd[t].pkt
          /\ \A t \in Servers : sd'[t].link \in {sd[t].link, Null}
      <3>1. CASE sd' = sd
        BY <1>0, <3>1 DEF Forms
      <3>2. CASE sd' = [sd EXCEPT ![s].link = Null]
        <4>1. sd'[s] = [link |-> Null, client |-> sd[s].client, pkt |-> sd[s].pkt]
          BY <1>0, <3>2 DEF Forms
        <4>2. \A t \in Servers : t # s => sd'[t] = sd[t]
          BY <1>0, <3>2 DEF Forms
        <4>3. sd' \in [Servers -> [link : Servers \cup {Null}, client : Clients \cup {Null},
                                  pkt : Packet \cup {Null}]]
          BY <1>0, <3>2, ZenonT(60) DEF Forms
        <4> QED BY <4>1, <4>2, <4>3
      <3> QED BY <2>1, <3>1, <3>2
    <2> QED BY <1>0, <1>2, <2>2 DEF Forms, iopVars
  <1>4. \A t \in Servers : t # s => qd'[t] = qd[t] /\ pc'[t] = pc[t]
    BY <1>0 DEF SetRpcQueue, RegisterRpc, GetNextRequest, SleepThread, Shapes
  <1>5. /\ pc[s] \in {"start", "register", "loop", "sleep"}
        /\ pc'[s] \in {"register", "loop", "exec", "sleep", "asleep"}
        /\ qd'[s].start \/ pc'[s] = "exec" => qd[s].start
        /\ ~(qd'[s].start /\ pc'[s] = "exec")
    <2>1. CASE SetRpcQueue(s)
      BY <1>0, <2>1 DEF SetRpcQueue, Shapes
    <2>2. CASE RegisterRpc(s)
      BY <1>0, <2>2 DEF RegisterRpc, Shapes
    <2>3. CASE GetNextRequest(s)
      <3>1. qd'[s].start = FALSE
        BY <1>0, <2>3 DEF GetNextRequest, Dequeued, Shapes
      <3> QED BY <1>0, <2>3, <3>1 DEF GetNextRequest, Shapes
    <2>4. CASE SleepThread(s)
      BY <1>0, <2>4 DEF SleepThread, Shapes
    <2> QED BY <2>1, <2>2, <2>3, <2>4
  <1>6. \A t \in Servers : qd'[t].start \/ Running(t)' => qd[t].start \/ Running(t)
    BY <1>3, <1>4, <1>5 DEF Running
  <1>7. Requests'
    BY <1>2, <1>3, <1>6, QuietThread
  <1>8. Apart'
    BY <1>0, <1>2, <1>4, <1>5 DEF Apart, Filling, End
  <1>9. /\ \A t \in Servers : qd'[t].start \/ pc'[t] \in {"exec", "fill", "send", "dma"} =>
                              sd'[t].client \in Clients /\ ServerOf[sd'[t].client] = t
        /\ \A t \in Servers : ~(qd'[t].start /\ Running(t)')
    BY <1>0, <1>3, <1>4, <1>5 DEF Names, Running
  <1>10. \A t \in Servers : sd'[t].link # t
    BY <1>0, <1>3, NullAssumption DEF Names
  <1>11. /\ \A t \in Servers : pc'[t] = "send" =>
                  ring'[slot'[t]].client = sd'[t].client /\ ring'[slot'[t]].cid = "call"
         /\ \A i : End(i)' => ring'[outbox'[i].slot].client \in Clients
    BY <1>0, <1>2, <1>3, <1>4, <1>5 DEF Names, End
  <1>12. Names'
    BY <1>2, <1>9, <1>10, <1>11, SameClears, SMTT(60) DEF Names
  <1> QED BY <1>1, <1>3, <1>7, <1>8, <1>12 DEF AInv

-----------------------------------------------------------------------------
(* A transfer x is added to the outbox and is not an answer to c... *)
LEMMA OtherAnswer ==
  ASSUME AInv, NEW c \in Clients, UNCHANGED iopVars, NEW d \in {0, 1},
         \A i : InAt(c, i)' => i + d \in Nat /\ i \in Nat /\ InAt(c, i + d) /\ inbox'[i] = inbox[i + d],
         \A t : Serves(c, t)' => Serves(c, t) /\ sd'[t].pkt = sd[t].pkt,
         NEW x \in Transfer, outbox' = Append(outbox, x),
         \A i \in 1 .. Len(outbox) : outbox[i].kind = "end" =>
                                     ring'[outbox[i].slot] = ring[outbox[i].slot],
         x.kind = "end" => ring'[x.slot].client # c,
         x.kind = "clear" => ~Marked(c) \/ x.pkt # cl[c].pkt
  PROVE  Single(c)' /\ Right(c)'
  <1>1. Single(c) /\ Right(c)
    BY DEF AInv, Requests
  <1>2. /\ Len(outbox) \in Nat /\ Len(outbox') = Len(outbox) + 1
        /\ \A i \in 1 .. Len(outbox) : outbox'[i] = outbox[i]
        /\ outbox'[Len(outbox) + 1] = x
    BY Appended DEF AInv, Forms
  <1>3. cl' = cl /\ ipkt' = ipkt
    BY DEF iopVars
  <1>4. ASSUME NEW i, EndAt(c, i)'
        PROVE  /\ i \in Nat /\ EndAt(c, i + 0)
               /\ ring'[outbox'[i].slot].cid = ring[outbox[i + 0].slot].cid
    <2>1. i \in 1 .. Len(outbox)
      BY <1>2, <1>4 DEF EndAt
    <2> QED BY <1>2, <1>4, <2>1 DEF EndAt
  <1>5. ASSUME NEW i, ClearAt(c, i)' PROVE i \in Nat /\ ClearAt(c, i + 0)
    <2>1. i \in 1 .. Len(outbox)
      BY <1>2, <1>3, <1>5 DEF ClearAt, Marked
    <2> QED BY <1>2, <1>3, <1>5, <2>1 DEF ClearAt
  <1>6. Keeps(c, d, 0)
    BY <1>3, <1>4, <1>5, Zenon DEF Keeps, Marked
  <1> QED BY <1>1, <1>6, KeepsRequest

(* ...or is the answer to it. *)
LEMMA OwnAnswer ==
  ASSUME AInv, NEW c \in Clients, UNCHANGED iopVars,
         \A i : ~InAt(c, i)', \A t : ~Serves(c, t)', \A i : ~OutAt(c, i), Marked(c),
         NEW x \in Transfer, outbox' = Append(outbox, x),
         \A i \in 1 .. Len(outbox) : outbox[i].kind = "end" =>
                                     ring'[outbox[i].slot] = ring[outbox[i].slot],
         x.kind = "end" => ring'[x.slot].cid = cl[c].st /\ cl[c].st \in Op,
         x.kind = "clear" => cl[c].st = "call" /\ Rmode[c] = 0
  PROVE  Single(c)' /\ Right(c)'
  <1>1. /\ Len(outbox) \in Nat /\ Len(outbox') = Len(outbox) + 1
        /\ \A i \in 1 .. Len(outbox) : outbox'[i] = outbox[i]
        /\ outbox'[Len(outbox) + 1] = x
    BY Appended DEF AInv, Forms
  <1>2. cl' = cl /\ ipkt' = ipkt /\ Marked(c)'
    BY DEF iopVars, Marked
  <1>3. ASSUME NEW i, OutAt(c, i)' PROVE i = Len(outbox) + 1
    <2>1. i \in 1 .. Len(outbox) => FALSE
      BY <1>1, <1>2, <1>3 DEF OutAt, EndAt, ClearAt
    <2> QED BY <1>1, <1>3, <2>1, SMTT(60) DEF OutAt, EndAt, ClearAt
  <1>4. Single(c)'
    BY <1>3, Zenon DEF Single
  <1>5. \A i : EndAt(c, i)' => ring'[outbox'[i].slot].cid \in Op /\ ring'[outbox'[i].slot].cid = cl'[c].st
    BY <1>1, <1>2, <1>3 DEF OutAt, EndAt
  <1>6. \A i : ClearAt(c, i)' => cl'[c].st = "call" /\ Rmode[c] = 0
    BY <1>1, <1>2, <1>3 DEF OutAt, ClearAt
  <1> QED BY <1>2, <1>4, <1>5, <1>6, Zenon DEF Right

LEMMA MoreClears ==
  ASSUME AInv, UNCHANGED iopVars, NEW x \in Transfer, outbox' = Append(outbox, x),
         x.kind = "clear" => \E c \in Clients : Marked(c) /\ x.pkt = cl[c].pkt
  PROVE  \A i \in 1 .. Len(outbox') : outbox'[i].kind = "clear" => \E c \in Clients : ClearAt(c, i)'
  <1>1. /\ Len(outbox) \in Nat /\ Len(outbox') = Len(outbox) + 1
        /\ \A i \in 1 .. Len(outbox) : outbox'[i] = outbox[i]
        /\ outbox'[Len(outbox) + 1] = x
    BY Appended DEF AInv, Forms
  <1>2. cl' = cl /\ ipkt' = ipkt
    BY DEF iopVars
  <1> SUFFICES ASSUME NEW i \in 1 .. Len(outbox'), outbox'[i].kind = "clear"
               PROVE  \E c \in Clients : ClearAt(c, i)'
    OBVIOUS
  <1>3. CASE i \in 1 .. Len(outbox)
    <2>1. PICK c \in Clients : ClearAt(c, i)
      BY <1>1, <1>3 DEF AInv, Names
    <2>2. ClearAt(c, i)'
      BY <1>1, <1>2, <1>3, <2>1 DEF ClearAt
    <2> QED BY <2>2
  <1>4. CASE i \notin 1 .. Len(outbox)
    <2>1. i = Len(outbox) + 1
      BY <1>1, <1>4
    <2>2. PICK c \in Clients : Marked(c) /\ x.pkt = cl[c].pkt
      BY <1>1, <2>1
    <2>3. ClearAt(c, i)'
      BY <1>1, <1>2, <2>1, <2>2 DEF ClearAt, Marked
    <2> QED BY <2>3
  <1> QED BY <1>3, <1>4

(* An END packet is added whose ring packet nobody else has. *)
LEMMA MoreEnds ==
  ASSUME AInv, NEW x \in Transfer, outbox' = Append(outbox, x),
         x.kind = "end" => /\ \A i : End(i) => outbox[i].slot # x.slot
                           /\ \A t \in Servers : Filling(t)' => slot[t] # x.slot
                           /\ ring'[x.slot].client \in Clients,
         \A t \in Servers : Filling(t)' => Filling(t), slot' = slot,
         \A i \in 1 .. Len(outbox) : outbox[i].kind = "end" =>
                                     ring'[outbox[i].slot] = ring[outbox[i].slot]
  PROVE  Apart' /\ \A i : End(i)' => ring'[outbox'[i].slot].client \in Clients
  <1>1. /\ Len(outbox) \in Nat /\ Len(outbox') = Len(outbox) + 1
        /\ \A i \in 1 .. Len(outbox) : outbox'[i] = outbox[i]
        /\ outbox'[Len(outbox) + 1] = x
    BY Appended DEF AInv, Forms
  <1>2. \A i : End(i)' => \/ End(i) /\ outbox'[i] = outbox[i]
                          \/ i = Len(outbox) + 1 /\ outbox'[i] = x /\ x.kind = "end"
    BY <1>1 DEF End
  <1>3. \A i : End(i) => ring'[outbox[i].slot].client \in Clients
    BY DEF AInv, Names, End
  <1>4. Apart'
    <2>0. Apart
      BY DEF AInv
    <2>1. ASSUME NEW i, NEW j, End(i)', End(j)', outbox'[i].slot = outbox'[j].slot PROVE i = j
      <3>1. CASE outbox'[i] = x /\ x.kind = "end" /\ i = Len(outbox) + 1
        <4>1. ~End(j)
          BY <1>1, <2>1, <3>1 DEF End
        <4> QED BY <1>2, <2>1, <3>1, <4>1
      <3>2. CASE outbox'[j] = x /\ x.kind = "end" /\ j = Len(outbox) + 1
        <4>1. ~End(i)
          BY <1>1, <2>1, <3>2 DEF End
        <4> QED BY <1>2, <2>1, <3>2, <4>1
      <3>3. CASE End(i) /\ End(j) /\ outbox'[i] = outbox[i] /\ outbox'[j] = outbox[j]
        BY <2>0, <2>1, <3>3 DEF Apart
      <3> QED BY <1>2, <2>1, <3>1, <3>2, <3>3, Zenon
    <2>2. \A t, u \in Servers : Filling(t)' /\ Filling(u)' /\ slot'[t] = slot'[u] => t = u
      BY <2>0 DEF Apart
    <2>3. \A t \in Servers : \A i : Filling(t)' /\ End(i)' => outbox'[i].slot # slot'[t]
      BY <1>2, <2>0, Zenon DEF Apart
    <2> QED BY <2>1, <2>2, <2>3, Zenon DEF Apart
  <1> QED BY <1>2, <1>3, <1>4, Zenon

LEMMA ExecKeeps ==
  ASSUME AInv, Usual, NEW s \in Servers, ExecRequest(s)
  PROVE  AInv'
  <1>0. IInv /\ Forms /\ Apart /\ Names /\ Shapes
    BY DEF AInv, IInv
  <1>1. IInv'
    BY <1>0, ThreadStep DEF Thread
  <1>2. PICK k \in Ring : k \notin InUse /\ slot' = [slot EXCEPT ![s] = k]
    BY Zenon DEF ExecRequest, RpcGetFpacket, Usual
  <1>3. /\ pc[s] = "exec" /\ pc' = [pc EXCEPT ![s] = "fill"]
        /\ UNCHANGED <<qd, sd, ring, iopVars, inbox, outbox>>
    BY DEF ExecRequest
  <1>4. /\ pc'[s] = "fill" /\ slot'[s] = k
        /\ \A t \in Servers : t # s => pc'[t] = pc[t] /\ slot'[t] = slot[t]
    BY <1>0, <1>2, <1>3 DEF Shapes, Forms
  <1>5. Forms'
    BY <1>0, <1>2, <1>3 DEF Forms, iopVars
  <1>6. \A t \in Servers : qd'[t].start \/ Running(t)' => qd[t].start \/ Running(t)
    BY <1>3, <1>4 DEF Running
  <1>7. Requests'
    BY <1>3, <1>6, QuietThread
  <1>8. /\ \A i : End(i) => outbox[i].slot # k
        /\ \A t \in Servers : Filling(t) => slot[t] # k
    BY <1>2 DEF InUse, Sending, End, Filling
  <1>9. Apart'
    BY <1>0, <1>3, <1>4, <1>8 DEF Apart, Filling, End
  <1>10. /\ \A t \in Servers : qd'[t].start \/ pc'[t] \in {"exec", "fill", "send", "dma"} =>
                              sd'[t].client \in Clients /\ ServerOf[sd'[t].client] = t
         /\ \A t \in Servers : ~(qd'[t].start /\ Running(t)') /\ sd'[t].link # t
         /\ \A t \in Servers : pc'[t] = "send" =>
                  ring'[slot'[t]].client = sd'[t].client /\ ring'[slot'[t]].cid = "call"
         /\ \A i : End(i)' => ring'[outbox'[i].slot].client \in Clients
    BY <1>0, <1>3, <1>4, SMTT(60) DEF Names, Running, End
  <1>11. Names'
    BY <1>3, <1>10, SameClears DEF Names
  <1> QED BY <1>1, <1>5, <1>7, <1>9, <1>11 DEF AInv

LEMMA FillKeeps ==
  ASSUME AInv, NEW s \in Servers, FillRend(s)
  PROVE  AInv'
  <1> DEFINE k == slot[s]
  <1>0. IInv /\ Forms /\ Apart /\ Names /\ Shapes
    BY DEF AInv, IInv
  <1>1. IInv'
    BY <1>0, ThreadStep DEF Thread
  <1>2. /\ pc[s] = "fill" /\ pc' = [pc EXCEPT ![s] = "send"]
        /\ ring' = [ring EXCEPT ![k].client = sd[s].client, ![k].cid = "call"]
        /\ UNCHANGED <<qd, sd, slot, iopVars, inbox, outbox>>
    BY DEF FillRend
  <1>3. k \in Ring /\ sd[s].client \in Clients
    BY <1>0, <1>2 DEF Forms, Names
  <1>4. /\ ring' \in [Ring -> [client : Clients \cup {Null}, cid : Op \cup {Null}, found : BOOLEAN]]
        /\ ring'[k].client = sd[s].client /\ ring'[k].cid = "call"
        /\ \A j \in Ring : j # k => ring'[j] = ring[j]
    <2>1. ring'[k] = [ring[k] EXCEPT !.client = sd[s].client, !.cid = "call"]
      BY <1>0, <1>2, <1>3 DEF Forms
    <2>2. ring[k] \in [client : Clients \cup {Null}, cid : Op \cup {Null}, found : BOOLEAN]
      BY <1>0, <1>3 DEF Forms
    <2>3. ring'[k] \in [client : Clients \cup {Null}, cid : Op \cup {Null}, found : BOOLEAN]
      BY <1>3, <2>1, <2>2, Zenon DEF Op
    <2>4. /\ ring'[k].client = sd[s].client /\ ring'[k].cid = "call"
          /\ \A j \in Ring : j # k => ring'[j] = ring[j]
      BY <1>0, <1>2, <1>3, <2>1, <2>2 DEF Forms
    <2>5. ring' = [j \in Ring |-> IF j = k THEN ring'[k] ELSE ring[j]]
      BY <1>0, <1>2, <1>3, Zenon DEF Forms
    <2> QED BY <1>0, <2>3, <2>4, <2>5, Zenon DEF Forms
  <1>5. pc'[s] = "send" /\ \A t \in Servers : t # s => pc'[t] = pc[t]
    BY <1>0, <1>2 DEF Shapes
  <1>6. Forms'
    BY <1>0, <1>2, <1>4 DEF Forms, iopVars
  <1>7. \A t \in Servers : qd'[t].start \/ Running(t)' => qd[t].start \/ Running(t)
    BY <1>2, <1>5 DEF Running
  <1>8. \A i \in 1 .. Len(outbox) : outbox[i].kind = "end" =>
                                    /\ outbox[i].slot \in Ring /\ outbox[i].slot # k
                                    /\ ring'[outbox[i].slot] = ring[outbox[i].slot]
    <2>1. \A i \in 1 .. Len(outbox) : outbox[i] \in Transfer
      BY <1>0 DEF Forms
    <2>2. \A x \in Transfer : x.kind = "end" => x.slot \in Ring
      BY DEF Transfer
    <2> QED BY <1>0, <1>2, <1>4, <2>1, <2>2 DEF Apart, Filling, End
  <1>9. Requests'
    BY <1>2, <1>7, <1>8, QuietThread, Zenon
  <1>10. Apart'
    BY <1>0, <1>2, <1>5 DEF Apart, Filling, End
  <1>11. \A t \in Servers : t # s /\ Filling(t) => slot[t] \in Ring /\ slot[t] # k
    BY <1>0, <1>2 DEF Apart, Filling, Forms
  <1>12. \A t \in Servers : pc'[t] = "send" =>
                  ring'[slot'[t]].client = sd'[t].client /\ ring'[slot'[t]].cid = "call"
    BY <1>0, <1>2, <1>4, <1>5, <1>11 DEF Names, Filling
  <1>13. /\ \A t \in Servers : qd'[t].start \/ pc'[t] \in {"exec", "fill", "send", "dma"} =>
                              sd'[t].client \in Clients /\ ServerOf[sd'[t].client] = t
         /\ \A t \in Servers : ~(qd'[t].start /\ Running(t)') /\ sd'[t].link # t
         /\ \A i : End(i)' => ring'[outbox'[i].slot].client \in Clients
    <2>1. \A t \in Servers : qd'[t].start \/ pc'[t] \in {"exec", "fill", "send", "dma"} =>
                              sd'[t].client \in Clients /\ ServerOf[sd'[t].client] = t
      BY <1>0, <1>2, <1>5 DEF Names
    <2>2. \A t \in Servers : ~(qd'[t].start /\ Running(t)') /\ sd'[t].link # t
      BY <1>0, <1>2, <1>5 DEF Names, Running
    <2>3. \A i : End(i)' => ring'[outbox'[i].slot].client \in Clients
      BY <1>0, <1>2, <1>8, ZenonT(60) DEF Names, End
    <2> QED BY <2>1, <2>2, <2>3
  <1>14. Names'
    BY <1>2, <1>12, <1>13, SameClears, Zenon DEF Names
  <1> QED BY <1>1, <1>6, <1>9, <1>10, <1>14 DEF AInv

(* The client of a server that runs its request has it nowhere else. *)
LEMMA RunsAlone ==
  ASSUME AInv, Usual, NEW s \in Servers, Running(s)
  PROVE  /\ sd[s].client \in Clients /\ ServerOf[sd[s].client] = s /\ ~qd[s].start
         /\ cl[sd[s].client].st = "call" /\ sd[s].pkt = cl[sd[s].client].pkt /\ Marked(sd[s].client)
         /\ \A i : ~InAt(sd[s].client, i) /\ ~OutAt(sd[s].client, i)
         /\ \A t : Serves(sd[s].client, t) => t = s
  <1>1. sd[s].client \in Clients /\ ServerOf[sd[s].client] = s /\ ~qd[s].start
    BY DEF AInv, Names, Running
  <1>2. Serves(sd[s].client, s)
    BY DEF Serves
  <1>3. Single(sd[s].client) /\ Right(sd[s].client)
    BY <1>1 DEF AInv, Requests
  <1>4. ASSUME NEW t, Serves(sd[s].client, t) PROVE t = s
    BY <1>1, <1>4 DEF AInv, Names, Serves, Running
  <1> QED BY <1>1, <1>2, <1>3, <1>4, Zenon DEF Single, Right

LEMMA SendKeeps ==
  ASSUME AInv, Usual, NEW s \in Servers, SendRend(s)
  PROVE  AInv'
  <1>c. PICK c, k : c = sd[s].client /\ k = slot[s]
    OBVIOUS
  <1>0. IInv /\ Forms /\ Apart /\ Names /\ Shapes /\ Requests
    BY DEF AInv, IInv
  <1>1. IInv'
    BY <1>0, ThreadStep DEF Thread
  <1>2. /\ pc[s] = "send"
        /\ IF Rmode[c] = 1 THEN SendEnd(k) ELSE UNCHANGED outbox
        /\ pc' = [pc EXCEPT ![s] = IF Rmode[c] = 1 /\ outbox' = outbox THEN "loop" ELSE "dma"]
        /\ UNCHANGED <<qd, sd, slot, ring, iopVars, inbox>>
    BY <1>c DEF SendRend
  <1>3. /\ c \in Clients /\ ServerOf[c] = s /\ ~qd[s].start
        /\ cl[c].st = "call" /\ sd[s].pkt = cl[c].pkt /\ Marked(c)
        /\ \A i : ~InAt(c, i) /\ ~OutAt(c, i)
        /\ \A t : Serves(c, t) => t = s
    <2>1. Running(s)
      BY <1>2 DEF Running
    <2> QED BY <1>c, <2>1, RunsAlone, Zenon
  <1>4. /\ pc'[s] = IF Rmode[c] = 1 /\ outbox' = outbox THEN "loop" ELSE "dma"
        /\ \A t \in Servers : t # s => pc'[t] = pc[t]
    BY <1>0, <1>2 DEF Shapes
  <1>5. \A t \in Servers : Running(t)' => Running(t)
    BY <1>2, <1>4 DEF Running
  <1>6. /\ \A t \in Servers : qd'[t].start \/ pc'[t] \in {"exec", "fill", "send", "dma"} =>
                              sd'[t].client \in Clients /\ ServerOf[sd'[t].client] = t
        /\ \A t \in Servers : pc'[t] = "send" =>
                  ring'[slot'[t]].client = sd'[t].client /\ ring'[slot'[t]].cid = "call"
    BY <1>0, <1>2, <1>4, SMTT(60) DEF Names
  <1>7. \A t \in Servers : ~(qd'[t].start /\ Running(t)') /\ sd'[t].link # t
    BY <1>0, <1>2, <1>5 DEF Names
  <1>8. \A t \in Servers : Filling(t)' => Filling(t) /\ t # s
    BY <1>4 DEF Filling
  <1>9. CASE UNCHANGED outbox
    <2>1. Forms'
      BY <1>0, <1>2, <1>9 DEF Forms, iopVars
    <2>2. Requests'
      BY <1>2, <1>5, <1>9, QuietThread, SMTT(60)
    <2>3. Apart'
      BY <1>0, <1>2, <1>8, <1>9, SMTT(60) DEF Apart, End
    <2>4. \A i : End(i)' => ring'[outbox'[i].slot].client \in Clients
      BY <1>0, <1>2, <1>9, SMTT(60) DEF Names, End
    <2>5. Names'
      BY <1>2, <1>6, <1>7, <1>9, <2>4, SameClears DEF Names
    <2> QED BY <1>1, <2>1, <2>2, <2>3, <2>5 DEF AInv
  <1>10. CASE outbox' # outbox
    <2> DEFINE x == [kind |-> "end", slot |-> k]
    <2>1. Rmode[c] = 1 /\ outbox' = Append(outbox, x)
      BY <1>2, <1>10 DEF SendEnd
    <2>2. x \in Transfer /\ x.kind = "end" /\ x.slot = k
      BY <1>0, <1>c DEF Transfer, Forms
    <2> HIDE DEF x
    <2>3. Forms'
      <3>1. outbox' \in Seq(Transfer)
        BY <1>0, <2>1, <2>2, Appended DEF Forms
      <3> QED BY <1>0, <1>2, <3>1 DEF Forms, iopVars
    <2>4. ring[k].client = c /\ ring[k].cid = "call"
      BY <1>0, <1>c, <1>2, Zenon DEF Names
    <2>5. ASSUME NEW d \in Clients, d # c PROVE Single(d)' /\ Right(d)'
      <3>1. \A i : InAt(d, i)' => i + 0 \in Nat /\ i \in Nat /\ InAt(d, i + 0) /\ inbox'[i] = inbox[i + 0]
        BY <1>0, <1>2 DEF InAt, Shapes
      <3>2. \A t : Serves(d, t)' => Serves(d, t) /\ sd'[t].pkt = sd[t].pkt
        BY <1>2, <1>5, ZenonT(60) DEF Serves
      <3> QED BY <1>2, <2>1, <2>2, <2>4, <2>5, <3>1, <3>2, OtherAnswer
    <2>6. Single(c)' /\ Right(c)'
      <3>1. \A t : ~Serves(c, t)'
        <4>1. \A t : Serves(c, t)' => Serves(c, t)
          BY <1>2, <1>5, SMTT(60) DEF Serves
        <4>2. ~Serves(c, s)'
          BY <1>c, <1>2, <1>3, <1>4, <1>10, <2>1, SMTT(60) DEF Serves, Running
        <4> QED BY <1>3, <4>1, <4>2, SMTT(60)
      <3>2. \A i : ~InAt(c, i)'
        BY <1>2, <1>3 DEF InAt
      <3> QED BY <1>2, <1>3, <2>1, <2>2, <2>4, <3>1, <3>2, OwnAnswer, SMTT(60) DEF Op
    <2>7. Requests'
      BY <2>5, <2>6 DEF Requests
    <2>8. /\ \A i : End(i) => outbox[i].slot # k
          /\ \A t \in Servers : Filling(t)' => slot[t] # k
      BY <1>0, <1>c, <1>2, <1>8, Zenon DEF Apart, Filling
    <2>9. Apart' /\ \A i : End(i)' => ring'[outbox'[i].slot].client \in Clients
      BY <1>2, <1>3, <1>8, <2>1, <2>2, <2>4, <2>8, MoreEnds, Zenon
    <2>10. Names'
      BY <1>2, <1>6, <1>7, <2>1, <2>2, <2>9, MoreClears, ZenonT(60) DEF Names
    <2> QED BY <1>1, <2>3, <2>7, <2>9, <2>10 DEF AInv
  <1> QED BY <1>9, <1>10

LEMMA LastDmaKeeps ==
  ASSUME AInv, Usual, NEW s \in Servers, LastDma(s)
  PROVE  AInv'
  <1>c. PICK c, x : c = sd[s].client /\ x = LastTransfer(c, sd[s].pkt)
    OBVIOUS
  <1>0. IInv /\ Forms /\ Apart /\ Names /\ Shapes /\ Requests
    BY DEF AInv, IInv
  <1>1. IInv'
    BY <1>0, ThreadStep DEF Thread
  <1>2. /\ pc[s] = "dma" /\ pc' = [pc EXCEPT ![s] = "loop"]
        /\ outbox' = Append(outbox, x)
        /\ UNCHANGED <<qd, sd, slot, ring, iopVars, inbox>>
    BY <1>c DEF LastDma
  <1>3. c \in Clients /\ ServerOf[c] = s
    BY <1>0, <1>c, <1>2 DEF Names
  <1>4. pc'[s] = "loop" /\ \A t \in Servers : t # s => pc'[t] = pc[t]
    BY <1>0, <1>2, Zenon DEF Shapes
  <1>5. \A t \in Servers : Running(t)' => Running(t)
    BY <1>2, <1>4, Zenon DEF Running
  <1>6. x \in Transfer /\ x.kind = (IF Rsize[c] THEN "data" ELSE "clear") /\ (~Rsize[c] => x.pkt = sd[s].pkt)
    <2>1. sd[s].pkt \in Packet \cup {Null}
      BY <1>0 DEF Forms
    <2> QED BY <1>c, <1>3, <2>1 DEF LastTransfer, Transfer
  <1>7. Forms'
    <2>1. outbox' \in Seq(Transfer)
      BY <1>0, <1>2, <1>6, Appended DEF Forms
    <2> QED BY <1>0, <1>2, <2>1 DEF Forms, iopVars
  <1>8. /\ \A t \in Servers : qd'[t].start \/ pc'[t] \in {"exec", "fill", "send", "dma"} =>
                              sd'[t].client \in Clients /\ ServerOf[sd'[t].client] = t
        /\ \A t \in Servers : pc'[t] = "send" =>
                  ring'[slot'[t]].client = sd'[t].client /\ ring'[slot'[t]].cid = "call"
    BY <1>0, <1>2, <1>4, Zenon DEF Names
  <1>9. \A t \in Servers : ~(qd'[t].start /\ Running(t)') /\ sd'[t].link # t
    BY <1>0, <1>2, <1>5 DEF Names
  <1>10. \A t \in Servers : Filling(t)' => Filling(t)
    BY <1>4 DEF Filling
  <1>11. Apart' /\ \A i : End(i)' => ring'[outbox'[i].slot].client \in Clients
    BY <1>2, <1>6, <1>10, MoreEnds, Zenon
  <1>12. x.kind = "clear" => Running(s) /\ Rmode[c] = 0
    BY <1>c, <1>2, <1>3, <1>6, ClientAssumption DEF Usual, Running
  <1>13. x.kind = "clear" => /\ cl[c].st = "call" /\ x.pkt = cl[c].pkt /\ Marked(c) /\ ~qd[s].start
                             /\ \A i : ~InAt(c, i) /\ ~OutAt(c, i)
                             /\ \A t : Serves(c, t) => t = s
    BY <1>c, <1>6, <1>12, RunsAlone, Zenon
  <1>14. Names'
    BY <1>2, <1>3, <1>6, <1>8, <1>9, <1>11, <1>13, MoreClears, Zenon DEF Names
  <1>15. \A d, t : Serves(d, t)' => Serves(d, t) /\ sd'[t].pkt = sd[t].pkt
    BY <1>2, <1>5, SMTT(60) DEF Serves
  <1>16. ASSUME NEW d \in Clients, d # c \/ x.kind # "clear" PROVE Single(d)' /\ Right(d)'
    <2>1. \A i : InAt(d, i)' => i + 0 \in Nat /\ i \in Nat /\ InAt(d, i + 0) /\ inbox'[i] = inbox[i + 0]
      BY <1>0, <1>2 DEF InAt, Shapes
    <2>2. x.kind = "clear" => ~Marked(d) \/ x.pkt # cl[d].pkt
      BY <1>13, <1>16, Zenon DEF Marked
    <2> QED BY <1>2, <1>6, <1>15, <2>1, <2>2, OtherAnswer
  <1>17. ASSUME x.kind = "clear" PROVE Single(c)' /\ Right(c)'
    <2>1. \A t : ~Serves(c, t)'
      <3>1. ~Serves(c, s)'
        BY <1>c, <1>2, <1>4, <1>13, <1>17, SMTT(60) DEF Serves, Running
      <3> QED BY <1>13, <1>15, <1>17, <3>1, SMTT(60)
    <2>2. \A i : ~InAt(c, i)'
      BY <1>2, <1>13, <1>17 DEF InAt
    <2> QED BY <1>2, <1>3, <1>6, <1>12, <1>13, <1>17, <2>1, <2>2, OwnAnswer, ZenonT(60)
  <1>18. Requests'
    BY <1>16, <1>17, ZenonT(60) DEF Requests
  <1> QED BY <1>1, <1>7, <1>11, <1>14, <1>18 DEF AInv

-----------------------------------------------------------------------------
(* The first command of the inbox is taken: its client has it nowhere else. *)
LEMMA TakesAlone ==
  ASSUME AInv, Usual, inbox # <<>>, inbox' = Tail(inbox)
  PROVE  LET m == inbox[1] IN
         /\ m \in [op : Op, client : Clients, pkt : Packet] /\ Head(inbox) = m
         /\ cl[m.client].st = m.op /\ cl[m.client].pkt = m.pkt /\ Marked(m.client)
         /\ \A x : ~Serves(m.client, x) /\ ~OutAt(m.client, x)
         /\ \A i : InAt(m.client, i) => i = 1
         /\ inbox' \in Seq([op : Op, client : Clients, pkt : Packet])
         /\ \A i, c : c = inbox'[i].client /\ i \in 1 .. Len(inbox') =>
                          i \in Nat /\ i + 1 \in Nat /\ InAt(c, i + 1) /\ inbox'[i] = inbox[i + 1]
  <1> DEFINE m == inbox[1]
  <1>1. /\ Tail(inbox) \in Seq([op : Op, client : Clients, pkt : Packet])
        /\ Len(inbox) \in Nat \ {0} /\ Len(Tail(inbox)) = Len(inbox) - 1
        /\ \A i \in 1 .. Len(inbox) - 1 : Tail(inbox)[i] = inbox[i + 1]
        /\ Head(inbox) = m /\ m \in [op : Op, client : Clients, pkt : Packet]
    BY Shifted, Zenon DEF AInv, IInv, Shapes
  <1>2. m.client \in Clients
    BY <1>1
  <1>3. InAt(m.client, 1)
    BY <1>1 DEF InAt
  <1>4. Single(m.client) /\ Right(m.client)
    BY <1>2 DEF AInv, Requests
  <1>5. \A i, c : c = inbox'[i].client /\ i \in 1 .. Len(inbox') =>
                          i \in Nat /\ i + 1 \in Nat /\ InAt(c, i + 1) /\ inbox'[i] = inbox[i + 1]
    BY <1>1 DEF InAt
  <1> QED BY <1>1, <1>3, <1>4, <1>5 DEF Single, Right

LEMMA AnswersKeep ==
  ASSUME AInv, Usual, RequestBind \/ RequestRdata
  PROVE  AInv'
  <1>0. IInv /\ Forms /\ Apart /\ Names /\ Shapes /\ Requests
    BY DEF AInv, IInv
  <1>1. IInv'
    BY <1>0, NextIInv DEF Next, Handler
  <1>2. PICK m : m = inbox[1]
    OBVIOUS
  <1>3. inbox # <<>> /\ inbox' = Tail(inbox) /\ UNCHANGED <<serverVars, iopVars>>
    BY SMTT(60) DEF RequestBind, RequestRdata, Taken
  <1>4. /\ m \in [op : Op, client : Clients, pkt : Packet] /\ Head(inbox) = m
        /\ cl[m.client].st = m.op /\ cl[m.client].pkt = m.pkt /\ Marked(m.client)
        /\ \A x : ~Serves(m.client, x) /\ ~OutAt(m.client, x)
        /\ \A i : InAt(m.client, i) => i = 1
        /\ \A i, c : c = inbox'[i].client /\ i \in 1 .. Len(inbox') =>
                          i \in Nat /\ i + 1 \in Nat /\ InAt(c, i + 1) /\ inbox'[i] = inbox[i + 1]
    BY <1>2, <1>3, TakesAlone
  <1>5. PICK c : c = m.client /\ c \in Clients
    BY <1>4
  <1>6. PICK k \in Ring : /\ k \notin InUse /\ SendEnd(k)
                          /\ \/ ring' = [ring EXCEPT ![k] = Bound(@, c)] /\ m.op = "bind"
                             \/ ring' = [ring EXCEPT ![k].client = c, ![k].cid = "rdata"] /\ m.op = "rdata"
    BY <1>4, <1>5 DEF RequestBind, RequestRdata, Taken, RpcGetFpacket, Usual
  <1>7. /\ ring' \in [Ring -> [client : Clients \cup {Null}, cid : Op \cup {Null}, found : BOOLEAN]]
        /\ ring'[k].client = c /\ ring'[k].cid = m.op
        /\ \A j \in Ring : j # k => ring'[j] = ring[j]
    <2>1. ring[k] \in [client : Clients \cup {Null}, cid : Op \cup {Null}, found : BOOLEAN]
      BY <1>0 DEF Forms
    <2>2. /\ \/ ring'[k] = Bound(ring[k], c) /\ m.op = "bind"
             \/ ring'[k] = [ring[k] EXCEPT !.client = c, !.cid = "rdata"] /\ m.op = "rdata"
          /\ ring' = [j \in Ring |-> IF j = k THEN ring'[k] ELSE ring[j]]
      <3>1. CASE ring' = [ring EXCEPT ![k] = Bound(@, c)] /\ m.op = "bind"
        BY <1>0, <3>1, Zenon DEF Forms
      <3>2. CASE ring' = [ring EXCEPT ![k].client = c, ![k].cid = "rdata"] /\ m.op = "rdata"
        BY <1>0, <3>2, Zenon DEF Forms
      <3> QED BY <1>6, <3>1, <3>2
    <2>3. Found(ServerOf[c]) \in BOOLEAN
      BY <1>0, <1>5, ClientAssumption DEF Found, Shapes
    <2>4. Bound(ring[k], c) \in [client : Clients \cup {Null}, cid : Op \cup {Null}, found : BOOLEAN]
          /\ Bound(ring[k], c).client = c /\ Bound(ring[k], c).cid = "bind"
      BY <1>5, <2>3 DEF Bound, Op
    <2>5. [ring[k] EXCEPT !.client = c, !.cid = "rdata"]
             \in [client : Clients \cup {Null}, cid : Op \cup {Null}, found : BOOLEAN]
          /\ [ring[k] EXCEPT !.client = c, !.cid = "rdata"].client = c
          /\ [ring[k] EXCEPT !.client = c, !.cid = "rdata"].cid = "rdata"
      BY <1>5, <2>1, Zenon DEF Op
    <2>6. ring'[k] \in [client : Clients \cup {Null}, cid : Op \cup {Null}, found : BOOLEAN]
          /\ ring'[k].client = c /\ ring'[k].cid = m.op
      BY <2>2, <2>4, <2>5, Zenon
    <2> QED BY <1>0, <2>2, <2>6 DEF Forms
  <1>8. /\ \A i : End(i) => outbox[i].slot # k
        /\ \A t \in Servers : Filling(t) => slot[t] # k
    BY <1>6 DEF InUse, Sending, End, Filling
  <1>9. /\ \A i \in 1 .. Len(outbox) : outbox[i].kind = "end" => ring'[outbox[i].slot] = ring[outbox[i].slot]
        /\ \A t \in Servers : Filling(t) => ring'[slot[t]] = ring[slot[t]]
    <2>1. \A i \in 1 .. Len(outbox) : outbox[i] \in Transfer
      BY <1>0 DEF Forms
    <2>2. \A x \in Transfer : x.kind = "end" => x.slot \in Ring
      BY DEF Transfer
    <2> QED BY <1>0, <1>7, <1>8, <2>1, <2>2 DEF End, Forms
  <1>10. sd' = sd /\ qd' = qd /\ pc' = pc /\ slot' = slot /\ cl' = cl /\ ipkt' = ipkt
    BY <1>3, Zenon DEF serverVars, iopVars
  <1>11. /\ \A t \in Servers : qd'[t].start \/ pc'[t] \in {"exec", "fill", "send", "dma"} =>
                              sd'[t].client \in Clients /\ ServerOf[sd'[t].client] = t
         /\ \A t \in Servers : ~(qd'[t].start /\ Running(t)') /\ sd'[t].link # t
         /\ \A t \in Servers : pc'[t] = "send" =>
                  ring'[slot'[t]].client = sd'[t].client /\ ring'[slot'[t]].cid = "call"
    BY <1>0, <1>9, <1>10, ZenonT(60) DEF Names, Running, Filling
  <1>12. \A d, t : Serves(d, t)' => Serves(d, t) /\ sd'[t].pkt = sd[t].pkt
    BY <1>10 DEF Serves, Running
  <1>13. \A d, i : InAt(d, i)' => i + 1 \in Nat /\ i \in Nat /\ InAt(d, i + 1) /\ inbox'[i] = inbox[i + 1]
    BY <1>4 DEF InAt
  <1>14. \A t \in Servers : Filling(t)' => Filling(t)
    BY <1>10 DEF Filling
  <1>15. CASE UNCHANGED outbox
    <2>1. Forms'
      BY <1>0, <1>7, <1>10, <1>15 DEF Forms
    <2>2. ASSUME NEW d \in Clients PROVE Single(d)' /\ Right(d)'
      <3>1. Single(d) /\ Right(d)
        BY <1>0, Zenon DEF Requests
      <3>2. ASSUME NEW i, EndAt(d, i)'
            PROVE  /\ i \in Nat /\ EndAt(d, i + 0)
                   /\ ring'[outbox'[i].slot].cid = ring[outbox[i + 0].slot].cid
        BY <1>0, <1>9, <1>15, <3>2, SMTT(60) DEF EndAt, Forms
      <3>3. ASSUME NEW i, ClearAt(d, i)' PROVE i \in Nat /\ ClearAt(d, i + 0)
        BY <1>0, <1>10, <1>15, <3>3, SMTT(60) DEF ClearAt, Forms
      <3>4. Keeps(d, 1, 0)
        BY <1>10, <1>12, <1>13, <3>2, <3>3, Zenon DEF Keeps, Marked
      <3> QED BY <3>1, <3>4, KeepsRequest
    <2>3. Requests'
      BY <2>2 DEF Requests
    <2>4. Apart'
      BY <1>0, <1>10, <1>15, Zenon DEF Apart, End, Filling
    <2>5. \A i : End(i)' => ring'[outbox'[i].slot].client \in Clients
      BY <1>0, <1>9, <1>15, ZenonT(60) DEF Names, End
    <2>6. Names'
      BY <1>3, <1>11, <1>15, <2>5, SameClears, Zenon DEF Names
    <2> QED BY <1>1, <2>1, <2>3, <2>4, <2>6, SMTT(60) DEF AInv
  <1>16. CASE outbox' # outbox
    <2>0. PICK x : x = [kind |-> "end", slot |-> k]
      BY Zenon
    <2>1. outbox' = Append(outbox, x) /\ x \in Transfer /\ x.kind = "end" /\ x.slot = k
      BY <1>6, <1>16, <2>0, SMTT(60) DEF SendEnd, Transfer
    <2>2. Forms'
      <3>1. outbox' \in Seq(Transfer)
        BY <1>0, <2>1, Appended DEF Forms
      <3> QED BY <1>0, <1>7, <1>10, <3>1 DEF Forms
    <2>3. ASSUME NEW d \in Clients, d # c PROVE Single(d)' /\ Right(d)'
      BY <1>3, <1>7, <1>9, <1>12, <1>13, <2>1, <2>3, OtherAnswer, ZenonT(60)
    <2>4. Single(c)' /\ Right(c)'
      <3>1. \A i : ~InAt(c, i)'
        <4>1. \A i : InAt(c, i)' => i \in Nat /\ i >= 1 /\ i + 1 = 1
          BY <1>4, <1>5, <1>13 DEF InAt
        <4> QED BY <4>1
      <3>2. (\A t : ~Serves(c, t)') /\ (\A i : ~OutAt(c, i)) /\ Marked(c)
        BY <1>4, <1>5, <1>12
      <3>3. ring'[x.slot].cid = cl[c].st /\ cl[c].st \in Op
        BY <1>4, <1>5, <1>7, <2>1
      <3> QED BY <1>3, <1>5, <1>9, <2>1, <3>1, <3>2, <3>3, OwnAnswer, Zenon
    <2>5. Requests'
      BY <2>3, <2>4, Zenon DEF Requests
    <2>6. Apart' /\ \A i : End(i)' => ring'[outbox'[i].slot].client \in Clients
      BY <1>5, <1>7, <1>8, <1>9, <1>10, <1>14, <2>1, MoreEnds, Zenon
    <2>7. Names'
      BY <1>3, <1>11, <2>1, <2>6, MoreClears, ZenonT(60) DEF Names
    <2> QED BY <1>1, <2>2, <2>5, <2>6, <2>7 DEF AInv
  <1> QED BY <1>15, <1>16

LEMMA CallKeeps ==
  ASSUME AInv, Usual, RequestCall
  PROVE  AInv'
  <1>0. IInv /\ Forms /\ Apart /\ Names /\ Shapes /\ Requests
    BY DEF AInv, IInv
  <1>1. IInv'
    BY <1>0, NextIInv DEF Next, Handler
  <1>2. PICK m, c, s : m = inbox[1] /\ c = m.client /\ s = ServerOf[c]
    BY SMTT(60)
  <1>3. inbox # <<>> /\ inbox' = Tail(inbox) /\ UNCHANGED <<slot, ring, iopVars, outbox>>
    BY DEF RequestCall, Taken
  <1>4. /\ m \in [op : Op, client : Clients, pkt : Packet] /\ Head(inbox) = m
        /\ cl[c].st = m.op /\ cl[c].pkt = m.pkt /\ Marked(c)
        /\ \A x : ~Serves(c, x) /\ ~OutAt(c, x)
        /\ \A i : InAt(c, i) => i = 1
        /\ \A i, d : d = inbox'[i].client /\ i \in 1 .. Len(inbox') =>
                          i \in Nat /\ i + 1 \in Nat /\ InAt(d, i + 1) /\ inbox'[i] = inbox[i + 1]
    BY <1>2, <1>3, TakesAlone, ZenonT(60)
  <1>5. c \in Clients /\ s \in Servers /\ m.pkt \in Packet
    BY <1>2, <1>4, ClientAssumption
  <1>6. ~qd[s].start /\ ~Running(s) /\ (pc[s] = "dma" => Rmode[c] # 0)
    <2>1. qd[s].start \/ pc[s] \in {"exec", "fill", "send", "dma"} => sd[s].client = c
      BY <1>0, <1>2, <1>5, ZenonT(60) DEF Names, Usual
    <2>2. ~qd[s].start /\ ~Running(s)
      BY <1>4, <1>5, <2>1, Zenon DEF Serves, Running
    <2> QED BY <2>1, <2>2 DEF Running
  <1>7. /\ m.op = "call"
        /\ qd' = [qd EXCEPT ![s].start = TRUE, ![s].end = TRUE]
        /\ sd' = [sd EXCEPT ![s] = [link |-> sd[s].link, client |-> c, pkt |-> m.pkt]]
        /\ IF qd[s].active THEN UNCHANGED <<pc, wake>> ELSE Wakeup(s)
    BY <1>0, <1>2, <1>4, <1>5, <1>6, Zenon DEF RequestCall, Taken, Waiting, Active, Forms
  <1>8. /\ sd' \in [Servers -> [link : Servers \cup {Null}, client : Clients \cup {Null},
                                pkt : Packet \cup {Null}]]
        /\ sd'[s].link = sd[s].link /\ sd'[s].client = c /\ sd'[s].pkt = m.pkt
        /\ \A t \in Servers : t # s => sd'[t] = sd[t]
    <2>1. [link |-> sd[s].link, client |-> c, pkt |-> m.pkt]
             \in [link : Servers \cup {Null}, client : Clients \cup {Null}, pkt : Packet \cup {Null}]
      BY <1>0, <1>5 DEF Forms
    <2> QED BY <1>0, <1>5, <1>7, <2>1, Zenon DEF Forms
  <1>9. /\ pc'[s] = pc[s] \/ pc'[s] = "loop"
        /\ \A t \in Servers : t # s => pc'[t] = pc[t] /\ qd'[t] = qd[t]
    BY <1>0, <1>5, <1>7, Zenon DEF Wakeup, Shapes
  <1>10. ~Running(s)'
    BY <1>6, <1>8, <1>9 DEF Running
  <1>11. \A t \in Servers : t # s => (Running(t)' <=> Running(t))
    BY <1>8, <1>9 DEF Running
  <1>12. Forms'
    BY <1>0, <1>3, <1>8 DEF Forms, iopVars
  <1>13. cl' = cl /\ ipkt' = ipkt
    BY <1>3 DEF iopVars
  <1>14. \A d, i : InAt(d, i)' => i + 1 \in Nat /\ i \in Nat /\ InAt(d, i + 1) /\ inbox'[i] = inbox[i + 1]
    BY <1>4 DEF InAt
  <1>15. ASSUME NEW d \in Clients, d # c PROVE Single(d)' /\ Right(d)'
    <2>1. Single(d) /\ Right(d)
      BY <1>0, SMTT(60) DEF Requests
    <2>2. \A t : Serves(d, t)' => Serves(d, t) /\ sd'[t].pkt = sd[t].pkt
      BY <1>8, <1>9, <1>11, <1>15, SMTT(60) DEF Serves
    <2>3. ASSUME NEW i, EndAt(d, i)'
          PROVE  /\ i \in Nat /\ EndAt(d, i + 0)
                 /\ ring'[outbox'[i].slot].cid = ring[outbox[i + 0].slot].cid
      BY <1>0, <1>3, <2>3, SMTT(60) DEF EndAt, Forms
    <2>4. ASSUME NEW i, ClearAt(d, i)' PROVE i \in Nat /\ ClearAt(d, i + 0)
      BY <1>0, <1>3, <1>13, <2>4, SMTT(60) DEF ClearAt, Forms
    <2>5. Keeps(d, 1, 0)
      BY <1>13, <1>14, <2>2, <2>3, <2>4, ZenonT(60) DEF Keeps, Marked
    <2> QED BY <2>1, <2>5, KeepsRequest
  <1>16. Single(c)' /\ Right(c)'
    <2>1. \A i : ~InAt(c, i)'
      <3>1. \A i : InAt(c, i)' => i \in Nat /\ i >= 1 /\ i + 1 = 1
        BY <1>4, <1>14, SMTT(60) DEF InAt
      <3> QED BY <3>1, SMTT(60)
    <2>2. \A i : ~OutAt(c, i)'
      BY <1>3, <1>4, <1>13 DEF OutAt, EndAt, ClearAt
    <2>3. ASSUME NEW t, Serves(c, t)' PROVE cl'[c].st = "call" /\ sd'[t].pkt = cl'[c].pkt /\ Marked(c)'
      <3>1. t = s
        BY <1>4, <1>8, <1>9, <1>11, <2>3 DEF Serves
      <3> QED BY <1>4, <1>7, <1>8, <1>13, <3>1, ZenonT(60) DEF Marked
    <2>4. Single(c)'
      BY <2>1, <2>2 DEF Single
    <2> QED BY <2>1, <2>2, <2>3, <2>4 DEF Right, OutAt
  <1>17. Requests'
    BY <1>15, <1>16 DEF Requests
  <1>18. \A t \in Servers : (Filling(t)' => Filling(t)) /\ (pc'[t] = "send" => pc[t] = "send" /\ t # s)
    BY <1>6, <1>9 DEF Filling, Running
  <1>19. Apart'
    BY <1>0, <1>3, <1>18, ZenonT(60) DEF Apart, End
  <1>20. \A t \in Servers : qd'[t].start \/ pc'[t] \in {"exec", "fill", "send", "dma"} =>
                              sd'[t].client \in Clients /\ ServerOf[sd'[t].client] = t
    <2>1. ASSUME NEW t \in Servers, t # s, qd'[t].start \/ pc'[t] \in {"exec", "fill", "send", "dma"}
          PROVE  sd'[t].client \in Clients /\ ServerOf[sd'[t].client] = t
      <3>1. qd[t].start \/ pc[t] \in {"exec", "fill", "send", "dma"}
        BY <1>9, <2>1, Zenon
      <3>2. sd[t].client \in Clients /\ ServerOf[sd[t].client] = t
        BY <1>0, <3>1, Zenon DEF Names
      <3> QED BY <1>8, <2>1, <3>2, Zenon
    <2>2. sd'[s].client \in Clients /\ ServerOf[sd'[s].client] = s
      BY <1>2, <1>5, <1>8, Zenon
    <2> QED BY <2>1, <2>2, Zenon
  <1>21. \A t \in Servers : ~(qd'[t].start /\ Running(t)') /\ sd'[t].link # t
    <2>1. ASSUME NEW t \in Servers, t # s PROVE ~(qd'[t].start /\ Running(t)') /\ sd'[t].link # t
      BY <1>0, <1>8, <1>9, <1>11, <2>1, ZenonT(60) DEF Names
    <2>2. ~(qd'[s].start /\ Running(s)') /\ sd'[s].link # s
      BY <1>0, <1>5, <1>8, <1>9, <1>10, <1>11, Zenon DEF Names
    <2> QED BY <2>1, <2>2, Zenon
  <1>22. /\ \A t \in Servers : pc'[t] = "send" =>
                  ring'[slot'[t]].client = sd'[t].client /\ ring'[slot'[t]].cid = "call"
         /\ \A i : End(i)' => ring'[outbox'[i].slot].client \in Clients
    BY <1>0, <1>3, <1>8, <1>18, ZenonT(60) DEF Names, End
  <1>23. Names'
    BY <1>3, <1>20, <1>21, <1>22, SameClears, Zenon DEF Names
  <1> QED BY <1>1, <1>12, <1>17, <1>19, <1>23 DEF AInv

-----------------------------------------------------------------------------
(* The IOP's steps leave the servers and the ring alone. *)
LEMMA ServersKept ==
  ASSUME AInv, UNCHANGED <<serverVars, ring>>, Forms'
  PROVE  /\ \A c, t : Serves(c, t)' => Serves(c, t) /\ sd'[t].pkt = sd[t].pkt
         /\ \A t \in Servers : qd'[t].start \/ pc'[t] \in {"exec", "fill", "send", "dma"} =>
                              sd'[t].client \in Clients /\ ServerOf[sd'[t].client] = t
         /\ \A t \in Servers : ~(qd'[t].start /\ Running(t)') /\ sd'[t].link # t
         /\ \A t \in Servers : pc'[t] = "send" =>
                  ring'[slot'[t]].client = sd'[t].client /\ ring'[slot'[t]].cid = "call"
         /\ \A t \in Servers : Filling(t)' <=> Filling(t)
  <1>1. sd' = sd /\ qd' = qd /\ pc' = pc /\ slot' = slot /\ ring' = ring
    BY DEF serverVars
  <1>2. \A t : Running(t)' <=> Running(t)
    BY <1>1 DEF Running
  <1> QED BY <1>1, <1>2, Zenon DEF AInv, Names, Serves, Filling

LEMMA Entry ==
  ASSUME NEW S, NEW q \in Seq(S), NEW i \in 1 .. Len(q)
  PROVE  q[i] \in S
  OBVIOUS

LEMMA IdleNowhere ==
  ASSUME AInv, NEW c \in Clients, cl[c].st \notin Op \/ ~Marked(c)
  PROVE  Nowhere(c)
  <1>1. Single(c) /\ Right(c)
    BY Zenon DEF AInv, Requests
  <1>2. \A i : ~InAt(c, i)
    <2>1. ASSUME NEW i \in 1 .. Len(inbox) PROVE inbox[i].op \in Op
      <3>1. inbox[i] \in [op : Op, client : Clients, pkt : Packet]
        BY Entry, Zenon DEF AInv, IInv, Shapes
      <3> QED BY <3>1, Zenon
    <2> QED BY <1>1, <2>1, Zenon DEF Right, InAt
  <1>3. \A i : ~Serves(c, i) /\ ~EndAt(c, i) /\ ~ClearAt(c, i)
    BY <1>1, Zenon DEF Right, Op, ClearAt, Marked
  <1> QED BY <1>2, <1>3 DEF Nowhere

LEMMA RequestKeeps ==
  ASSUME AInv, NEW c \in Clients, NEW op \in Op, NEW p \in Packet, IopRequest(c, op, p)
  PROVE  AInv'
  <1>0. IInv /\ Forms /\ Apart /\ Names /\ Shapes /\ Requests
    BY DEF AInv, IInv
  <1>1. IInv'
    BY <1>0, NextIInv DEF Next
  <1>2. PICK m : m = [op |-> op, client |-> c, pkt |-> p]
    BY Zenon
  <1>3. /\ cl[c].st \in {"unbound", "bound"} /\ ipkt[p] = Null
        /\ ipkt' = [ipkt EXCEPT ![p] = c]
        /\ cl' = [cl EXCEPT ![c] = [st |-> op, pkt |-> p]]
        /\ inbox' = Append(inbox, m) /\ UNCHANGED <<serverVars, ring, outbox>>
    BY <1>2 DEF IopRequest, IopFirstFree
  <1>4. Nowhere(c)
    <2>1. cl[c].st \notin Op
      BY <1>3 DEF Op
    <2> QED BY <2>1, IdleNowhere
  <1>5. /\ cl'[c].st = op /\ cl'[c].pkt = p /\ ipkt'[p] = c
        /\ \A d \in Clients : d # c => cl'[d] = cl[d]
        /\ \A q \in Packet : q # p => ipkt'[q] = ipkt[q]
        /\ cl' \in [Clients -> [st : {"unbound", "bound"} \cup Op, pkt : Packet \cup {Null}]]
        /\ ipkt' \in [Packet -> Clients \cup {Null}]
    BY <1>0, <1>3, SMTT(60) DEF Forms
  <1>6. Forms'
    BY <1>0, <1>3, <1>5, SMTT(60) DEF Forms, serverVars
  <1>7. /\ Len(inbox) \in Nat /\ Len(inbox') = Len(inbox) + 1
        /\ \A i \in 1 .. Len(inbox) : inbox'[i] = inbox[i]
        /\ inbox'[Len(inbox) + 1] = m
    <2>1. m \in [op : Op, client : Clients, pkt : Packet]
      BY <1>2
    <2>2. inbox \in Seq([op : Op, client : Clients, pkt : Packet])
      BY <1>0 DEF Shapes
    <2>3. PICK S : S = [op : Op, client : Clients, pkt : Packet]
      BY Zenon
    <2>4. inbox \in Seq(S) /\ m \in S
      BY <2>1, <2>2, <2>3
    <2>5. /\ Len(inbox) \in Nat /\ Len(Append(inbox, m)) = Len(inbox) + 1
          /\ \A i \in 1 .. Len(inbox) : Append(inbox, m)[i] = inbox[i]
          /\ Append(inbox, m)[Len(inbox) + 1] = m
      BY <2>4, Appended
    <2> QED BY <1>3, <2>5
  <1>8. \A d \in Clients : Marked(d) => cl[d].pkt # p
    BY <1>3, NullAssumption DEF Marked
  <1>9. ASSUME NEW d \in Clients, d # c PROVE Single(d)' /\ Right(d)'
    <2>1. Single(d) /\ Right(d)
      BY <1>0 DEF Requests
    <2>2. ASSUME NEW i, InAt(d, i)'
          PROVE  i + 0 \in Nat /\ i \in Nat /\ InAt(d, i + 0) /\ inbox'[i] = inbox[i + 0]
      <3>1. i \in 1 .. Len(inbox)
        BY <1>2, <1>7, <1>9, <2>2, SMTT(60) DEF InAt
      <3> QED BY <1>7, <2>2, <3>1, SMTT(60) DEF InAt
    <2>3. \A t : Serves(d, t)' => Serves(d, t) /\ sd'[t].pkt = sd[t].pkt
      BY <1>3, <1>6, ServersKept, ZenonT(60)
    <2>4. ASSUME NEW i, EndAt(d, i)'
          PROVE  /\ i \in Nat /\ EndAt(d, i + 0)
                 /\ ring'[outbox'[i].slot].cid = ring[outbox[i + 0].slot].cid
      BY <1>0, <1>3, <2>4, SMTT(60) DEF EndAt, Forms
    <2>5. ASSUME NEW i, ClearAt(d, i)' PROVE i \in Nat /\ ClearAt(d, i + 0)
      BY <1>0, <1>3, <1>5, <1>9, <2>5, SMTT(60) DEF ClearAt, Forms
    <2>6. Keeps(d, 0, 0)
      BY <1>5, <1>8, <1>9, <2>2, <2>3, <2>4, <2>5, ZenonT(60) DEF Keeps, Marked
    <2> QED BY <2>1, <2>6, KeepsRequest
  <1>10. \A i \in 1 .. Len(outbox) : outbox[i].kind = "clear" => outbox[i].pkt # p
    <2>1. \A d \in Clients : d # Null
      BY NullAssumption, Zenon
    <2>2. ASSUME NEW i \in 1 .. Len(outbox), outbox[i].kind = "clear", outbox[i].pkt = p PROVE FALSE
      <3>1. PICK d \in Clients : ClearAt(d, i)
        BY <1>0, <2>2, Zenon DEF Names
      <3> QED BY <1>3, <2>1, <2>2, <3>1, Zenon DEF ClearAt
    <2> QED BY <2>2, Zenon
  <1>11. Single(c)' /\ Right(c)'
    <2>1. ASSUME NEW i, InAt(c, i)' PROVE i = Len(inbox) + 1
      <3>1. i \notin 1 .. Len(inbox)
        BY <1>4, <1>7, <2>1, ZenonT(60) DEF Nowhere, InAt
      <3> QED BY <1>7, <2>1, <3>1, SMTT(60) DEF InAt
    <2>2. \A t : ~Serves(c, t)'
      BY <1>3, <1>4, <1>6, ServersKept, ZenonT(60) DEF Nowhere
    <2>3. \A i : ~EndAt(c, i)' /\ ~ClearAt(c, i)'
      BY <1>3, <1>4, <1>5, <1>10, Zenon DEF Nowhere, EndAt, ClearAt
    <2>4. Single(c)'
      BY <2>1, <2>2, <2>3, ZenonT(60) DEF Single, OutAt
    <2>5. \A i : InAt(c, i)' => inbox'[i].op = cl'[c].st /\ inbox'[i].pkt = cl'[c].pkt /\ Marked(c)'
      <3>1. Marked(c)'
        BY <1>5, Zenon DEF Marked
      <3>2. m.op = op /\ m.pkt = p
        BY <1>2
      <3>3. ASSUME NEW i, InAt(c, i)' PROVE inbox'[i] = m
        BY <1>7, <2>1, <3>3, Zenon
      <3> QED BY <1>5, <3>1, <3>2, <3>3, Zenon
    <2> QED BY <2>2, <2>3, <2>4, <2>5, Zenon DEF Right
  <1>12. Requests'
    BY <1>9, <1>11, Zenon DEF Requests
  <1>13. Apart'
    BY <1>0, <1>3, <1>6, ServersKept, ZenonT(60) DEF Apart, End, serverVars
  <1>14. \A i : End(i)' => ring'[outbox'[i].slot].client \in Clients
    BY <1>0, <1>3 DEF Names, End
  <1>15. ASSUME NEW i \in 1 .. Len(outbox'), outbox'[i].kind = "clear"
         PROVE  \E d \in Clients : ClearAt(d, i)'
    <2>1. PICK d \in Clients : ClearAt(d, i)
      BY <1>0, <1>3, <1>15, Zenon DEF Names
    <2>2. d # c /\ cl[d].pkt # p
      BY <1>3, <1>4, <2>1, NullAssumption, Zenon DEF Nowhere, ClearAt
    <2>3. ClearAt(d, i)'
      BY <1>3, <1>5, <2>1, <2>2, Zenon DEF ClearAt
    <2> QED BY <2>3, Zenon
  <1>16. Names'
    BY <1>3, <1>6, <1>14, <1>15, ServersKept, Zenon DEF Names
  <1> QED BY <1>1, <1>6, <1>12, <1>13, <1>16 DEF AInv

LEMMA PolledKeeps ==
  ASSUME AInv, NEW c \in Clients, IopPolled(c)
  PROVE  AInv'
  <1>0. IInv /\ Forms /\ Apart /\ Names /\ Shapes /\ Requests
    BY DEF AInv, IInv
  <1>1. IInv'
    BY <1>0, NextIInv DEF Next
  <1>2. /\ ipkt[cl[c].pkt] # c /\ cl' = [cl EXCEPT ![c].st = "bound"]
        /\ UNCHANGED <<serverVars, ring, ipkt, inbox, outbox>>
    BY DEF IopPolled
  <1>3. Nowhere(c)
    BY <1>2, IdleNowhere DEF Marked
  <1>4. /\ cl' \in [Clients -> [st : {"unbound", "bound"} \cup Op, pkt : Packet \cup {Null}]]
        /\ cl'[c].pkt = cl[c].pkt /\ \A d \in Clients : d # c => cl'[d] = cl[d]
    <2>1. cl'[c] = [st |-> "bound", pkt |-> cl[c].pkt]
      BY <1>0, <1>2 DEF Forms
    <2>2. cl[c].pkt \in Packet \cup {Null}
      BY <1>0 DEF Forms
    <2>3. cl' = [d \in Clients |-> IF d = c THEN cl'[c] ELSE cl[d]]
      BY <1>0, <1>2, Zenon DEF Forms
    <2> QED BY <1>0, <2>1, <2>2, <2>3 DEF Forms
  <1>5. Forms'
    BY <1>0, <1>2, <1>4 DEF Forms, serverVars
  <1>6. ASSUME NEW d \in Clients, d # c PROVE Single(d)' /\ Right(d)'
    <2>1. Single(d) /\ Right(d)
      BY <1>0 DEF Requests
    <2>2. \A i : InAt(d, i)' => i + 0 \in Nat /\ i \in Nat /\ InAt(d, i + 0) /\ inbox'[i] = inbox[i + 0]
      BY <1>0, <1>2 DEF InAt, Shapes
    <2>3. \A t : Serves(d, t)' => Serves(d, t) /\ sd'[t].pkt = sd[t].pkt
      BY <1>2, <1>5, ServersKept
    <2>4. ASSUME NEW i, EndAt(d, i)'
          PROVE  /\ i \in Nat /\ EndAt(d, i + 0)
                 /\ ring'[outbox'[i].slot].cid = ring[outbox[i + 0].slot].cid
      BY <1>0, <1>2, <2>4 DEF EndAt, Forms
    <2>5. ASSUME NEW i, ClearAt(d, i)' PROVE i \in Nat /\ ClearAt(d, i + 0)
      BY <1>0, <1>2, <1>4, <1>6, <2>5 DEF ClearAt, Forms
    <2>6. Keeps(d, 0, 0)
      BY <1>2, <1>4, <1>6, <2>2, <2>3, <2>4, <2>5 DEF Keeps, Marked
    <2> QED BY <2>1, <2>6, KeepsRequest
  <1>7. Nowhere(c)'
    <2>1. \A i : ~Serves(c, i)'
      BY <1>2, <1>3, <1>5, ServersKept DEF Nowhere
    <2>2. \A i : ~InAt(c, i)' /\ ~EndAt(c, i)'
      BY <1>2, <1>3 DEF Nowhere, InAt, EndAt
    <2>3. \A i : ~ClearAt(c, i)'
      BY <1>2, <1>4 DEF ClearAt
    <2> QED BY <2>1, <2>2, <2>3 DEF Nowhere
  <1>8. Requests'
    BY <1>6, <1>7, NowhereRight DEF Requests
  <1>9. Apart'
    BY <1>0, <1>2, <1>5, ServersKept DEF Apart, End, serverVars
  <1>10. \A i : End(i)' => ring'[outbox'[i].slot].client \in Clients
    BY <1>0, <1>2 DEF Names, End
  <1>11. ASSUME NEW i \in 1 .. Len(outbox'), outbox'[i].kind = "clear"
         PROVE  \E d \in Clients : ClearAt(d, i)'
    <2>1. PICK d \in Clients : ClearAt(d, i)
      BY <1>0, <1>2, <1>11 DEF Names
    <2>2. d # c
      BY <1>3, <2>1 DEF Nowhere
    <2>3. ClearAt(d, i)'
      BY <1>2, <1>4, <2>1, <2>2 DEF ClearAt
    <2> QED BY <2>3
  <1>12. Names'
    BY <1>2, <1>5, <1>10, <1>11, ServersKept DEF Names
  <1> QED BY <1>1, <1>5, <1>8, <1>9, <1>12 DEF AInv

(* Where a transfer is once the first one is over. *)
LEMMA OneOver ==
  ASSUME AInv, outbox # <<>>, outbox' = Tail(outbox)
  PROVE  /\ outbox' \in Seq(Transfer) /\ outbox[1] \in Transfer /\ Head(outbox) = outbox[1]
         /\ 1 \in 1 .. Len(outbox)
         /\ \A i \in 1 .. Len(outbox') : /\ i \in Nat /\ i >= 1 /\ i + 1 \in 1 .. Len(outbox)
                                        /\ outbox'[i] = outbox[i + 1]
  <1>1. /\ Tail(outbox) \in Seq(Transfer)
        /\ Len(outbox) \in Nat \ {0} /\ Len(Tail(outbox)) = Len(outbox) - 1
        /\ \A i \in 1 .. Len(outbox) - 1 : Tail(outbox)[i] = outbox[i + 1]
        /\ Head(outbox) = outbox[1] /\ outbox[1] \in Transfer
    BY Shifted, SMTT(60) DEF AInv, Forms
  <1> QED BY <1>1

(* The others keep their requests, *)
LEMMA OthersKeep ==
  ASSUME AInv, Forms', outbox # <<>>, outbox' = Tail(outbox), UNCHANGED <<serverVars, ring, inbox>>,
         NEW d \in Clients, cl'[d] = cl[d], Marked(d) <=> Marked(d)'
  PROVE  Single(d)' /\ Right(d)'
  <1>1. Single(d) /\ Right(d)
    BY SMTT(60) DEF AInv, Requests
  <1>2. \A i : InAt(d, i)' => i + 0 \in Nat /\ i \in Nat /\ InAt(d, i + 0) /\ inbox'[i] = inbox[i + 0]
    BY SMTT(60) DEF InAt, AInv, IInv, Shapes
  <1>3. \A t : Serves(d, t)' => Serves(d, t) /\ sd'[t].pkt = sd[t].pkt
    BY ServersKept, Zenon
  <1>4. ASSUME NEW i, EndAt(d, i)'
        PROVE  /\ i \in Nat /\ EndAt(d, i + 1)
               /\ ring'[outbox'[i].slot].cid = ring[outbox[i + 1].slot].cid
    BY <1>4, OneOver, SMTT(60) DEF EndAt
  <1>5. ASSUME NEW i, ClearAt(d, i)' PROVE i \in Nat /\ ClearAt(d, i + 1)
    BY <1>5, OneOver DEF ClearAt, Marked
  <1>6. Marked(d) => ipkt'[cl[d].pkt] = d
    BY Zenon DEF Marked
  <1>7. Keeps(d, 0, 1)
    BY <1>2, <1>3, <1>4, <1>5, <1>6, ZenonT(60) DEF Keeps
  <1> QED BY <1>1, <1>7, KeepsRequest

(* and the one that is answered has none under way any more. *)
LEMMA AnswerTaken ==
  ASSUME AInv, Forms', outbox # <<>>, outbox' = Tail(outbox), UNCHANGED <<serverVars, ring, inbox>>,
         NEW c \in Clients, OutAt(c, 1), ipkt' = [ipkt EXCEPT ![cl[c].pkt] = Null],
         cl'[c].pkt = cl[c].pkt, \A d \in Clients : d # c => cl'[d] = cl[d]
  PROVE  /\ Requests'
         /\ \A i \in 1 .. Len(outbox') : outbox'[i].kind = "clear" => \E d \in Clients : ClearAt(d, i)'
  <1>1. Single(c) /\ Right(c) /\ Marked(c)
    BY ZenonT(60) DEF AInv, Requests, OutAt, Right, ClearAt, Marked
  <1>2. /\ ipkt'[cl[c].pkt] = Null /\ Null \notin Clients
        /\ \A q \in Packet : q # cl[c].pkt => ipkt'[q] = ipkt[q]
    BY <1>1, NullAssumption, Zenon DEF AInv, Forms, Marked
  <1>3. ASSUME NEW d \in Clients, d # c PROVE Marked(d) <=> Marked(d)'
    BY <1>1, <1>2, <1>3, ZenonT(60) DEF Marked
  <1>4. Nowhere(c)'
    <2>1. \A i : ~InAt(c, i)'
      BY <1>1, Zenon DEF Single, InAt
    <2>2. \A t : ~Serves(c, t)'
      BY <1>1, ServersKept, Zenon DEF Single
    <2>3. ASSUME NEW i, EndAt(c, i)' PROVE FALSE
      <3>1. i \in Nat /\ i >= 1 /\ EndAt(c, i + 1)
        BY <2>3, OneOver, Zenon DEF EndAt
      <3>2. i + 1 = 1
        BY <1>1, <3>1, Zenon DEF Single, OutAt
      <3> QED BY <3>1, <3>2, SMTT(60)
    <2>4. \A i : ~ClearAt(c, i)'
      BY <1>2, ZenonT(60) DEF ClearAt
    <2> QED BY <2>1, <2>2, <2>3, <2>4, ZenonT(60) DEF Nowhere
  <1>5. Requests'
    BY <1>3, <1>4, NowhereRight, OthersKeep, SMTT(60) DEF Requests
  <1>6. ASSUME NEW i \in 1 .. Len(outbox'), outbox'[i].kind = "clear"
        PROVE  \E d \in Clients : ClearAt(d, i)'
    <2>1. i \in Nat /\ i >= 1 /\ i + 1 \in 1 .. Len(outbox) /\ outbox'[i] = outbox[i + 1]
      BY OneOver, Zenon
    <2>2. PICK d \in Clients : ClearAt(d, i + 1)
      BY <1>6, <2>1 DEF AInv, Names
    <2>3. d # c
      <3>1. ASSUME d = c PROVE FALSE
        <4>1. i + 1 = 1
          BY <1>1, <2>2, <3>1, ZenonT(60) DEF Single, OutAt
        <4> QED BY <2>1, <4>1, SMTT(60)
      <3> QED BY <3>1, Zenon
    <2>4. Marked(d)'
      BY <1>3, <2>2, <2>3, Zenon DEF ClearAt, Marked
    <2>5. ClearAt(d, i)'
      BY <1>6, <2>1, <2>2, <2>3, <2>4 DEF ClearAt, Marked
    <2> QED BY <2>5
  <1> QED BY <1>5, <1>6, ZenonT(60)

LEMMA ReceiveKeeps ==
  ASSUME AInv, IopReceive
  PROVE  AInv'
  <1>0. IInv /\ Forms /\ Apart /\ Names /\ Shapes /\ Requests
    BY DEF AInv, IInv
  <1>1. IInv'
    BY <1>0, NextIInv, ZenonT(60) DEF Next
  <1>2. outbox # <<>> /\ outbox' = Tail(outbox) /\ UNCHANGED <<serverVars, ring, inbox>>
    BY DEF IopReceive
  <1>3. /\ outbox' \in Seq(Transfer) /\ outbox[1] \in Transfer /\ Head(outbox) = outbox[1]
        /\ 1 \in 1 .. Len(outbox)
        /\ \A i \in 1 .. Len(outbox') : /\ i \in Nat /\ i >= 1 /\ i + 1 \in 1 .. Len(outbox)
                                       /\ outbox'[i] = outbox[i + 1]
    BY <1>2, OneOver
  <1> DEFINE Clears == \A i \in 1 .. Len(outbox') : outbox'[i].kind = "clear" =>
                                                   \E d \in Clients : ClearAt(d, i)'
  <1>4. ASSUME outbox[1].kind = "end" PROVE Forms' /\ Requests' /\ Clears
    <2>1. PICK c : c = ring[outbox[1].slot].client
      BY Zenon
    <2>2. c \in Clients /\ EndAt(c, 1)
      BY <1>0, <1>3, <1>4, <2>1, Zenon DEF Names, End, EndAt
    <2>3. PICK st \in {"unbound", "bound"} : cl' = [cl EXCEPT ![c].st = st]
      BY <1>3, <1>4, <2>1, ZenonT(60) DEF IopReceive
    <2>4. ipkt' = [ipkt EXCEPT ![cl[c].pkt] = Null]
      BY <1>3, <1>4, <2>1, SMTT(60) DEF IopReceive
    <2>5. /\ cl' \in [Clients -> [st : {"unbound", "bound"} \cup Op, pkt : Packet \cup {Null}]]
          /\ cl'[c].pkt = cl[c].pkt /\ \A d \in Clients : d # c => cl'[d] = cl[d]
      <3>1. cl'[c] = [st |-> st, pkt |-> cl[c].pkt]
        BY <1>0, <2>2, <2>3 DEF Forms
      <3>2. cl[c].pkt \in Packet \cup {Null}
        BY <1>0, <2>2 DEF Forms
      <3>3. cl' = [d \in Clients |-> IF d = c THEN cl'[c] ELSE cl[d]]
        BY <1>0, <2>2, <2>3, Zenon DEF Forms
      <3> QED BY <1>0, <2>2, <3>1, <3>2, <3>3 DEF Forms
    <2>6. Forms'
      BY <1>0, <1>2, <1>3, <2>4, <2>5, Zenon DEF Forms, serverVars
    <2>7. Requests' /\ Clears
      BY <1>2, <2>2, <2>4, <2>5, <2>6, AnswerTaken, ZenonT(60) DEF OutAt
    <2> QED BY <2>6, <2>7
  <1>5. ASSUME outbox[1].kind = "clear" PROVE Forms' /\ Requests' /\ Clears
    <2>1. PICK c \in Clients : ClearAt(c, 1)
      BY <1>0, <1>3, <1>5, SMTT(60) DEF Names
    <2>2. cl' = cl /\ ipkt' = [ipkt EXCEPT ![cl[c].pkt] = Null]
      BY <1>3, <1>5, <2>1 DEF IopReceive, ClearAt
    <2>3. Forms'
      BY <1>0, <1>2, <1>3, <2>2, Zenon DEF Forms, serverVars
    <2>4. Requests' /\ Clears
      BY <1>2, <2>1, <2>2, <2>3, AnswerTaken, Zenon DEF OutAt
    <2> QED BY <2>3, <2>4, SMTT(60)
  <1>6. ASSUME outbox[1].kind \notin {"end", "clear"} PROVE Forms' /\ Requests' /\ Clears
    <2>1. cl' = cl /\ ipkt' = ipkt
      BY <1>3, <1>6 DEF IopReceive, iopVars
    <2>2. Forms'
      BY <1>0, <1>2, <1>3, <2>1, SMTT(60) DEF Forms, serverVars
    <2>3. Requests'
      BY <1>2, <2>1, <2>2, OthersKeep DEF Requests, Marked
    <2>4. ASSUME NEW i \in 1 .. Len(outbox'), outbox'[i].kind = "clear"
          PROVE  \E d \in Clients : ClearAt(d, i)'
      <3>1. PICK d \in Clients : ClearAt(d, i + 1)
        BY <1>0, <1>3, <2>4 DEF Names
      <3>2. ClearAt(d, i)'
        BY <1>3, <2>1, <2>4, <3>1, Zenon DEF ClearAt
      <3> QED BY <3>2, SMTT(60)
    <2> QED BY <2>2, <2>3, <2>4, SMTT(60)
  <1>7. Forms' /\ Requests' /\ Clears
    BY <1>4, <1>5, <1>6
  <1>8. \A i : End(i)' => i \in Nat /\ End(i + 1) /\ outbox'[i] = outbox[i + 1]
    BY <1>3, SMTT(60) DEF End
  <1>9. Apart'
    <2>1. ASSUME NEW i, NEW j, End(i)', End(j)', outbox'[i].slot = outbox'[j].slot PROVE i = j
      <3>1. i \in Nat /\ j \in Nat /\ i + 1 = j + 1
        BY <1>0, <1>8, <2>1, ZenonT(60) DEF Apart
      <3> QED BY <3>1
    <2>2. slot' = slot /\ \A t \in Servers : Filling(t)' <=> Filling(t)
      BY <1>2, <1>7, ServersKept, Zenon DEF serverVars
    <2> QED BY <1>0, <1>8, <2>1, <2>2 DEF Apart
  <1>10. ASSUME NEW i, End(i)' PROVE ring'[outbox'[i].slot].client \in Clients
    <2>1. End(i + 1) /\ outbox'[i] = outbox[i + 1]
      BY <1>8, <1>10
    <2> QED BY <1>0, <1>2, <2>1, Zenon DEF Names
  <1>11. Names'
    BY <1>2, <1>7, <1>10, ServersKept, Zenon DEF Names
  <1> QED BY <1>1, <1>7, <1>9, <1>11 DEF AInv

LEMMA NextAInv ==
  ASSUME Usual
  PROVE  AInv /\ [Next]_vars => AInv'
  <1> SUFFICES ASSUME AInv, [Next]_vars PROVE AInv'  OBVIOUS
  <1>1. ASSUME NEW s \in Servers, Thread(s) PROVE AInv'
    BY <1>1, StartsKeep, ExecKeeps, FillKeeps, SendKeeps, LastDmaKeeps DEF Thread
  <1>2. CASE Handler
    BY <1>2, AnswersKeep, CallKeeps DEF Handler
  <1>3. ASSUME NEW c \in Clients, NEW op \in Op, NEW p \in Packet, IopRequest(c, op, p)
        PROVE  AInv'
    BY <1>3, RequestKeeps
  <1>4. ASSUME NEW c \in Clients, IopPolled(c) PROVE AInv'
    BY <1>4, PolledKeeps
  <1>5. CASE IopReceive
    BY <1>5, ReceiveKeeps
  <1>6. CASE UNCHANGED vars
    <2>1. /\ sd' = sd /\ qd' = qd /\ pc' = pc /\ wake' = wake /\ slot' = slot /\ ring' = ring
          /\ cl' = cl /\ ipkt' = ipkt /\ inbox' = inbox /\ outbox' = outbox
      BY <1>6 DEF vars, serverVars, iopVars
    <2>2. IInv'
      BY NextIInv DEF AInv
    <2>3. Forms'
      BY <2>1 DEF AInv, Forms
    <2>4. Requests'
      <3>1. \A x, y : /\ (InAt(x, y)' <=> InAt(x, y)) /\ (EndAt(x, y)' <=> EndAt(x, y))
                      /\ (Serves(x, y)' <=> Serves(x, y)) /\ (ClearAt(x, y)' <=> ClearAt(x, y))
                      /\ (Marked(x)' <=> Marked(x)) /\ (OutAt(x, y)' <=> OutAt(x, y))
        BY <2>1, SMTT(60) DEF InAt, EndAt, Serves, ClearAt, OutAt, Running, Marked
      <3>2. \A x : (Single(x) => Single(x)') /\ (Right(x) => Right(x)')
        BY <2>1, <3>1, ZenonT(60) DEF Single, Right
      <3> QED BY <3>2, ZenonT(60) DEF AInv, Requests
    <2>5. Apart'
      BY <2>1, ZenonT(60) DEF AInv, Apart, Filling, End
    <2>6. Names'
      BY <2>1, ZenonT(60) DEF AInv, Names, Running, End, ClearAt
    <2> QED BY <2>2, <2>3, <2>4, <2>5, <2>6 DEF AInv
  <1> QED BY <1>1, <1>2, <1>3, <1>4, <1>5, <1>6 DEF Next

-----------------------------------------------------------------------------
LEMMA ServedRight ==
  ASSUME AInv, NEW s \in Servers, qd[s].start \/ pc[s] \in {"exec", "fill", "send"}
  PROVE  LET c == sd[s].client
         IN  cl[c].st = "call" /\ cl[c].pkt = sd[s].pkt /\ Marked(c)
  <1>1. PICK c : c = sd[s].client
    BY Zenon
  <1>2. c \in Clients
    BY <1>1, Zenon DEF AInv, Names
  <1>3. Serves(c, s)
    BY <1>1, ZenonT(60) DEF Serves, Running
  <1>4. Right(c)
    BY <1>2 DEF AInv, Requests
  <1> QED BY <1>1, <1>3, <1>4, ZenonT(60) DEF Right

(* What a server's thread has dequeued or is executing is the call its     *)
(* client still waits for (SifGetNextRequest and SifExecRequest neither    *)
(* skip nor repeat one), and the list of servers that search_svdata walks  *)
(* has no server that links to itself.                                      *)
THEOREM RunsCurrent ==
  ASSUME Usual
  PROVE  Spec => []ServesCurrent
  <1>1. ASSUME AInv PROVE ServesCurrent
    <2>1. ASSUME NEW s \in Servers, qd[s].start \/ pc[s] \in {"exec", "fill", "send"}
          PROVE  cl[sd[s].client].st = "call" /\ cl[sd[s].client].pkt = sd[s].pkt
      BY <1>1, <2>1, ServedRight, Zenon
    <2>2. \A s \in Servers : sd[s].link # s
      BY <1>1, Zenon DEF AInv, Names
    <2> QED BY <2>1, <2>2 DEF ServesCurrent
  <1> QED BY <1>1, InitAInv, NextAInv, PTL DEF Spec

(* Every END packet that _request_bind, _request_rdata or SifExecRequest   *)
(* has sent answers the request its client has under way, and there is one *)
(* at most for a client, although the packets of the ring are used again.  *)
THEOREM AnswersRight ==
  ASSUME Usual
  PROVE  Spec => []EndsRight
  <1>1. ASSUME AInv PROVE EndsRight
    <2>1. ASSUME NEW i \in 1 .. Len(outbox), outbox[i].kind = "end"
          PROVE  LET c == ring[outbox[i].slot].client
                 IN  c \in Clients /\ EndAt(c, i) /\ cl[c].st = ring[outbox[i].slot].cid
      <3>1. PICK c : c = ring[outbox[i].slot].client
        BY Zenon
      <3>2. c \in Clients /\ EndAt(c, i)
        BY <1>1, <2>1, <3>1, Zenon DEF AInv, Names, End, EndAt
      <3>3. Right(c)
        BY <1>1, <3>2 DEF AInv, Requests
      <3> QED BY <3>1, <3>2, <3>3, ZenonT(60) DEF Right
    <2>2. \A c \in Clients : \A i, j : EndAt(c, i) /\ EndAt(c, j) => i = j
      BY <1>1, Zenon DEF AInv, Requests, Single, OutAt
    <2> QED BY <2>1, <2>2, Zenon DEF EndsRight
  <1> QED BY <1>1, InitAInv, NextAInv, PTL DEF Spec

(* From the client's command to the answer of SifExecRequest the packet of *)
(* the request stays allocated to its client.                               *)
THEOREM PacketsKept ==
  ASSUME Usual
  PROVE  Spec => []PacketMarked
  <1>1. ASSUME AInv PROVE PacketMarked
    <2>1. ASSUME NEW i \in 1 .. Len(inbox) PROVE ipkt[inbox[i].pkt] = inbox[i].client
      <3>1. inbox[i] \in [op : Op, client : Clients, pkt : Packet]
        BY <1>1, Entry, Zenon DEF AInv, IInv, Shapes
      <3>2. PICK c \in Clients : c = inbox[i].client
        BY <3>1
      <3>3. Right(c) /\ InAt(c, i)
        BY <1>1, <3>2 DEF AInv, Requests, InAt
      <3>4. inbox[i].pkt = cl[c].pkt /\ Marked(c)
        BY <3>3, Zenon DEF Right
      <3> QED BY <3>2, <3>4 DEF Marked
    <2>2. ASSUME NEW s \in Servers, qd[s].start \/ pc[s] \in {"exec", "fill", "send"}
          PROVE  ipkt[sd[s].pkt] = sd[s].client
      BY <1>1, <2>2, ServedRight DEF Marked
    <2> QED BY <2>1, <2>2, Zenon DEF PacketMarked
  <1> QED BY <1>1, InitAInv, NextAInv, PTL DEF Spec
=============================================================================
