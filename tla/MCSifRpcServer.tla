--------------------------- MODULE MCSifRpcServer ---------------------------
(* Instances of SifRpcServer for TLC: each client has a server of its own, *)
(* as the servers of the SDK do.                                           *)
EXTENDS SifRpcServer, TLC
CONSTANTS s1, s2, c1, c2
Own == [c \in Clients |-> IF c = c1 THEN s1 ELSE s2]
Mixed == [c \in Clients |-> IF c = c1 THEN 1 ELSE 0]
Waits == [c \in Clients |-> 1]
WaitersData == [c \in Clients |-> c = c1]
AllData == [c \in Clients |-> TRUE]
NoData == [c \in Clients |-> FALSE]

(* What a later step can read: fields that are set again before they are  *)
(* read, and the position of the ring, are left out.                       *)
Ahead(k) == (k + NRing - (idx % NRing)) % NRing
Working(s) == qd[s].start \/ pc[s] \in {"exec", "fill", "send", "dma"}
LiveView ==
    << queue, qd, pc, wake, inbox, ipkt,
       [s \in Servers |-> IF Working(s) THEN sd[s] ELSE [sd[s] EXCEPT !.client = Null, !.pkt = Null]],
       [s \in Servers |-> IF pc[s] \in {"fill", "send"} THEN Ahead(slot[s]) ELSE NRing],
       [s \in Servers |-> IF pc[s] = "send" THEN ring[slot[s]].client ELSE Null],
       [i \in 1 .. Len(outbox) |-> IF outbox[i].kind = "end"
                                   THEN << Ahead(outbox[i].slot), ring[outbox[i].slot] >>
                                   ELSE << NRing, outbox[i] >>],
       [c \in Clients |-> IF cl[c].st \in Op THEN cl[c] ELSE [cl[c] EXCEPT !.pkt = Null]] >>
=============================================================================
