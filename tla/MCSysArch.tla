----------------------------- MODULE MCSysArch -----------------------------
(* Two threads that post to one mailbox and two that fetch from it; one   *)
(* of the former also waits for a semaphore that a fifth thread signals.   *)
EXTENDS SysArch

CONSTANTS p1, p2, f1, f2, g, mbox, sem
MCThread == {p1, p2, f1, f2, g}
MCPosts == [t \in MCThread |-> IF t \in {p1, p2} THEN {mbox} ELSE {}]
MCFetches == [t \in MCThread |-> IF t \in {f1, f2} THEN {mbox} ELSE {}]
MCWaits == [t \in MCThread |-> IF t = p2 THEN {sem} ELSE {}]
MCSignals == [t \in MCThread |-> IF t = g THEN {sem} ELSE {}]
=============================================================================
