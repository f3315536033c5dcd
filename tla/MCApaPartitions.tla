-------------------------- MODULE MCApaPartitions --------------------------
(***************************************************************************)
(* Instances of ApaPartitions for TLC: a drive of a few 128 MB units.      *)
(*                                                                         *)
(* A header that has left the list is never read again while ListLinked   *)
(* holds, since every read follows a link of the list, a listed sub, a job *)
(* or a file slot; states that differ only in such headers are one state   *)
(* to the safety runs.                                                     *)
(***************************************************************************)
EXTENDS ApaPartitions
NoParts == <<>>
SysParts == <<"__net", "__system", "__sysconf">>

Named == InList \cup {slots[i].start : i \in {j \in Slots : slots[j] # Closed}}
                \cup {jobs[k].at : k \in {j \in DOMAIN jobs : jobs[j].job \notin {"list", "format"}}}
LiveView == LET named == Named
            IN <<[u \in Unit |-> IF u \in named THEN hdr[u] ELSE NoHeader], jobs, slots>>
=============================================================================
