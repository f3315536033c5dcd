---------------------------- MODULE HeaderStore ----------------------------
(***************************************************************************)
(* What the APA driver promises its callers about partition headers: the  *)
(* headers that are dirty when apaCacheFlushAllDirty is called reach the  *)
(* disk all together or not at all, and are on the disk when the call     *)
(* returns.  A power cut in between keeps the whole update or loses the   *)
(* whole update.                                                           *)
(***************************************************************************)
CONSTANTS Sector,    \* sectors that hold a partition header
          Header     \* what such a sector may hold

VARIABLES store,     \* the headers on the disk, as the next start sees them
          txn,       \* the update being flushed
          phase      \* "idle", "flushing", or "down" (power cut, not yet restarted)

hsVars == <<store, txn, phase>>

Update == UNION {[S -> Header] : S \in SUBSET Sector}
NoUpdate == [s \in {} |-> s]

Apply(u, st) == [s \in Sector |-> IF s \in DOMAIN u THEN u[s] ELSE st[s]]

Init == /\ store \in [Sector -> Header]
        /\ txn = NoUpdate
        /\ phase = "down"

Begin == /\ phase = "idle"
         /\ phase' = "flushing"
         /\ txn' \in Update
         /\ UNCHANGED store

Commit == /\ phase = "flushing"
          /\ store' = Apply(txn, store)
          /\ UNCHANGED <<txn, phase>>

End == /\ phase = "flushing"
       /\ store = Apply(txn, store)
       /\ phase' = "idle"
       /\ txn' = NoUpdate
       /\ UNCHANGED store

PowerCut == /\ phase' = "down"
            /\ txn' = NoUpdate
            /\ UNCHANGED store

Restart == /\ phase = "down"
           /\ phase' = "idle"
           /\ UNCHANGED <<store, txn>>

Next == Begin \/ Commit \/ End \/ PowerCut \/ Restart

Spec == Init /\ [][Next]_hsVars
=============================================================================
