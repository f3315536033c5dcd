------------------------------ MODULE MCAudsrv ------------------------------
(* Two formats whose upsamplers read feed_size bytes at a time. *)
EXTENDS Audsrv

MCFormat == {[feed |-> 2, step |-> 2], [feed |-> 4, step |-> 4]}
=============================================================================
