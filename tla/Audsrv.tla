------------------------------- MODULE Audsrv -------------------------------
(***************************************************************************)
(* The streaming half of audsrv (iop/sound/audsrv/src/audsrv.c): the RPC  *)
(* thread queues audio in the ring buffer, the playing thread feeds the   *)
(* SPU2 from it, and the two share ringbuf_size, readpos and writepos     *)
(* without a lock.  The playing thread has the higher priority (39 to     *)
(* 40): it runs whenever it is not blocked, so it may come between any    *)
(* two statements of the RPC thread, never the other way round.           *)
(*                                                                         *)
(* The SPU2's transfer interrupt and the EE program are external.  CD     *)
(* audio, ADPCM samples, volumes and audsrv_quit are left out.            *)
(***************************************************************************)
EXTENDS Integers

CONSTANTS Format,    \* stream formats: their feed_size and what the upsampler reads
          Chunk,     \* the sizes the program queues and waits for
          Threshold, \* the sizes it asks a callback for
          BufSize,   \* sizeof(ringbuf)
          MaxLate    \* transfers that may end before the RPC thread takes a step

ASSUME AudsrvAssumption ==
    /\ Format \subseteq [feed : Nat \ {0}, step : Nat \ {0}]
    /\ \A f \in Format : 10 * f.feed <= BufSize
    /\ Chunk \subseteq Nat \ {0} /\ Threshold \subseteq Nat
    /\ BufSize \in Nat /\ MaxLate \in Nat \ {0}

VARIABLES size, readpos, writepos,  \* ringbuf_size and the two heads
          playing, threshold,       \* fillbuf_threshold
          core1,                    \* the format set last
          changed,                  \* format_changed
          upsampler,                \* the format the playing thread reads
          transfer, queue, client,  \* the semaphores transfer_sema, queue_sema, rpc_sema
          play,                     \* where the playing thread is
          rpc,                      \* the RPC thread: statement, argument, bytes left, copied
          late,                     \* transfers since the RPC thread's last step
          unread, broken            \* history: positions queued and not yet played; stream broken

ring == <<size, readpos, writepos>>
history == <<unread, broken>>
semas == <<transfer, queue, client>>
vars == <<size, readpos, writepos, playing, threshold, core1, changed, upsampler,
          transfer, queue, client, play, rpc, late, unread, broken>>

NoFormat == [feed |-> 0, step |-> 0]   \* find_upsampler: NULL
Idle == [at |-> "idle", n |-> 0, left |-> 0, copy |-> 0]

(* Mutant: heads that meet mean an empty ring. *)
available_when_met == IF writepos < readpos THEN readpos - writepos
                                            ELSE size - (writepos - readpos)
audsrv_available == IF writepos <= readpos THEN readpos - writepos
                                           ELSE size - (writepos - readpos)

Changing == {"size", "write", "read", "changed"}   \* inside audsrv_set_format

(* The positions from a up to b, b excluded, around a ring of n. *)
Between(a, b, n) == IF a <= b THEN a .. b - 1 ELSE (a .. n - 1) \cup (0 .. b - 1)

-----------------------------------------------------------------------------
(* The SPU2 has played a block: transfer_complete.  A semaphore counts to *)
(* one.                                                                    *)
PlayBlocked == \/ play = "transfer" /\ transfer = 0
               \/ play = "callback" /\ client = 0
RpcWaits == rpc.at = "idle" \/ (rpc.at = "wait" /\ queue = 0)

TransferComplete ==
    /\ late < MaxLate
    /\ transfer' = 1
    /\ late' = IF RpcWaits THEN late ELSE late + 1
    /\ UNCHANGED <<size, readpos, writepos, playing, threshold, core1, changed, upsampler,
                   queue, client, play, rpc, unread, broken>>

(* The EE has run the callback, and call_end_callback signals rpc_sema. *)
ClientAnswers ==
    /\ client = 0
    /\ client' = 1
    /\ UNCHANGED <<size, readpos, writepos, playing, threshold, core1, changed, upsampler,
                   transfer, queue, play, rpc, late, unread, broken>>

(* Mutant: only an exact tenth is told. *)
SpaceExact == audsrv_available = size \div 10
SpaceToTell == audsrv_available >= size \div 10

(* play_thread: the rendered block goes to the SPU2, a waiting            *)
(* audsrv_wait_audio is told of the space, and the client is called back. *)
PlayTransfer ==
    /\ play = "transfer" /\ transfer = 1
    /\ transfer' = 0
    /\ queue' = IF SpaceToTell THEN 1 ELSE queue
    /\ play' = IF threshold > 0 /\ audsrv_available >= threshold THEN "callback" ELSE "render"
    /\ UNCHANGED <<size, readpos, writepos, playing, threshold, core1, changed, upsampler,
                   client, rpc, late, unread, broken>>

PlayCallback ==
    /\ play = "callback" /\ client = 1
    /\ client' = 0
    /\ play' = "render"
    /\ UNCHANGED <<size, readpos, writepos, playing, threshold, core1, changed, upsampler,
                   transfer, queue, rpc, late, unread, broken>>

(* The next block is rendered from the ring.  The stream breaks when what *)
(* is read was not queued, and when the format changes meanwhile.         *)
(* Mutant: the end of the ring is one further. *)
WrappedLate(pos) == IF pos > size THEN 0 ELSE pos
Wrapped(pos) == IF pos >= size THEN 0 ELSE pos

PlayRender ==
    /\ play = "render"
    /\ LET up == IF changed THEN core1 ELSE upsampler
           read == readpos .. readpos + up.step - 1
       IN /\ upsampler' = up
          /\ IF playing /\ up # NoFormat
             THEN /\ readpos' = Wrapped(readpos + up.step)
                  /\ broken' = (broken \/ ~(read \subseteq unread) \/ rpc.at \in Changing)
                  /\ unread' = IF broken' THEN {} ELSE unread \ read
             ELSE UNCHANGED <<readpos, unread, broken>>
    /\ changed' = FALSE
    /\ play' = "transfer"
    /\ UNCHANGED <<size, writepos, playing, threshold, core1, transfer, queue, client, rpc, late>>

-----------------------------------------------------------------------------
(* The RPC thread runs when the playing thread is blocked. *)
RpcStep(from, to) ==
    /\ PlayBlocked
    /\ rpc.at = from
    /\ rpc' = to
    /\ late' = 0
    /\ UNCHANGED <<upsampler, transfer, client, play>>

Call(at, n) == [at |-> at, n |-> n, left |-> 0, copy |-> 0]
At(at) == [rpc EXCEPT !.at = at]

(* audsrv_set_format, one assignment at a time.  A mixture of the old and *)
(* the new frequency, depth and channels may be any format or none.        *)
SetFormat(f) ==
    /\ RpcStep("idle", Call("size", f.feed))
    /\ core1' \in Format \cup {NoFormat}
    /\ UNCHANGED <<ring, playing, threshold, changed, queue, history>>

SetSize ==
    \E f \in Format :
        /\ f.feed = rpc.n
        /\ RpcStep("size", At("write"))
        /\ core1' = f
        /\ size' = f.feed * 10
        /\ UNCHANGED <<readpos, writepos, playing, threshold, changed, queue, history>>

SetWrite ==
    /\ RpcStep("write", At("read"))
    /\ writepos' = 0
    /\ UNCHANGED <<size, readpos, playing, threshold, core1, changed, queue, history>>

(* What is already in the ring from readpos on counts as queued. *)
SetRead ==
    /\ RpcStep("read", At("changed"))
    /\ readpos' = ((rpc.n * 5) \div 4) * 4
    /\ unread' = readpos' .. size - 1
    /\ broken' = FALSE
    /\ UNCHANGED <<size, writepos, playing, threshold, core1, changed, queue>>

SetChanged ==
    /\ RpcStep("changed", Idle)
    /\ changed' = TRUE
    /\ UNCHANGED <<ring, playing, threshold, core1, queue, history>>

(* audsrv_stop_audio, audsrv_set_threshold *)
StopAudio ==
    /\ RpcStep("idle", Idle)
    /\ playing' = FALSE
    /\ threshold' = 0
    /\ UNCHANGED <<ring, core1, changed, queue, history>>

SetThreshold(n) ==
    /\ n <= size \div 2
    /\ RpcStep("idle", Idle)
    /\ threshold' = n
    /\ UNCHANGED <<ring, playing, core1, changed, queue, history>>

(* audsrv_wait_audio *)
WaitAudio(n) ==
    /\ n <= size
    /\ RpcStep("idle", Call("check", n))
    /\ UNCHANGED <<ring, playing, threshold, core1, changed, queue, history>>

Enough(n) == audsrv_available >= n

WaitCheck ==
    /\ RpcStep("check", IF Enough(rpc.n) THEN Idle ELSE At("wait"))
    /\ UNCHANGED <<ring, playing, threshold, core1, changed, queue, history>>

WaitWoken ==
    /\ queue = 1
    /\ RpcStep("wait", At("check"))
    /\ queue' = 0
    /\ UNCHANGED <<ring, playing, threshold, core1, changed, history>>

(* audsrv_play_audio: the chunk is cut to what is available, and copied   *)
(* in one or two pieces.                                                   *)
PlayAudio(n) ==
    /\ RpcStep("idle", Call("limit", n))
    /\ playing' = TRUE
    /\ UNCHANGED <<ring, threshold, core1, changed, queue, history>>

Least(a, b) == IF a <= b THEN a ELSE b

Limit ==
    /\ LET left == Least(rpc.n, audsrv_available)
       IN RpcStep("limit", IF left > 0 THEN [rpc EXCEPT !.at = "piece", !.left = left] ELSE Idle)
    /\ UNCHANGED <<ring, playing, threshold, core1, changed, queue, history>>

(* Mutant: the end of the ring is not looked at. *)
PieceWhole == rpc.left
PieceSize == IF writepos >= readpos THEN Least(size - writepos, rpc.left) ELSE rpc.left

Piece ==
    /\ RpcStep("piece", [rpc EXCEPT !.at = "copy", !.copy = PieceSize])
    /\ UNCHANGED <<ring, playing, threshold, core1, changed, queue, history>>

Copied == writepos .. writepos + rpc.copy - 1

Copy ==
    /\ RpcStep("copy", At("advance"))
    /\ unread' = IF broken THEN {} ELSE unread \cup Copied
    /\ UNCHANGED <<ring, playing, threshold, core1, changed, queue, broken>>

Advance ==
    /\ LET left == rpc.left - rpc.copy
       IN RpcStep("advance", IF left > 0 THEN [rpc EXCEPT !.at = "piece", !.left = left] ELSE Idle)
    /\ writepos' = Wrapped(writepos + rpc.copy)
    /\ UNCHANGED <<size, readpos, playing, threshold, core1, changed, queue, history>>

-----------------------------------------------------------------------------
(* audsrv_init has set the first format and started the playing thread. *)
Init ==
    /\ core1 \in Format
    /\ size = core1.feed * 10
    /\ writepos = 0
    /\ readpos = ((core1.feed * 5) \div 4) * 4
    /\ unread = readpos .. size - 1 /\ broken = FALSE
    /\ playing = FALSE /\ threshold = 0
    /\ changed = TRUE /\ upsampler = NoFormat
    /\ transfer = 0 /\ queue = 0 /\ client = 1
    /\ play = "render"
    /\ rpc = Idle /\ late = 0

PlayThread == PlayTransfer \/ PlayCallback \/ PlayRender
Running == \/ SetSize \/ SetWrite \/ SetRead \/ SetChanged
           \/ WaitCheck \/ WaitWoken
           \/ Limit \/ Piece \/ Copy \/ Advance
Request == \/ \E f \in Format : SetFormat(f)
           \/ \E n \in Chunk : WaitAudio(n) \/ PlayAudio(n)
           \/ \E n \in Threshold : SetThreshold(n)
           \/ StopAudio

Next == TransferComplete \/ ClientAnswers \/ PlayThread \/ Running \/ Request
Spec == Init /\ [][Next]_vars

(* The SPU2 goes on playing, the EE answers its callbacks, and a thread   *)
(* that may run does.                                                      *)
FairSpec == Spec /\ WF_vars(TransferComplete) /\ WF_vars(ClientAnswers)
                 /\ WF_vars(PlayThread) /\ WF_vars(Running)

-----------------------------------------------------------------------------
RpcState == [at : {"idle", "size", "write", "read", "changed", "check", "wait", "limit", "piece",
                   "copy", "advance"},
             n : Nat, left : 0 .. BufSize, copy : 0 .. BufSize]

(* The state has its shape: both heads stay inside the buffer. *)
TypeOK ==
    /\ size \in {f.feed * 10 : f \in Format}
    /\ readpos \in 0 .. BufSize - 1 /\ writepos \in 0 .. BufSize - 1
    /\ playing \in BOOLEAN /\ changed \in BOOLEAN /\ broken \in BOOLEAN
    /\ threshold \in {0} \cup Threshold
    /\ {core1, upsampler} \subseteq Format \cup {NoFormat}
    /\ {transfer, queue, client} \subseteq 0 .. 1
    /\ play \in {"render", "transfer", "callback"}
    /\ rpc \in RpcState
    /\ late \in 0 .. MaxLate

(* While the stream is not broken, what is queued and not yet played lies *)
(* from readpos to writepos: nothing is skipped, played twice or           *)
(* overwritten, whenever the playing thread interrupts audsrv_play_audio.  *)
Head == IF rpc.at = "advance" THEN Wrapped(writepos + rpc.copy) ELSE writepos
QueueInOrder ==
    ~broken /\ rpc.at \notin Changing
      => IF Head = readpos THEN unread \in {{}, 0 .. size - 1}
                           ELSE unread = Between(readpos, Head, size)

(* A piece is copied where nothing is waiting to be played, inside the     *)
(* ring.                                                                   *)
CopyFits == ~broken /\ rpc.at = "copy" => /\ Copied \cap unread = {}
                                          /\ Copied \subseteq 0 .. size - 1

(* While audio plays, audsrv_wait_audio comes back: no wakeup is lost      *)
(* between its check and WaitSema(queue_sema).                             *)
WaitReturns == (rpc.at = "check" /\ playing) ~> rpc.at = "idle"
=============================================================================
