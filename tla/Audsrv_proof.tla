---------------------------- MODULE Audsrv_proof ----------------------------
(***************************************************************************)
(* Proofs about Audsrv, for any formats, chunks and size of the buffer.   *)
(***************************************************************************)
EXTENDS Audsrv, TLAPS

(* The positions U are the ones from r to h in a ring of n; where the two  *)
(* meet, all or none.                                                      *)
Ordered(r, h, n, U) == IF h = r THEN U \in {{}, 0 .. n - 1} ELSE U = Between(r, h, n)

(* k more bytes fit at h. *)
Fits(r, h, n, U, k) == k > 0 => /\ k <= n
                                /\ h < r => k <= r - h
                                /\ h > r => k <= n - (h - r)
                                /\ h = r => U = {}

(* The reading head takes k bytes that are queued. *)
LEMMA ReadKeepsOrder ==
  ASSUME NEW n \in Nat, NEW r \in 0 .. n - 1, NEW h \in 0 .. n - 1, NEW k \in Nat \ {0}, NEW U,
         Ordered(r, h, n, U), r .. r + k - 1 \subseteq U
  PROVE  /\ r + k <= n
         /\ Ordered(IF r + k >= n THEN 0 ELSE r + k, h, n, U \ (r .. r + k - 1))
  <1> DEFINE r2 == IF r + k >= n THEN 0 ELSE r + k
  <1> DEFINE V == U \ (r .. r + k - 1)
  <1>1. r \in U /\ r + k - 1 \in U
    OBVIOUS
  <1>2. CASE h = r
    <2>1. U = 0 .. n - 1
      BY <1>1, <1>2 DEF Ordered
    <2>2. r + k <= n
      BY <1>1, <2>1
    <2>3. CASE k = n
      <3>1. r = 0 /\ r2 = 0 /\ V = {}
        BY <2>1, <2>2, <2>3
      <3> QED BY <3>1, <2>2, <1>2 DEF Ordered
    <2>4. CASE k # n
      <3>1. r2 # h
        BY <2>2, <2>4, <1>2
      <3>2. \A x : x \in V <=> x \in Between(r2, h, n)
        BY <2>1, <2>2, <2>4, <1>2 DEF Between
      <3>3. V = Between(r2, h, n)
        BY <3>2
      <3> QED BY <3>1, <3>3, <2>2 DEF Ordered
    <2> QED BY <2>3, <2>4
  <1>3. CASE r < h
    <2>1. U = r .. h - 1
      BY <1>3 DEF Ordered, Between
    <2>2. r + k <= h /\ r2 = r + k
      BY <1>1, <2>1
    <2>3. CASE r2 = h
      <3>1. V = {}
        BY <2>1, <2>2, <2>3
      <3> QED BY <3>1, <2>2, <2>3 DEF Ordered
    <2>4. CASE r2 # h
      <3>1. \A x : x \in V <=> x \in Between(r2, h, n)
        BY <2>1, <2>2 DEF Between
      <3>2. V = Between(r2, h, n)
        BY <3>1
      <3> QED BY <3>2, <2>2, <2>4 DEF Ordered
    <2> QED BY <2>3, <2>4
  <1>4. CASE h < r
    <2>1. U = (r .. n - 1) \cup (0 .. h - 1)
      BY <1>4 DEF Ordered, Between
    <2>2. r + k <= n
      BY <1>1, <1>4, <2>1
    <2>3. CASE r2 = h
      <3>1. h = 0 /\ r + k = n
        BY <2>2, <2>3, <1>4
      <3>2. V = {}
        BY <2>1, <3>1
      <3> QED BY <3>2, <2>2, <2>3 DEF Ordered
    <2>4. CASE r2 # h
      <3>1. \A x : x \in V <=> x \in Between(r2, h, n)
        BY <2>1, <2>2, <2>4, <1>4 DEF Between
      <3>2. V = Between(r2, h, n)
        BY <3>1
      <3> QED BY <3>2, <2>2, <2>4 DEF Ordered
    <2> QED BY <2>3, <2>4
  <1> QED BY <1>2, <1>3, <1>4

(* Space that was found stays when the reading head moves on. *)
LEMMA ReadKeepsFit ==
  ASSUME NEW n \in Nat, NEW r \in 0 .. n - 1, NEW h \in 0 .. n - 1, NEW k \in Nat \ {0}, NEW U,
         Ordered(r, h, n, U), r .. r + k - 1 \subseteq U,
         NEW m \in Nat, Fits(r, h, n, U, m)
  PROVE  Fits(IF r + k >= n THEN 0 ELSE r + k, h, n, U \ (r .. r + k - 1), m)
  <1> SUFFICES ASSUME m > 0
               PROVE  Fits(IF r + k >= n THEN 0 ELSE r + k, h, n, U \ (r .. r + k - 1), m)
    BY DEF Fits
  <1> DEFINE r2 == IF r + k >= n THEN 0 ELSE r + k
  <1> DEFINE V == U \ (r .. r + k - 1)
  <1>1. r \in U /\ r + k - 1 \in U
    OBVIOUS
  <1>2. h # r
    BY <1>1 DEF Fits
  <1>3. CASE r < h
    <2>1. U = r .. h - 1
      BY <1>3 DEF Ordered, Between
    <2>2. r + k <= h /\ r2 = r + k
      BY <1>1, <2>1
    <2>3. r2 = h => V = {}
      BY <2>1, <2>2
    <2> QED BY <2>2, <2>3, <1>3 DEF Fits
  <1>4. CASE h < r
    <2>1. U = (r .. n - 1) \cup (0 .. h - 1)
      BY <1>4 DEF Ordered, Between
    <2>2. r + k <= n
      BY <1>1, <1>4, <2>1
    <2>3. r2 = h => V = {}
      <3>1. r2 = h => h = 0 /\ r + k = n
        BY <2>2, <1>4
      <3> QED BY <3>1, <2>1
    <2> QED BY <2>2, <2>3, <1>4 DEF Fits
  <1> QED BY <1>2, <1>3, <1>4

(* c bytes are copied to h, where they fit before the end of the ring. *)
LEMMA CopyKeepsOrder ==
  ASSUME NEW n \in Nat, NEW r \in 0 .. n - 1, NEW h \in 0 .. n - 1, NEW c \in Nat \ {0}, NEW U,
         Ordered(r, h, n, U), NEW m \in Nat, Fits(r, h, n, U, m), c <= m, h + c <= n
  PROVE  /\ (h .. h + c - 1) \cap U = {}
         /\ Ordered(r, IF h + c >= n THEN 0 ELSE h + c, n, U \cup (h .. h + c - 1))
         /\ Fits(r, IF h + c >= n THEN 0 ELSE h + c, n, U \cup (h .. h + c - 1), m - c)
  <1> DEFINE h2 == IF h + c >= n THEN 0 ELSE h + c
  <1> DEFINE V == U \cup (h .. h + c - 1)
  <1>0. m > 0 /\ m <= n
    BY DEF Fits
  <1>1. CASE h = r
    <2>1. U = {}
      BY <1>0, <1>1 DEF Fits
    <2>2. CASE h2 = r
      <3>1. h = 0 /\ c = n
        BY <2>2, <1>1
      <3>2. V = 0 .. n - 1
        BY <3>1, <2>1
      <3>3. m - c = 0
        BY <3>1, <1>0
      <3> QED BY <2>1, <2>2, <3>2, <3>3 DEF Ordered, Fits
    <2>3. CASE h2 # r
      <3>0. \A x : x \in V <=> x \in Between(r, h2, n)
        BY <2>1, <2>3, <1>1 DEF Between
      <3>1. V = Between(r, h2, n)
        BY <3>0
      <3>2. Fits(r, h2, n, V, m - c)
        BY <1>0, <1>1, <2>3 DEF Fits
      <3> QED BY <2>1, <2>3, <3>1, <3>2 DEF Ordered
    <2> QED BY <2>2, <2>3
  <1>2. CASE h < r
    <2>1. U = (r .. n - 1) \cup (0 .. h - 1)
      BY <1>2 DEF Ordered, Between
    <2>2. m <= r - h /\ h2 = h + c /\ h2 <= r
      BY <1>0, <1>2 DEF Fits
    <2>3. (h .. h + c - 1) \cap U = {}
      BY <2>1, <2>2
    <2>4. CASE h2 = r
      <3>1. \A x : x \in V <=> x \in 0 .. n - 1
        BY <2>1, <2>2, <2>4
      <3>2. V = 0 .. n - 1
        BY <3>1
      <3>3. m - c = 0
        BY <2>2, <2>4
      <3> QED BY <2>3, <2>4, <3>2, <3>3 DEF Ordered, Fits
    <2>5. CASE h2 # r
      <3>1. \A x : x \in V <=> x \in Between(r, h2, n)
        BY <2>1, <2>2, <2>5 DEF Between
      <3>2. V = Between(r, h2, n)
        BY <3>1
      <3>3. Fits(r, h2, n, V, m - c)
        BY <1>0, <2>2, <2>5 DEF Fits
      <3> QED BY <2>3, <2>5, <3>2, <3>3 DEF Ordered
    <2> QED BY <2>4, <2>5
  <1>3. CASE h > r
    <2>1. U = r .. h - 1
      BY <1>3 DEF Ordered, Between
    <2>2. m <= n - (h - r)
      BY <1>0, <1>3 DEF Fits
    <2>3. (h .. h + c - 1) \cap U = {}
      BY <2>1
    <2>4. CASE h2 = r
      <3>1. r = 0 /\ h + c = n
        BY <2>4, <1>3
      <3>2. V = 0 .. n - 1
        BY <3>1, <2>1
      <3>3. m - c = 0
        BY <2>2, <3>1
      <3> QED BY <2>3, <2>4, <3>2, <3>3 DEF Ordered, Fits
    <2>5. CASE h2 # r
      <3>1. \A x : x \in V <=> x \in Between(r, h2, n)
        BY <2>1, <2>2, <2>5, <1>3 DEF Between
      <3>2. V = Between(r, h2, n)
        BY <3>1
      <3>3. Fits(r, h2, n, V, m - c)
        BY <1>0, <1>3, <2>2, <2>5 DEF Fits
      <3> QED BY <2>3, <2>5, <3>2, <3>3 DEF Ordered
    <2> QED BY <2>4, <2>5
  <1> QED BY <1>1, <1>2, <1>3

-----------------------------------------------------------------------------
(* Where the heads are, and what audsrv_set_format has set so far. *)
Heads == rpc.at \notin {"write", "read"} => readpos < size /\ writepos < size
Setting ==
    /\ rpc.at \in Changing => \E f \in Format : rpc.n = f.feed
    /\ rpc.at \in {"write", "read", "changed"} => size = rpc.n * 10
    /\ rpc.at \in {"read", "changed"} => writepos = 0

(* QueueInOrder, from the moment on at which readpos is set. *)
Queued == ~broken /\ rpc.at \notin {"size", "write", "read"} => Ordered(readpos, Head, size, unread)

(* What is left to copy fits, wherever the reading head has gone since the *)
(* space was looked at; when it has passed, the stream is broken.          *)
Space ==
    /\ rpc.at = "piece" => rpc.left > 0
    /\ rpc.at \in {"copy", "advance"} => 0 < rpc.copy /\ rpc.copy <= rpc.left
    /\ ~broken /\ rpc.at \in {"piece", "copy"} => Fits(readpos, writepos, size, unread, rpc.left)
    /\ ~broken /\ rpc.at \in {"copy", "advance"} => writepos + rpc.copy <= size
    /\ ~broken /\ rpc.at = "advance" => Fits(readpos, Head, size, unread, rpc.left - rpc.copy)

IInv == TypeOK /\ Heads /\ Setting /\ Queued /\ Space

LEMMA Sizes ==
  ASSUME TypeOK
  PROVE  size \in Nat /\ size > 0 /\ size <= BufSize /\ BufSize \in Nat
  BY AudsrvAssumption DEF TypeOK, RpcState

LEMMA Feeds ==
  ASSUME NEW f \in Format
  PROVE  f.feed \in Nat \ {0} /\ f.step \in Nat \ {0} /\ f.feed * 10 <= BufSize /\ BufSize \in Nat
  BY AudsrvAssumption

(* Where audsrv_set_format puts the reading head. *)
LEMMA MidRing ==
  ASSUME NEW n \in Nat \ {0}
  PROVE  ((n * 5) \div 4) * 4 \in Nat /\ 0 < ((n * 5) \div 4) * 4 /\ ((n * 5) \div 4) * 4 < n * 10
  <1> DEFINE q == (n * 5) \div 4
  <1>1. q \in Nat /\ 4 * q <= n * 5 /\ n * 5 < 4 * q + 4
    OBVIOUS
  <1> HIDE DEF q
  <1>2. q * 4 \in Nat /\ 0 < q * 4 /\ q * 4 < n * 10
    BY <1>1
  <1> QED BY <1>2 DEF q

LEMMA InitIInv == Init => IInv
  <1> SUFFICES ASSUME Init PROVE IInv
    OBVIOUS
  <1> USE DEF Init, Idle
  <1>1. core1.feed \in Nat \ {0} /\ core1.feed * 10 <= BufSize /\ BufSize \in Nat
    BY Feeds
  <1>2. readpos \in Nat /\ 0 < readpos /\ readpos < size /\ size \in Nat /\ size <= BufSize
    <2> DEFINE n == core1.feed
    <2>1. n \in Nat \ {0} /\ size = n * 10 /\ readpos = ((n * 5) \div 4) * 4
      BY <1>1
    <2> HIDE DEF n
    <2>2. readpos \in Nat /\ 0 < readpos /\ readpos < n * 10
      BY <2>1, MidRing
    <2> QED BY <2>1, <2>2, <1>1 DEF n
  <1>3. TypeOK
    <2>1. /\ size \in {f.feed * 10 : f \in Format}
          /\ readpos \in 0 .. BufSize - 1 /\ writepos \in 0 .. BufSize - 1
      BY <1>1, <1>2
    <2>2. playing \in BOOLEAN /\ changed \in BOOLEAN /\ broken \in BOOLEAN
      OBVIOUS
    <2>3. rpc \in RpcState
      BY <1>1 DEF RpcState
    <2>4. late \in 0 .. MaxLate
      BY AudsrvAssumption
    <2> QED BY <2>1, <2>2, <2>3, <2>4 DEF TypeOK, RpcState
  <1>4. Heads /\ Setting /\ Space
    BY <1>2 DEF Heads, Setting, Space, Changing
  <1>5. Head = 0
    BY DEF Head
  <1>6. \A x : x \in unread <=> x \in Between(readpos, 0, size)
    BY <1>2 DEF Between
  <1>7. unread = Between(readpos, 0, size)
    BY <1>6
  <1>8. Queued
    BY <1>2, <1>5, <1>7 DEF Queued, Ordered
  <1> QED BY <1>3, <1>4, <1>8 DEF IInv

(* Steps that leave the ring and the RPC thread alone. *)
Untouched == UNCHANGED <<size, readpos, writepos, rpc, unread, broken>>

LEMMA UntouchedKeeps ==
  ASSUME IInv, Untouched, TypeOK'
  PROVE  IInv'
  <1> USE DEF IInv, Untouched
  <1>1. Heads' /\ Setting'
    BY DEF Heads, Setting
  <1>2. Head' = Head
    BY DEF Head, Wrapped
  <1>3. Queued' /\ Space'
    BY <1>2 DEF Queued, Space
  <1> QED BY <1>1, <1>3

LEMMA OthersKeep ==
  ASSUME IInv, TransferComplete \/ ClientAnswers \/ PlayTransfer \/ PlayCallback
  PROVE  IInv'
  <1>1. Untouched
    BY DEF Untouched, TransferComplete, ClientAnswers, PlayTransfer, PlayCallback
  <1>2. TypeOK'
    BY AudsrvAssumption DEF IInv, TypeOK, TransferComplete, ClientAnswers, PlayTransfer, PlayCallback,
                            RpcState
  <1> QED BY <1>1, <1>2, UntouchedKeeps

LEMMA RenderKeeps ==
  ASSUME IInv, PlayRender
  PROVE  IInv'
  <1> DEFINE up == IF changed THEN core1 ELSE upsampler
  <1> DEFINE read == readpos .. readpos + up.step - 1
  <1>0. TypeOK /\ Heads /\ Setting /\ Queued /\ Space
    BY DEF IInv
  <1>1. up \in Format \cup {NoFormat} /\ upsampler' = up
    BY <1>0 DEF TypeOK, PlayRender, RpcState
  <1>2. UNCHANGED <<size, writepos, playing, threshold, core1, transfer, queue, client, rpc, late>>
        /\ changed' = FALSE /\ play' = "transfer"
    BY DEF PlayRender
  <1>3. CASE ~(playing /\ up # NoFormat)
    <2>1. UNCHANGED <<readpos, unread, broken>>
      BY <1>3 DEF PlayRender
    <2>2. TypeOK'
      <3>1. readpos' \in 0 .. BufSize - 1 /\ broken' \in BOOLEAN /\ changed' \in BOOLEAN
        BY <1>0, <1>2, <2>1 DEF TypeOK, RpcState
      <3> QED BY <1>0, <1>1, <1>2, <3>1 DEF TypeOK, RpcState
    <2> QED BY <1>2, <2>1, <2>2, UntouchedKeeps DEF Untouched
  <1>4. CASE playing /\ up # NoFormat
    <2>1. /\ readpos' = Wrapped(readpos + up.step)
          /\ broken' = (broken \/ ~(read \subseteq unread) \/ rpc.at \in Changing)
          /\ unread' = IF broken' THEN {} ELSE unread \ read
      BY <1>4 DEF PlayRender
    <2>2. up.step \in Nat \ {0}
      BY <1>1, <1>4, Feeds
    <2>3. size \in Nat /\ size > 0 /\ size <= BufSize /\ BufSize \in Nat
      BY <1>0, Sizes
    <2>4. readpos \in Nat /\ writepos \in Nat /\ rpc.left \in Nat /\ rpc.copy \in Nat
      BY <1>0, <2>3 DEF TypeOK, RpcState
    <2>5. readpos' \in 0 .. size - 1
      BY <2>1, <2>2, <2>3, <2>4 DEF Wrapped
    <2>6. broken' \in BOOLEAN
      BY <2>1
    <2>7. TypeOK'
      <3>1. readpos' \in 0 .. BufSize - 1
        BY <2>3, <2>5
      <3>2. changed' \in BOOLEAN
        BY <1>2
      <3> QED BY <1>0, <1>1, <1>2, <2>6, <3>1, <3>2 DEF TypeOK, RpcState
    <2>8. Heads' /\ Setting'
      BY <1>0, <1>2, <2>3, <2>5 DEF Heads, Setting
    <2>9. Head' = Head
      BY <1>2 DEF Head, Wrapped
    <2>10. CASE broken'
      BY <1>0, <1>2, <2>7, <2>8, <2>10 DEF IInv, Queued, Space
    <2>11. CASE ~broken'
      <3>1. ~broken /\ read \subseteq unread /\ rpc.at \notin Changing /\ unread' = unread \ read
        BY <2>1, <2>11
      <3>2. readpos \in 0 .. size - 1 /\ writepos \in 0 .. size - 1
        BY <1>0, <2>3, <2>4, <3>1 DEF Heads, Changing
      <3>3. Head \in 0 .. size - 1
        BY <2>3, <2>4, <3>2 DEF Head, Wrapped
      <3>4. Ordered(readpos, Head, size, unread)
        BY <1>0, <3>1 DEF Queued, Changing
      <3>5. Ordered(readpos', Head', size, unread')
        <4>1. Ordered(IF readpos + up.step >= size THEN 0 ELSE readpos + up.step, Head, size,
                      unread \ read)
          BY <2>2, <2>3, <3>1, <3>2, <3>3, <3>4, ReadKeepsOrder
        <4> QED BY <4>1, <2>1, <2>9, <3>1 DEF Wrapped
      <3>6. ASSUME NEW m \in Nat, Fits(readpos, Head, size, unread, m)
            PROVE  Fits(readpos', Head', size, unread', m)
        <4>1. Fits(IF readpos + up.step >= size THEN 0 ELSE readpos + up.step, Head, size,
                   unread \ read, m)
          BY <2>2, <2>3, <3>1, <3>2, <3>3, <3>4, <3>6, ReadKeepsFit
        <4> QED BY <4>1, <2>1, <2>9, <3>1 DEF Wrapped
      <3>7. Queued'
        BY <1>2, <3>5 DEF Queued
      <3>8. Space'
        <4>1. rpc.at \in {"piece", "copy"} => Fits(readpos', writepos', size, unread', rpc.left)
          BY <1>0, <1>2, <2>4, <2>9, <3>1, <3>6 DEF Space, Head
        <4>2. rpc.at = "advance" => Fits(readpos', Head', size, unread', rpc.left - rpc.copy)
          <5>1. SUFFICES ASSUME rpc.at = "advance"
                         PROVE  Fits(readpos', Head', size, unread', rpc.left - rpc.copy)
            OBVIOUS
          <5>2. rpc.left - rpc.copy \in Nat /\ Fits(readpos, Head, size, unread, rpc.left - rpc.copy)
            BY <1>0, <2>4, <3>1, <5>1 DEF Space
          <5> QED BY <5>2, <3>6
        <4> QED BY <1>0, <1>2, <3>1, <4>1, <4>2 DEF Space
      <3> QED BY <2>7, <2>8, <3>7, <3>8 DEF IInv
    <2> QED BY <2>10, <2>11
  <1> QED BY <1>3, <1>4

-----------------------------------------------------------------------------
(* Steps that change neither the ring nor where the stream is, and set rpc *)
(* to a statement at which nothing is being copied or changed.             *)
Quiet == {"idle", "check", "wait", "limit"}

LEMMA QuietKeeps ==
  ASSUME IInv, UNCHANGED <<size, readpos, writepos, unread, broken>>,
         rpc.at \in Quiet \cup {"piece"}, rpc'.at \in Quiet, TypeOK'
  PROVE  IInv'
  <1> USE DEF IInv, Quiet
  <1>1. Heads' /\ Setting'
    BY DEF Heads, Setting, Changing
  <1>2. Head' = writepos /\ Head = writepos
    BY DEF Head
  <1>3. Queued' /\ Space'
    BY <1>2 DEF Queued, Space
  <1> QED BY <1>1, <1>3

LEMMA IdleState == Idle \in RpcState /\ Idle.at = "idle"
  BY AudsrvAssumption DEF Idle, RpcState

LEMMA CallState ==
  ASSUME NEW at \in {"size", "check", "limit"}, NEW n \in Nat
  PROVE  Call(at, n) \in RpcState /\ Call(at, n).at = at /\ Call(at, n).n = n
  <1>1. 0 \in 0 .. BufSize
    BY AudsrvAssumption
  <1> QED BY <1>1 DEF Call, RpcState

LEMMA CallsKeep ==
  ASSUME IInv,
         \/ StopAudio \/ WaitCheck \/ WaitWoken
         \/ \E n \in Chunk : WaitAudio(n) \/ PlayAudio(n)
         \/ \E n \in Threshold : SetThreshold(n)
  PROVE  IInv'
  <1>0. TypeOK
    BY DEF IInv
  <1> USE DEF ring, history, Quiet
  <1>1. CASE StopAudio
    <2>0. playing' \in BOOLEAN
      BY <1>1 DEF StopAudio
    <2>1. TypeOK' /\ UNCHANGED <<size, readpos, writepos, unread, broken>>
          /\ rpc.at = "idle" /\ rpc'.at = "idle"
      BY <1>0, <1>1, <2>0, IdleState, AudsrvAssumption DEF TypeOK, StopAudio, RpcStep
    <2> QED BY <2>1, QuietKeeps
  <1>2. CASE WaitCheck
    <2>1. TypeOK' /\ UNCHANGED <<size, readpos, writepos, unread, broken>>
          /\ rpc.at = "check" /\ rpc'.at \in {"idle", "wait"}
      BY <1>0, <1>2, IdleState, AudsrvAssumption DEF TypeOK, WaitCheck, RpcStep, RpcState, At
    <2> QED BY <2>1, QuietKeeps
  <1>3. CASE WaitWoken
    <2>1. TypeOK' /\ UNCHANGED <<size, readpos, writepos, unread, broken>>
          /\ rpc.at = "wait" /\ rpc'.at = "check"
      BY <1>0, <1>3, AudsrvAssumption DEF TypeOK, WaitWoken, RpcStep, RpcState, At
    <2> QED BY <2>1, QuietKeeps
  <1>4. ASSUME NEW n \in Chunk, WaitAudio(n) \/ PlayAudio(n)
        PROVE  IInv'
    <2>0. playing' \in BOOLEAN
      BY <1>0, <1>4 DEF TypeOK, WaitAudio, PlayAudio
    <2>00. n \in Nat
      BY AudsrvAssumption
    <2>1. TypeOK' /\ UNCHANGED <<size, readpos, writepos, unread, broken>>
          /\ rpc.at = "idle" /\ rpc'.at \in {"check", "limit"}
      BY <1>0, <1>4, <2>0, <2>00, CallState, AudsrvAssumption DEF TypeOK, WaitAudio, PlayAudio, RpcStep
    <2> QED BY <2>1, QuietKeeps
  <1>5. ASSUME NEW n \in Threshold, SetThreshold(n)
        PROVE  IInv'
    <2>1. TypeOK' /\ UNCHANGED <<size, readpos, writepos, unread, broken>>
          /\ rpc.at = "idle" /\ rpc'.at = "idle"
      BY <1>0, <1>5, IdleState, AudsrvAssumption DEF TypeOK, SetThreshold, RpcStep
    <2> QED BY <2>1, QuietKeeps
  <1> QED BY <1>1, <1>2, <1>3, <1>4, <1>5

-----------------------------------------------------------------------------
(* audsrv_set_format *)
LEMMA SetKeeps ==
  ASSUME IInv, (\E f \in Format : SetFormat(f)) \/ SetSize \/ SetWrite \/ SetRead \/ SetChanged
  PROVE  IInv'
  <1>0. TypeOK /\ Heads /\ Setting /\ Queued /\ Space
    BY DEF IInv
  <1>00. size \in Nat /\ size > 0 /\ size <= BufSize /\ BufSize \in Nat
    BY <1>0, Sizes
  <1> USE DEF ring, history
  <1>1. ASSUME NEW f \in Format, SetFormat(f)
        PROVE  IInv'
    <2>1. rpc.at = "idle" /\ rpc' = Call("size", f.feed)
          /\ UNCHANGED <<size, readpos, writepos, unread, broken>>
      BY <1>1 DEF SetFormat, RpcStep
    <2>2. TypeOK'
      <3>1. rpc' \in RpcState
        BY <2>1, Feeds, CallState
      <3> QED BY <1>0, <1>1, <3>1, AudsrvAssumption DEF TypeOK, SetFormat, RpcStep
    <2>3. rpc'.at = "size" /\ rpc'.n = f.feed
      BY <2>1, Feeds, CallState
    <2>4. Heads' /\ Setting' /\ Queued' /\ Space'
      BY <1>0, <2>1, <2>3 DEF Heads, Setting, Queued, Space
    <2> QED BY <2>2, <2>4 DEF IInv
  <1>2. CASE SetSize
    <2>1. PICK f \in Format :
            /\ f.feed = rpc.n
            /\ RpcStep("size", At("write"))
            /\ core1' = f
            /\ size' = f.feed * 10
            /\ UNCHANGED <<readpos, writepos, playing, threshold, changed, queue, history>>
      BY <1>2 DEF SetSize
    <2>2. TypeOK'
      <3>1. size' \in {g.feed * 10 : g \in Format}
        BY <2>1
      <3> QED BY <1>0, <2>1, <3>1, AudsrvAssumption DEF TypeOK, RpcStep, RpcState, At
    <2>3. rpc'.at = "write" /\ rpc'.n = f.feed
      BY <1>0, <2>1 DEF RpcStep, TypeOK, RpcState, At
    <2>4. Heads' /\ Setting' /\ Queued' /\ Space'
      BY <2>1, <2>3 DEF Heads, Setting, Queued, Space
    <2> QED BY <2>2, <2>4 DEF IInv
  <1>3. CASE SetWrite
    <2>1. rpc.at = "write" /\ rpc' = At("read") /\ writepos' = 0 /\ UNCHANGED <<size, readpos>>
      BY <1>3 DEF SetWrite, RpcStep
    <2>2. TypeOK'
      BY <1>0, <1>00, <1>3, AudsrvAssumption DEF TypeOK, SetWrite, RpcStep, RpcState, At
    <2>3. rpc'.at = "read" /\ rpc'.n = rpc.n
      BY <1>0, <2>1 DEF TypeOK, RpcState, At
    <2>4. Heads' /\ Setting' /\ Queued' /\ Space'
      BY <1>0, <2>1, <2>3 DEF Heads, Setting, Queued, Space, Changing
    <2> QED BY <2>2, <2>4 DEF IInv
  <1>4. CASE SetRead
    <2>1. rpc.at = "read" /\ rpc' = At("changed") /\ readpos' = ((rpc.n * 5) \div 4) * 4
          /\ UNCHANGED <<size, writepos>> /\ unread' = readpos' .. size - 1 /\ broken' = FALSE
      BY <1>4 DEF SetRead, RpcStep
    <2>2. rpc'.at = "changed" /\ rpc'.n = rpc.n /\ rpc' \in RpcState
      BY <1>0, <2>1 DEF TypeOK, RpcState, At
    <2>3. rpc.n \in Nat \ {0} /\ size = rpc.n * 10 /\ writepos = 0
      BY <1>0, <2>1, Feeds DEF Setting, Changing
    <2>4. readpos' \in Nat /\ 0 < readpos' /\ readpos' < size
      <3> DEFINE n == rpc.n
      <3>1. n \in Nat \ {0} /\ size = n * 10 /\ readpos' = ((n * 5) \div 4) * 4
        BY <2>1, <2>3
      <3> HIDE DEF n
      <3> QED BY <3>1, MidRing
    <2>5. broken' \in BOOLEAN
      BY <2>1
    <2>6. readpos' \in 0 .. BufSize - 1
      BY <1>00, <2>4
    <2>7. TypeOK'
      BY <1>0, <1>4, <2>2, <2>5, <2>6, AudsrvAssumption DEF TypeOK, SetRead, RpcStep
    <2>8. Heads' /\ Setting' /\ Space'
      BY <1>0, <1>00, <2>1, <2>2, <2>3, <2>4 DEF Heads, Setting, Space, Changing
    <2>9. \A x : x \in unread' <=> x \in Between(readpos', 0, size)
      BY <1>00, <2>1, <2>4 DEF Between
    <2>10. unread' = Between(readpos', 0, size)
      BY <2>9
    <2>11. Head' = 0
      BY <2>1, <2>2, <2>3 DEF Head
    <2>12. Queued'
      BY <2>1, <2>4, <2>10, <2>11 DEF Queued, Ordered
    <2> QED BY <2>7, <2>8, <2>12 DEF IInv
  <1>5. CASE SetChanged
    <2>1. rpc.at = "changed" /\ rpc' = Idle /\ UNCHANGED <<size, readpos, writepos, unread, broken>>
      BY <1>5 DEF SetChanged, RpcStep
    <2>2. changed' \in BOOLEAN /\ rpc' \in RpcState
      BY <1>5, <2>1, IdleState DEF SetChanged
    <2>3. TypeOK'
      BY <1>0, <1>5, <2>2, AudsrvAssumption DEF TypeOK, SetChanged, RpcStep
    <2>4. Heads' /\ Setting' /\ Space'
      BY <1>0, <2>1, IdleState DEF Heads, Setting, Space, Changing
    <2>5. Head' = writepos /\ Head = writepos
      BY <2>1, IdleState DEF Head
    <2>6. Queued'
      BY <1>0, <2>1, <2>5 DEF Queued
    <2> QED BY <2>3, <2>4, <2>6 DEF IInv
  <1> QED BY <1>1, <1>2, <1>3, <1>4, <1>5

-----------------------------------------------------------------------------
(* audsrv_play_audio *)
LEMMA Available ==
  ASSUME TypeOK, readpos < size, writepos < size
  PROVE  audsrv_available \in 0 .. size
  BY Sizes DEF TypeOK, audsrv_available, RpcState

LEMMA LimitKeeps ==
  ASSUME IInv, Limit
  PROVE  IInv'
  <1> DEFINE left == Least(rpc.n, audsrv_available)
  <1>0. TypeOK /\ Heads /\ Setting /\ Queued /\ Space
    BY DEF IInv
  <1>1. size \in Nat /\ size > 0 /\ size <= BufSize /\ BufSize \in Nat
    BY <1>0, Sizes
  <1>2. rpc.at = "limit" /\ rpc' = (IF left > 0 THEN [rpc EXCEPT !.at = "piece", !.left = left] ELSE Idle)
        /\ UNCHANGED <<size, readpos, writepos, unread, broken>>
    BY DEF Limit, RpcStep, ring, history
  <1>3. readpos \in 0 .. size - 1 /\ writepos \in 0 .. size - 1 /\ rpc.n \in Nat
    BY <1>0, <1>1, <1>2 DEF Heads, TypeOK, RpcState
  <1>4. audsrv_available \in 0 .. size /\ left \in 0 .. size /\ left <= audsrv_available
    BY <1>0, <1>1, <1>3, Available DEF Least
  <1>5. rpc' \in RpcState
    <2> HIDE DEF left
    <2>1. CASE left > 0
      <3>1. left \in 0 .. BufSize
        BY <1>1, <1>4
      <3> QED BY <1>0, <1>2, <2>1, <3>1 DEF TypeOK, RpcState
    <2>2. CASE ~(left > 0)
      BY <1>2, <2>2, IdleState
    <2> QED BY <2>1, <2>2
  <1>6. TypeOK'
    BY <1>0, <1>5, AudsrvAssumption DEF TypeOK, Limit, RpcStep, ring, history
  <1>7. rpc'.at \in {"idle", "piece"} /\ (rpc'.at = "piece" => rpc'.left = left /\ left > 0)
    <2> HIDE DEF left
    <2> QED BY <1>0, <1>2, IdleState DEF TypeOK, RpcState
  <1>8. Head' = writepos /\ Head = writepos
    BY <1>2, <1>7 DEF Head
  <1>9. Heads' /\ Setting' /\ Queued'
    BY <1>0, <1>2, <1>7, <1>8 DEF Heads, Setting, Queued, Changing
  <1>10. left > 0 => Fits(readpos, writepos, size, unread, left)
    BY <1>1, <1>3, <1>4 DEF Fits, audsrv_available
  <1>11. Space'
    <2> HIDE DEF left
    <2> QED BY <1>2, <1>7, <1>10 DEF Space
  <1> QED BY <1>6, <1>9, <1>11 DEF IInv

LEMMA PieceKeeps ==
  ASSUME IInv, Piece
  PROVE  IInv'
  <1>0. TypeOK /\ Heads /\ Setting /\ Queued /\ Space
    BY DEF IInv
  <1>1. size \in Nat /\ size > 0 /\ size <= BufSize /\ BufSize \in Nat
    BY <1>0, Sizes
  <1>2. rpc.at = "piece" /\ rpc' = [rpc EXCEPT !.at = "copy", !.copy = PieceSize]
        /\ UNCHANGED <<size, readpos, writepos, unread, broken>>
    BY DEF Piece, RpcStep, ring, history
  <1>3. readpos \in 0 .. size - 1 /\ writepos \in 0 .. size - 1 /\ rpc.left \in Nat
        /\ rpc.left <= BufSize /\ rpc.left > 0
    BY <1>0, <1>1, <1>2 DEF Heads, TypeOK, Space, RpcState
  <1>4. PieceSize \in Nat /\ 0 < PieceSize /\ PieceSize <= rpc.left
    BY <1>1, <1>3 DEF PieceSize, Least
  <1>5. ~broken => writepos + PieceSize <= size
    BY <1>0, <1>1, <1>2, <1>3 DEF PieceSize, Least, Space, Fits
  <1>6. rpc'.at = "copy" /\ rpc'.left = rpc.left /\ rpc'.copy = PieceSize
    BY <1>0, <1>2 DEF TypeOK, RpcState
  <1>7. TypeOK'
    <2>1. PieceSize \in 0 .. BufSize
      BY <1>1, <1>3, <1>4
    <2>2. rpc' \in RpcState
      BY <1>0, <1>2, <2>1 DEF TypeOK, RpcState
    <2> QED BY <1>0, <2>2, AudsrvAssumption DEF TypeOK, Piece, RpcStep, ring, history
  <1>8. Head' = writepos /\ Head = writepos
    BY <1>2, <1>6 DEF Head
  <1>9. Heads' /\ Setting' /\ Queued'
    BY <1>0, <1>2, <1>6, <1>8 DEF Heads, Setting, Queued, Changing
  <1>10. Space'
    BY <1>0, <1>2, <1>4, <1>5, <1>6 DEF Space
  <1> QED BY <1>7, <1>9, <1>10 DEF IInv

LEMMA CopyKeeps ==
  ASSUME IInv, Copy
  PROVE  IInv'
  <1>0. TypeOK /\ Heads /\ Setting /\ Queued /\ Space
    BY DEF IInv
  <1>1. size \in Nat /\ size > 0 /\ size <= BufSize /\ BufSize \in Nat
    BY <1>0, Sizes
  <1>2. rpc.at = "copy" /\ rpc' = At("advance") /\ UNCHANGED <<size, readpos, writepos, broken>>
        /\ unread' = IF broken THEN {} ELSE unread \cup Copied
    BY DEF Copy, RpcStep, ring
  <1>3. rpc'.at = "advance" /\ rpc'.left = rpc.left /\ rpc'.copy = rpc.copy /\ rpc'.n = rpc.n
        /\ rpc' \in RpcState
    BY <1>0, <1>2 DEF TypeOK, RpcState, At
  <1>4. TypeOK'
    BY <1>0, <1>3, AudsrvAssumption DEF TypeOK, Copy, RpcStep, ring
  <1>5. Heads' /\ Setting'
    BY <1>0, <1>2, <1>3 DEF Heads, Setting, Changing
  <1>6. readpos \in 0 .. size - 1 /\ writepos \in 0 .. size - 1 /\ rpc.left \in Nat
        /\ rpc.copy \in Nat \ {0} /\ rpc.copy <= rpc.left
    BY <1>0, <1>1, <1>2 DEF Heads, TypeOK, Space, RpcState
  <1>7. Head = writepos /\ Head' = IF writepos + rpc.copy >= size THEN 0 ELSE writepos + rpc.copy
    BY <1>2, <1>3 DEF Head, Wrapped
  <1>8. CASE broken
    BY <1>0, <1>2, <1>3, <1>4, <1>5, <1>6, <1>8 DEF IInv, Queued, Space
  <1>9. CASE ~broken
    <2>1. Ordered(readpos, writepos, size, unread)
      BY <1>0, <1>2, <1>7, <1>9 DEF Queued
    <2>2. Fits(readpos, writepos, size, unread, rpc.left) /\ writepos + rpc.copy <= size
      BY <1>0, <1>2, <1>9 DEF Space
    <2>3. unread' = unread \cup (writepos .. writepos + rpc.copy - 1)
      BY <1>2, <1>9 DEF Copied
    <2>4. /\ Ordered(readpos, Head', size, unread')
          /\ Fits(readpos, Head', size, unread', rpc.left - rpc.copy)
      BY <1>1, <1>6, <1>7, <2>1, <2>2, <2>3, CopyKeepsOrder
    <2>5. Queued' /\ Space'
      BY <1>2, <1>3, <1>6, <2>2, <2>4 DEF Queued, Space
    <2> QED BY <1>4, <1>5, <2>5 DEF IInv
  <1> QED BY <1>8, <1>9

LEMMA AdvanceKeeps ==
  ASSUME IInv, Advance
  PROVE  IInv'
  <1> DEFINE left == rpc.left - rpc.copy
  <1>0. TypeOK /\ Heads /\ Setting /\ Queued /\ Space
    BY DEF IInv
  <1>1. size \in Nat /\ size > 0 /\ size <= BufSize /\ BufSize \in Nat
    BY <1>0, Sizes
  <1>2. rpc.at = "advance" /\ rpc' = (IF left > 0 THEN [rpc EXCEPT !.at = "piece", !.left = left] ELSE Idle)
        /\ UNCHANGED <<size, readpos, unread, broken>> /\ writepos' = Wrapped(writepos + rpc.copy)
    BY DEF Advance, RpcStep, history
  <1>3. readpos \in 0 .. size - 1 /\ writepos \in 0 .. size - 1 /\ rpc.left \in 0 .. BufSize
        /\ rpc.copy \in Nat /\ rpc.copy <= rpc.left
    BY <1>0, <1>1, <1>2 DEF Heads, TypeOK, Space, RpcState
  <1>4. left \in 0 .. BufSize
    BY <1>1, <1>3
  <1>5. rpc' \in RpcState /\ rpc'.at \in {"idle", "piece"}
        /\ (rpc'.at = "piece" => rpc'.left = left /\ left > 0)
    <2> HIDE DEF left
    <2>1. CASE left > 0
      BY <1>0, <1>2, <1>4, <2>1 DEF TypeOK, RpcState
    <2>2. CASE ~(left > 0)
      BY <1>2, <2>2, IdleState
    <2> QED BY <2>1, <2>2
  <1>6. writepos' \in 0 .. size - 1
    BY <1>1, <1>2, <1>3 DEF Wrapped
  <1>7. TypeOK'
    <2>1. writepos' \in 0 .. BufSize - 1
      BY <1>1, <1>6
    <2> QED BY <1>0, <1>5, <2>1, AudsrvAssumption DEF TypeOK, Advance, RpcStep, history
  <1>8. Head = writepos' /\ Head' = writepos'
    BY <1>2, <1>5 DEF Head
  <1>9. Heads' /\ Setting' /\ Queued'
    BY <1>0, <1>1, <1>2, <1>3, <1>5, <1>6, <1>8 DEF Heads, Setting, Queued, Changing
  <1>10. Space'
    BY <1>0, <1>2, <1>5, <1>8 DEF Space
  <1> QED BY <1>7, <1>9, <1>10 DEF IInv

-----------------------------------------------------------------------------
LEMMA AlwaysIInv == Spec => []IInv
  <1>1. IInv /\ [Next]_vars => IInv'
    <2> SUFFICES ASSUME IInv, [Next]_vars
                 PROVE  IInv'
      OBVIOUS
    <2>1. CASE UNCHANGED vars
      <3>1. Untouched /\ TypeOK'
        BY <2>1 DEF vars, Untouched, IInv, TypeOK
      <3> QED BY <3>1, UntouchedKeeps
    <2>2. CASE TransferComplete \/ ClientAnswers \/ PlayThread
      BY <2>2, OthersKeep, RenderKeeps DEF PlayThread
    <2>3. CASE Running
      BY <2>3, SetKeeps, CallsKeep, LimitKeeps, PieceKeeps, CopyKeeps, AdvanceKeeps DEF Running
    <2>4. CASE Request
      BY <2>4, SetKeeps, CallsKeep DEF Request
    <2> QED BY <2>1, <2>2, <2>3, <2>4 DEF Next
  <1> QED BY <1>1, InitIInv, PTL DEF Spec

(* Both heads stay inside the buffer, however the playing thread           *)
(* interrupts audsrv_set_format and audsrv_play_audio, for any formats.    *)
THEOREM TypeCorrect == Spec => []TypeOK
  <1>1. IInv => TypeOK
    BY DEF IInv
  <1> QED BY <1>1, AlwaysIInv, PTL

(* Until the reading head passes the writing head, what is queued lies in  *)
(* order between them, for any formats, chunks and interruptions.          *)
THEOREM PlayedInOrder == Spec => []QueueInOrder
  <1>1. IInv => QueueInOrder
    BY DEF IInv, Queued, QueueInOrder, Changing, Ordered
  <1> QED BY <1>1, AlwaysIInv, PTL

(* A piece that audsrv_play_audio copies covers nothing that is still to   *)
(* be played and ends inside the ring, although the space was looked at    *)
(* before the playing thread moved on.                                     *)
THEOREM CopiesFit == Spec => []CopyFits
  <1>1. IInv => CopyFits
    <2> SUFFICES ASSUME IInv, ~broken, rpc.at = "copy"
                 PROVE  Copied \cap unread = {} /\ Copied \subseteq 0 .. size - 1
      BY DEF CopyFits
    <2>0. TypeOK /\ Heads /\ Queued /\ Space
      BY DEF IInv
    <2>1. size \in Nat
      BY <2>0, Sizes
    <2>2. readpos \in 0 .. size - 1 /\ writepos \in 0 .. size - 1 /\ rpc.left \in Nat
          /\ rpc.copy \in Nat \ {0} /\ rpc.copy <= rpc.left
      BY <2>0, <2>1 DEF Heads, TypeOK, Space, RpcState
    <2>3. Ordered(readpos, writepos, size, unread)
      BY <2>0 DEF Queued, Head
    <2>4. Fits(readpos, writepos, size, unread, rpc.left) /\ writepos + rpc.copy <= size
      BY <2>0 DEF Space
    <2>5. (writepos .. writepos + rpc.copy - 1) \cap unread = {}
      BY <2>1, <2>2, <2>3, <2>4, CopyKeepsOrder
    <2> QED BY <2>1, <2>2, <2>4, <2>5 DEF Copied
  <1> QED BY <1>1, AlwaysIInv, PTL
=============================================================================
