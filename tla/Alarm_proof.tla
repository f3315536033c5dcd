---------------------------- MODULE Alarm_proof ----------------------------
(***************************************************************************)
(* Proofs about Alarm, for any timer width, times and number of alarms,   *)
(* and for callbacks of any style.                                         *)
(***************************************************************************)
EXTENDS Alarm, SequenceTheorems, WellFoundedInduction, TLAPS

(* The minimum of a set of naturals is one of them. *)
LEMMA MinIn ==
  ASSUME NEW S \in SUBSET Nat, S # {}
  PROVE  Min(S) \in S
  <1>1. PICK x \in S : \A y \in S : ~(<<y, x>> \in OpToRel(<, Nat))
    BY NatLessThanWellFounded, WFMin
  <1>2. \A y \in S : ~(y < x)
    BY <1>1 DEF OpToRel
  <1>3. \A y \in S : x <= y
    BY <1>2
  <1> QED BY <1>3 DEF Min

LEMMA Inserted ==
  ASSUME NEW S, NEW s \in Seq(S), NEW p \in 1 .. Len(s) + 1, NEW e \in S
  PROVE  /\ InsertAt(s, p, e) \in Seq(S)
         /\ Len(InsertAt(s, p, e)) = Len(s) + 1
         /\ \A i \in 1 .. Len(s) + 1 :
               InsertAt(s, p, e)[i] = IF i < p THEN s[i] ELSE IF i = p THEN e ELSE s[i - 1]
  <1> DEFINE a == SubSeq(s, 1, p - 1)
  <1> DEFINE z == SubSeq(s, p, Len(s))
  <1> DEFINE b == a \o <<e>>
  <1>0. Len(s) \in Nat /\ p - 1 \in Int /\ p \in Int
    OBVIOUS
  <1>1. a \in Seq(S) /\ Len(a) = p - 1 /\ \A i \in 1 .. p - 1 : a[i] = s[i]
    <2>1. \A i \in 1 .. p - 1 : s[i] \in S
      OBVIOUS
    <2> QED BY <1>0, <2>1, SubSeqProperties
  <1>2. z \in Seq(S) /\ Len(z) = Len(s) - p + 1 /\ \A i \in 1 .. Len(s) - p + 1 : z[i] = s[p + i - 1]
    <2>1. \A i \in p .. Len(s) : s[i] \in S
      OBVIOUS
    <2> QED BY <1>0, <2>1, SubSeqProperties
  <1>3. <<e>> \in Seq(S) /\ Len(<<e>>) = 1 /\ <<e>>[1] = e
    OBVIOUS
  <1> HIDE DEF a, z
  <1>4. b \in Seq(S) /\ Len(b) = p /\ \A i \in 1 .. p : b[i] = IF i < p THEN s[i] ELSE e
    BY <1>1, <1>3, ConcatProperties
  <1> HIDE DEF b
  <1>5. /\ b \o z \in Seq(S) /\ Len(b \o z) = Len(s) + 1
        /\ \A i \in 1 .. Len(s) + 1 : (b \o z)[i] = IF i <= p THEN b[i] ELSE z[i - p]
    BY <1>2, <1>4, ConcatProperties
  <1>6. \A i \in 1 .. Len(s) + 1 : (b \o z)[i] = IF i < p THEN s[i] ELSE IF i = p THEN e ELSE s[i - 1]
    BY <1>2, <1>4, <1>5
  <1>7. InsertAt(s, p, e) = b \o z
    BY DEF InsertAt, a, b, z
  <1> QED BY <1>5, <1>6, <1>7

LEMMA Removed ==
  ASSUME NEW S, NEW s \in Seq(S), NEW p \in 1 .. Len(s)
  PROVE  /\ RemoveAt(s, p) \in Seq(S)
         /\ Len(RemoveAt(s, p)) = Len(s) - 1
         /\ \A i \in 1 .. Len(s) - 1 : RemoveAt(s, p)[i] = IF i < p THEN s[i] ELSE s[i + 1]
  <1> DEFINE a == SubSeq(s, 1, p - 1)
  <1> DEFINE z == SubSeq(s, p + 1, Len(s))
  <1>0. Len(s) \in Nat /\ p - 1 \in Int /\ p + 1 \in Int
    OBVIOUS
  <1>1. a \in Seq(S) /\ Len(a) = p - 1 /\ \A i \in 1 .. p - 1 : a[i] = s[i]
    <2>1. \A i \in 1 .. p - 1 : s[i] \in S
      OBVIOUS
    <2> QED BY <1>0, <2>1, SubSeqProperties
  <1>2. z \in Seq(S) /\ Len(z) = Len(s) - p /\ \A i \in 1 .. Len(s) - p : z[i] = s[p + i]
    <2>1. \A i \in p + 1 .. Len(s) : s[i] \in S
      OBVIOUS
    <2> QED BY <1>0, <2>1, SubSeqProperties
  <1> HIDE DEF a, z
  <1>3. /\ a \o z \in Seq(S) /\ Len(a \o z) = Len(a) + Len(z)
        /\ \A i \in 1 .. Len(a) + Len(z) : (a \o z)[i] = IF i <= Len(a) THEN a[i] ELSE z[i - Len(a)]
    BY <1>1, <1>2, ConcatProperties
  <1>4. Len(a) + Len(z) = Len(s) - 1
    BY <1>0, <1>1, <1>2
  <1>5. ASSUME NEW i \in 1 .. Len(s) - 1 PROVE (a \o z)[i] = IF i < p THEN s[i] ELSE s[i + 1]
    <2>1. CASE i < p
      BY <1>1, <1>3, <1>4, <2>1
    <2>2. CASE ~(i < p)
      <3>1. i - (p - 1) \in 1 .. Len(s) - p /\ p + (i - (p - 1)) = i + 1
        BY <1>0, <2>2
      <3>2. z[i - (p - 1)] = s[i + 1]
        BY <1>2, <3>1
      <3>3. (a \o z)[i] = z[i - (p - 1)]
        BY <1>1, <1>3, <1>4, <2>2
      <3> QED BY <2>2, <3>2, <3>3
    <2> QED BY <2>1, <2>2
  <1>6. RemoveAt(s, p) = a \o z
    BY DEF RemoveAt, a, z
  <1> QED BY <1>3, <1>4, <1>5, <1>6

-----------------------------------------------------------------------------
(* status has the bits of the ids in the list s, which differ.  The sign  *)
(* of 1 << 31 takes all higher ids, so that none of them is ever given.   *)
Exact(st, s) ==
    /\ \A x : x \in st <=> \E i \in 1 .. Len(s) : x \in Bit(s[i].id)
    /\ \A i, j \in 1 .. Len(s) : s[i].id = s[j].id => i = j
    /\ \A i \in 1 .. Len(s) : s[i].id < Word

IInv == /\ TypeOK /\ ComparatorArmed
        /\ Exact(status, alarms)
        /\ pc = "handler" => releasing = None

LEMMA Bits ==
  ASSUME NEW i \in Id, NEW j \in Id, i < Word, j < Word
  PROVE  /\ i \in Bit(i) /\ Bit(i) \subseteq Id
         /\ i # j => Bit(i) \cap Bit(j) = {}
  BY WordAssumption DEF Bit, Id

LEMMA ListIds ==
  ASSUME NEW s \in Seq(AlarmType), NEW st, Exact(st, s)
  PROVE  \A i \in 1 .. Len(s) : s[i].id \in Id /\ s[i].id < Word
  <1>1. \A i \in 1 .. Len(s) : s[i] \in AlarmType
    OBVIOUS
  <1>2. \A a \in AlarmType : a.id \in Id
    BY DEF AlarmType
  <1> QED BY <1>1, <1>2 DEF Exact

LEMMA FreeLow ==
  ASSUME NEW s \in Seq(AlarmType), NEW st, Exact(st, s), NEW id \in Id \ st,
         \A i \in Id \ st : id <= i
  PROVE  id < Word
  <1> SUFFICES ASSUME id >= Word PROVE FALSE
    BY WordAssumption DEF Id
  <1>1. Word - 1 \in Id /\ Word - 1 < id
    BY WordAssumption DEF Id
  <1>2. Word - 1 \in st
    BY <1>1 DEF Id
  <1>3. PICK i \in 1 .. Len(s) : Word - 1 \in Bit(s[i].id)
    BY <1>2 DEF Exact
  <1>4. s[i].id \in Id /\ s[i].id < Word
    BY ListIds
  <1>5. s[i].id = Word - 1
    BY <1>3, <1>4, WordAssumption DEF Bit, Id
  <1>6. id \in Bit(s[i].id)
    BY <1>1, <1>5 DEF Bit, Id
  <1> QED BY <1>6 DEF Exact

LEMMA InsertExact ==
  ASSUME NEW s \in Seq(AlarmType), NEW st, Exact(st, s), NEW a \in AlarmType,
         a.id \notin st, \A i \in Id \ st : a.id <= i, NEW p \in 1 .. Len(s) + 1
  PROVE  Exact(st \cup Bit(a.id), InsertAt(s, p, a))
  <1> DEFINE t == InsertAt(s, p, a)
  <1>1. /\ Len(t) = Len(s) + 1
        /\ \A i \in 1 .. Len(s) + 1 : t[i] = IF i < p THEN s[i] ELSE IF i = p THEN a ELSE s[i - 1]
    BY Inserted
  <1>2. a.id \in Id /\ a.id < Word
    BY FreeLow DEF AlarmType
  <1>3. \A i \in 1 .. Len(s) : s[i].id \in Id /\ s[i].id < Word
    BY ListIds
  <1>4. \A i \in 1 .. Len(s) : s[i].id # a.id
    BY <1>3, Bits DEF Exact
  <1>5. \A i \in 1 .. Len(s) : s[i] = t[IF i < p THEN i ELSE i + 1]
    BY <1>1
  <1>6. t[p] = a
    BY <1>1
  <1> HIDE DEF t
  <1>7. \A i \in 1 .. Len(t) : t[i].id < Word
    BY <1>1, <1>2, <1>3
  <1>8. ASSUME NEW i \in 1 .. Len(t), NEW j \in 1 .. Len(t), t[i].id = t[j].id PROVE i = j
    <2> DEFINE old(k) == IF k < p THEN k ELSE k - 1
    <2>1. \A k \in 1 .. Len(t) : k # p => old(k) \in 1 .. Len(s) /\ t[k] = s[old(k)]
      BY <1>1
    <2> HIDE DEF old
    <2>2. CASE i = p \/ j = p
      <3>1. \A k \in 1 .. Len(t) : k # p => t[k].id # a.id
        BY <1>4, <2>1
      <3> QED BY <1>6, <1>8, <2>2, <3>1
    <2>3. CASE i # p /\ j # p
      <3>1. old(i) = old(j)
        BY <1>8, <2>1, <2>3 DEF Exact
      <3> QED BY <2>3, <3>1 DEF old
    <2> QED BY <2>2, <2>3
  <1>9. ASSUME NEW x PROVE x \in st \cup Bit(a.id) <=> \E i \in 1 .. Len(t) : x \in Bit(t[i].id)
    <2>1. ASSUME x \in st PROVE \E i \in 1 .. Len(t) : x \in Bit(t[i].id)
      <3>1. PICK i \in 1 .. Len(s) : x \in Bit(s[i].id)
        BY <2>1 DEF Exact
      <3>2. (IF i < p THEN i ELSE i + 1) \in 1 .. Len(t)
        BY <1>1
      <3> QED BY <1>5, <3>1, <3>2
    <2>2. ASSUME x \in Bit(a.id) PROVE \E i \in 1 .. Len(t) : x \in Bit(t[i].id)
      BY <1>1, <1>6, <2>2
    <2>3. ASSUME NEW i \in 1 .. Len(t), x \in Bit(t[i].id) PROVE x \in st \cup Bit(a.id)
      <3>1. CASE i = p
        BY <1>6, <2>3, <3>1
      <3>2. CASE i # p
        <4>1. PICK j \in 1 .. Len(s) : t[i] = s[j]
          BY <1>1, <3>2
        <4> QED BY <2>3, <4>1 DEF Exact
      <3> QED BY <3>1, <3>2
    <2> QED BY <2>1, <2>2, <2>3
  <1>10. Exact(st \cup Bit(a.id), t)
    BY <1>7, <1>8, <1>9 DEF Exact
  <1> QED BY <1>10 DEF t

LEMMA RemoveExact ==
  ASSUME NEW s \in Seq(AlarmType), NEW st, Exact(st, s), NEW p \in 1 .. Len(s), NEW t,
         Len(t) = Len(s) - 1,
         \A i \in 1 .. Len(s) - 1 : t[i] = IF i < p THEN s[i] ELSE s[i + 1]
  PROVE  Exact(st \ Bit(s[p].id), t)
  <1>1. \A i \in 1 .. Len(s) : s[i].id \in Id /\ s[i].id < Word
    BY ListIds
  <1>2. \A i \in 1 .. Len(t) : t[i].id < Word
    BY <1>1
  <1>3. \A i, j \in 1 .. Len(t) : t[i].id = t[j].id => i = j
    BY DEF Exact
  <1>4. ASSUME NEW x PROVE x \in st \ Bit(s[p].id) <=> \E i \in 1 .. Len(t) : x \in Bit(t[i].id)
    <2>1. ASSUME x \in st, x \notin Bit(s[p].id) PROVE \E i \in 1 .. Len(t) : x \in Bit(t[i].id)
      <3>1. PICK i \in 1 .. Len(s) : x \in Bit(s[i].id)
        BY <2>1 DEF Exact
      <3>2. i # p
        BY <2>1, <3>1
      <3>3. PICK j \in 1 .. Len(t) : t[j] = s[i]
        <4>1. CASE i < p
          <5>1. i \in 1 .. Len(t) /\ t[i] = s[i]
            BY <4>1
          <5> QED BY <5>1
        <4>2. CASE i > p
          <5>1. i - 1 \in 1 .. Len(t) /\ t[i - 1] = s[i]
            BY <4>2
          <5> QED BY <5>1
        <4>3. i < p \/ i > p
          BY <3>2
        <4> QED BY <4>1, <4>2, <4>3
      <3> QED BY <3>1, <3>3
    <2>2. ASSUME NEW i \in 1 .. Len(t), x \in Bit(t[i].id) PROVE x \in st /\ x \notin Bit(s[p].id)
      <3>1. PICK j \in 1 .. Len(s) : t[i] = s[j] /\ j # p
        OBVIOUS
      <3>2. s[j].id # s[p].id
        BY <3>1 DEF Exact
      <3>3. Bit(s[j].id) \cap Bit(s[p].id) = {}
        BY <1>1, <3>2, Bits
      <3> QED BY <2>2, <3>1, <3>3 DEF Exact
    <2> QED BY <2>1, <2>2
  <1> QED BY <1>2, <1>3, <1>4 DEF Exact

-----------------------------------------------------------------------------
LEMMA InitIInv == Init => IInv
  <1> SUFFICES ASSUME Init PROVE IInv
    OBVIOUS
  <1>1. TypeOK
    <2>1. enabled \in BOOLEAN /\ istat \in BOOLEAN
      BY DEF Init
    <2>2. alarms \in Seq(AlarmType) /\ Len(alarms) <= MaxAlarms
      BY WordAssumption DEF Init
    <2>3. /\ count \in 0 .. Ticks - 1 /\ comp \in 0 .. Ticks - 1 /\ sets \in 0 .. MaxSets
          /\ lag \in 0 .. MaxLag
      BY TicksAssumption, SetsAssumption, LagAssumption DEF Init
    <2> QED BY <2>1, <2>2, <2>3 DEF Init, TypeOK
  <1>2. Exact(status, alarms)
    BY DEF Init, Exact
  <1> QED BY <1>1, <1>2 DEF Init, IInv, ComparatorArmed

LEMMA TimerKeeps ==
  ASSUME IInv, Tick
  PROVE  IInv'
  <1>1. count' \in 0 .. Ticks - 1
    BY TicksAssumption DEF Tick, IInv, TypeOK
  <1>2. lag' \in 0 .. MaxLag
    BY LagAssumption DEF Tick, IInv, TypeOK
  <1>3. istat' \in BOOLEAN /\ enabled' \in BOOLEAN
    BY DEF Tick, IInv, TypeOK
  <1>4. hit' \subseteq 0 .. Ticks - 1
    BY DEF Tick, IInv, TypeOK
  <1>5. TypeOK'
    BY <1>1, <1>2, <1>3, <1>4 DEF Tick, IInv, TypeOK
  <1>6. alarms' = alarms /\ status' = status
    BY DEF Tick
  <1>7. Exact(status', alarms')
    BY <1>6 DEF IInv
  <1> QED BY <1>5, <1>7 DEF Tick, IInv, ComparatorArmed

LEMMA SetKeeps ==
  ASSUME IInv, NEW time \in Times, NEW id \in Id, SetAlarm(time, id)
  PROVE  IInv'
  <1> DEFINE a == [target |-> Target(time), time |-> time, id |-> id]
  <1> DEFINE p == InsertAlarm(count, count + time)
  <1>0. TypeOK /\ Exact(status, alarms) /\ alarms \in Seq(AlarmType)
    BY DEF IInv, TypeOK
  <1>1. Target(time) \in 0 .. Ticks - 1
    BY <1>0, TicksAssumption DEF Target, TypeOK
  <1>2. a \in AlarmType /\ a.id = id
    BY <1>1 DEF AlarmType
  <1>3. p \in 1 .. Len(alarms) + 1
    <2> DEFINE S == {q \in Index : count + time < CalculateTimeDiff(count, alarms[q].time)}
                    \cup {Len(alarms) + 1}
    <2>1. S \subseteq 1 .. Len(alarms) + 1 /\ S \subseteq Nat /\ S # {}
      BY <1>0 DEF Index
    <2>2. p = Min(S)
      BY DEF InsertAlarm
    <2> HIDE DEF S, p
    <2> QED BY <2>1, <2>2, MinIn
  <1>4. alarms' = InsertAt(alarms, p, a) /\ status' = status \cup Bit(id)
        /\ comp' = alarms'[1].target /\ enabled' = TRUE /\ sets' = sets + 1
        /\ sets < MaxSets /\ Len(alarms) < MaxAlarms /\ pc # "handler"
        /\ UNCHANGED <<count, istat, pc, fired, releasing, style, lag, hit>>
    BY DEF SetAlarm, SetupTIM3, MaySet, MayCall
  <1>5. id \notin status /\ \A i \in Id \ status : id <= i
    BY DEF SetAlarm, LowestFree
  <1> HIDE DEF a, p
  <1>6. alarms' \in Seq(AlarmType) /\ Len(alarms') = Len(alarms) + 1
    BY <1>0, <1>2, <1>3, <1>4, Inserted
  <1>7. Exact(status', alarms')
    BY <1>0, <1>2, <1>3, <1>4, <1>5, InsertExact
  <1>8. alarms' # <<>> /\ Len(alarms') <= MaxAlarms /\ comp' \in 0 .. Ticks - 1
    <2>1. alarms'[1] \in AlarmType
      BY <1>6
    <2>2. comp' \in 0 .. Ticks - 1
      BY <1>4, <2>1 DEF AlarmType
    <2>3. Len(alarms') <= MaxAlarms /\ alarms' # <<>>
      BY <1>0, <1>4, <1>6, WordAssumption
    <2> QED BY <2>2, <2>3
  <1>9. status' \subseteq Id
    BY <1>0, <1>4 DEF TypeOK, Bit
  <1>10. sets' \in 0 .. MaxSets
    BY <1>0, <1>4, SetsAssumption DEF TypeOK
  <1>11. enabled' \in BOOLEAN /\ istat' \in BOOLEAN
    BY <1>0, <1>4 DEF TypeOK
  <1>12. TypeOK'
    BY <1>0, <1>4, <1>6, <1>8, <1>9, <1>10, <1>11 DEF TypeOK
  <1> QED BY <1>4, <1>7, <1>8, <1>12 DEF IInv, ComparatorArmed

LEMMA FindKeeps ==
  ASSUME IInv, NEW p \in Index, ReleaseFinds(p)
  PROVE  IInv'
  <1>1. alarms[p].id \in Id
    BY ListIds DEF IInv, TypeOK, Index
  <1>2. /\ releasing' = alarms[p].id /\ pc # "handler"
        /\ UNCHANGED <<timerVars, istat, alarms, status, pc, fired, style, lag, hit, sets>>
    BY DEF ReleaseFinds, MayCall
  <1>3. enabled' \in BOOLEAN /\ istat' \in BOOLEAN
    BY <1>2 DEF IInv, TypeOK, timerVars
  <1>4. TypeOK'
    BY <1>1, <1>2, <1>3 DEF IInv, TypeOK, timerVars
  <1>5. Exact(status', alarms')
    BY <1>2 DEF IInv
  <1> QED BY <1>2, <1>4, <1>5 DEF IInv, ComparatorArmed, timerVars

LEMMA RemoveKeeps ==
  ASSUME IInv, NEW p \in Index, ReleaseRemoves(p)
  PROVE  IInv'
  <1>0. TypeOK /\ ComparatorArmed /\ Exact(status, alarms)
        /\ alarms \in Seq(AlarmType) /\ p \in 1 .. Len(alarms)
    BY DEF IInv, TypeOK, Index
  <1>1. /\ alarms[p].id = releasing /\ alarms' = RemoveAt(alarms, p)
        /\ status' = status \ Bit(alarms[p].id)
        /\ comp' = IF p = 1 THEN (IF Len(alarms) = 1 THEN alarms[1] ELSE alarms[2]).target ELSE comp
        /\ enabled' = (Len(alarms) > 1 /\ (enabled \/ p = 1))
        /\ releasing' = None
        /\ UNCHANGED <<count, istat, pc, fired, style, lag, hit, sets>>
    BY DEF ReleaseRemoves, Freed
  <1>2. /\ alarms' \in Seq(AlarmType) /\ Len(alarms') = Len(alarms) - 1
        /\ \A i \in 1 .. Len(alarms) - 1 : alarms'[i] = IF i < p THEN alarms[i] ELSE alarms[i + 1]
    BY <1>0, <1>1, Removed
  <1>3. Exact(status', alarms')
    BY <1>0, <1>1, <1>2, RemoveExact
  <1>4. releasing # None
    BY <1>0, <1>1, ListIds, SetsAssumption DEF Id
  <1>5. pc # "handler"
    BY <1>4 DEF IInv
  <1>6. Len(alarms) \in Nat \ {0} /\ \A i \in 1 .. Len(alarms) : alarms[i].target \in 0 .. Ticks - 1
    <2>1. \A i \in 1 .. Len(alarms) : alarms[i] \in AlarmType
      BY <1>0
    <2>2. \A al \in AlarmType : al.target \in 0 .. Ticks - 1
      BY DEF AlarmType
    <2>3. Len(alarms) \in Nat \ {0}
      BY <1>0
    <2> QED BY <2>1, <2>2, <2>3
  <1>6a. Len(alarms) = 1 \/ (Len(alarms) > 1 /\ 2 \in 1 .. Len(alarms))
    <2>1. \A n \in Nat \ {0} : n = 1 \/ (n > 1 /\ 2 \in 1 .. n)
      OBVIOUS
    <2>2. Len(alarms) \in Nat \ {0}
      BY <1>6
    <2> QED BY <2>1, <2>2
  <1>7. comp' \in 0 .. Ticks - 1
    <2>1. CASE p = 1 /\ Len(alarms) = 1
      BY <1>1, <1>6, <2>1
    <2>2. CASE p = 1 /\ Len(alarms) # 1
      <3>1. 2 \in 1 .. Len(alarms) /\ comp' = alarms[2].target
        BY <1>1, <1>6a, <2>2
      <3> QED BY <1>6, <3>1
    <2>3. CASE p # 1
      BY <1>0, <1>1, <2>3 DEF TypeOK
    <2> QED BY <2>1, <2>2, <2>3
  <1>8. enabled' \in BOOLEAN /\ istat' \in BOOLEAN
    BY <1>0, <1>1 DEF TypeOK
  <1>9. Len(alarms') <= MaxAlarms /\ status' \subseteq Id
    BY <1>0, <1>1, <1>2, <1>6, WordAssumption DEF TypeOK
  <1>10. TypeOK'
    BY <1>0, <1>1, <1>2, <1>5, <1>7, <1>8, <1>9 DEF TypeOK
  <1>11. ComparatorArmed'
    <2> SUFFICES ASSUME pc' = "user" PROVE ComparatorArmed'
      BY DEF ComparatorArmed
    <2>1. pc = "user" /\ alarms # <<>> /\ enabled /\ comp = alarms[1].target
      BY <1>0, <1>1, <1>6 DEF ComparatorArmed
    <2>2. CASE Len(alarms) = 1
      <3>1. alarms' = <<>>
        BY <1>2, <2>2, EmptySeq
      <3>2. ~(Len(alarms) > 1)
        BY <2>2
      <3>3. ~enabled'
        BY <1>1, <3>2
      <3> QED BY <3>1, <3>3 DEF ComparatorArmed
    <2>3. CASE Len(alarms) > 1
      <3>1. alarms' # <<>> /\ alarms'[1] = IF p = 1 THEN alarms[2] ELSE alarms[1]
        BY <1>0, <1>2, <1>6, <2>3
      <3>2. enabled'
        BY <1>1, <2>1, <2>3
      <3>3. comp' = alarms'[1].target
        BY <1>1, <2>1, <2>3, <3>1
      <3> QED BY <3>1, <3>2, <3>3 DEF ComparatorArmed
    <2> QED BY <1>6a, <2>2, <2>3
  <1> QED BY <1>1, <1>3, <1>10, <1>11 DEF IInv

LEMMA HandlerKeeps ==
  ASSUME IInv, Intc12Handler
  PROVE  IInv'
  <1> DEFINE Later == {i \in Index : alarms[i].target # alarms[1].target}
  <1>0. TypeOK /\ alarms \in Seq(AlarmType) /\ Exact(status, alarms)
    BY DEF IInv, TypeOK
  <1>1. /\ alarms # <<>> /\ releasing = None /\ pc' = "handler" /\ istat' = FALSE
        /\ IF Later # {} THEN comp' = alarms[Min(Later)].target /\ enabled' = TRUE
                          ELSE UNCHANGED <<comp, enabled>>
        /\ UNCHANGED <<count, alarms, status, fired, releasing, style, lag, hit, sets>>
    BY DEF Intc12Handler, SetupTIM3
  <1>2. \A i \in Index : alarms[i].target \in 0 .. Ticks - 1
    <2>1. \A i \in Index : alarms[i] \in AlarmType
      BY <1>0 DEF Index
    <2>2. \A al \in AlarmType : al.target \in 0 .. Ticks - 1
      BY DEF AlarmType
    <2> QED BY <2>1, <2>2
  <1>3. Later \subseteq Index /\ Later \subseteq Nat
    BY <1>0 DEF Index
  <1> HIDE DEF Later
  <1>4. Later # {} => Min(Later) \in Index
    BY <1>3, MinIn
  <1>5. comp' \in 0 .. Ticks - 1
    BY <1>0, <1>1, <1>2, <1>4 DEF TypeOK
  <1>6. enabled' \in BOOLEAN /\ istat' \in BOOLEAN
    BY <1>0, <1>1 DEF TypeOK
  <1>7. TypeOK'
    BY <1>0, <1>1, <1>5, <1>6 DEF TypeOK
  <1>8. Exact(status', alarms')
    BY <1>0, <1>1
  <1> QED BY <1>1, <1>7, <1>8 DEF IInv, ComparatorArmed

LEMMA DispatchKeeps ==
  ASSUME IInv, Dispatch
  PROVE  IInv'
  <1>0. TypeOK /\ alarms \in Seq(AlarmType) /\ Exact(status, alarms) /\ alarms # <<>>
    BY DEF IInv, TypeOK, Dispatch
  <1>1. /\ fired' = alarms[1] /\ alarms' = Tail(alarms) /\ status' = status \ Bit(alarms[1].id)
        /\ pc' = "callback" /\ UNCHANGED <<timerVars, istat, releasing, style, lag, hit, sets>>
    BY DEF Dispatch, Freed
  <1>2. /\ alarms' \in Seq(AlarmType) /\ Len(alarms') = Len(alarms) - 1
        /\ \A i \in 1 .. Len(alarms) - 1 : alarms'[i] = IF i < 1 THEN alarms[i] ELSE alarms[i + 1]
    BY <1>0, <1>1, HeadTailProperties
  <1>3. 1 \in 1 .. Len(alarms) /\ alarms[1] \in AlarmType /\ Len(alarms) \in Nat
    BY <1>0
  <1>4. Exact(status', alarms')
    BY <1>0, <1>1, <1>2, <1>3, RemoveExact
  <1>5. enabled' \in BOOLEAN /\ istat' \in BOOLEAN
    BY <1>0, <1>1 DEF TypeOK, timerVars
  <1>6. Len(alarms') <= MaxAlarms /\ status' \subseteq Id
    BY <1>0, <1>1, <1>2, <1>3, WordAssumption DEF TypeOK
  <1>7. TypeOK'
    BY <1>0, <1>1, <1>2, <1>3, <1>5, <1>6 DEF TypeOK, timerVars
  <1> QED BY <1>1, <1>4, <1>7 DEF IInv, ComparatorArmed

LEMMA ReturnKeeps ==
  ASSUME IInv, CallbackReturns
  PROVE  IInv'
  <1>0. TypeOK /\ alarms \in Seq(AlarmType) /\ Exact(status, alarms)
    BY DEF IInv, TypeOK
  <1>1. /\ releasing = None
        /\ UNCHANGED <<count, istat, alarms, status, fired, releasing, style, sets>>
    BY DEF CallbackReturns
  <1>2. Exact(status', alarms')
    BY <1>0, <1>1
  <1>3. istat' \in BOOLEAN
    BY <1>0, <1>1 DEF TypeOK
  <1>4. CASE SameTarget
    <2>1. pc' = "handler" /\ alarms # <<>> /\ UNCHANGED <<comp, enabled, lag, hit>>
      BY <1>4 DEF CallbackReturns, SameTarget
    <2>2. enabled' \in BOOLEAN
      BY <1>0, <2>1 DEF TypeOK
    <2>3. TypeOK'
      BY <1>0, <1>1, <1>3, <2>1, <2>2 DEF TypeOK
    <2> QED BY <1>1, <1>2, <2>1, <2>3 DEF IInv, ComparatorArmed
  <1>5. CASE ~SameTarget
    <2>1. /\ pc' = "user" /\ lag' = 0 /\ hit' \subseteq hit
          /\ IF alarms = <<>> THEN enabled' = FALSE /\ UNCHANGED comp
                              ELSE comp' = alarms[1].target /\ enabled' = TRUE
      BY <1>5 DEF CallbackReturns, SetupTIM3
    <2>2. enabled' \in BOOLEAN
      BY <2>1
    <2>3. comp' \in 0 .. Ticks - 1
      <3>1. alarms # <<>> => alarms[1] \in AlarmType
        BY <1>0
      <3>2. \A al \in AlarmType : al.target \in 0 .. Ticks - 1
        BY DEF AlarmType
      <3> QED BY <1>0, <2>1, <3>1, <3>2 DEF TypeOK
    <2>4. lag' \in 0 .. MaxLag
      BY <2>1, LagAssumption
    <2>5. TypeOK'
      BY <1>0, <1>1, <1>3, <2>1, <2>2, <2>3, <2>4 DEF TypeOK
    <2>6. ComparatorArmed'
      BY <1>1, <2>1 DEF ComparatorArmed
    <2> QED BY <1>1, <1>2, <2>1, <2>5, <2>6 DEF IInv
  <1> QED BY <1>4, <1>5

-----------------------------------------------------------------------------
LEMMA AlwaysIInv == Spec => []IInv
  <1>1. IInv /\ [Next]_vars => IInv'
    <2> SUFFICES ASSUME IInv, [Next]_vars PROVE IInv'
      OBVIOUS
    <2>1. CASE UNCHANGED vars
      <3>1. UNCHANGED <<count, comp, enabled, istat, alarms, status, pc, fired, releasing, style,
                      lag, hit, sets>>
        BY <2>1 DEF vars, timerVars
      <3>2. TypeOK' /\ ComparatorArmed'
        BY <3>1 DEF IInv, TypeOK, ComparatorArmed
      <3>3. Exact(status', alarms')
        BY <3>1 DEF IInv
      <3> QED BY <3>1, <3>2, <3>3 DEF IInv
    <2>2. CASE Next
      BY <2>2, TimerKeeps, SetKeeps, FindKeeps, RemoveKeeps, HandlerKeeps, DispatchKeeps, ReturnKeeps
         DEF Next, Release
    <2> QED BY <2>1, <2>2
  <1> QED BY <1>1, InitIInv, PTL DEF Spec

(* The fields of the alarms stay u16, the list stays within the array, and *)
(* Intc12Handler's loop always has an alarm to dispatch.                   *)
THEOREM TypeCorrect == Spec => []TypeOK
  <1>1. IInv => TypeOK
    BY DEF IInv
  <1> QED BY <1>1, AlwaysIInv, PTL

(* AlarmStatus has exactly the bits of the alarms in the list, whose ids   *)
(* differ, although 1 << 31 sets the bits of all higher ids too.           *)
THEOREM IdsExact == Spec => []StatusExact
  <1>1. IInv => StatusExact
    BY DEF IInv, StatusExact, Exact, Index
  <1> QED BY <1>1, AlwaysIInv, PTL

(* Outside the handler, comparing is on exactly when an alarm is set, and  *)
(* the comparator waits for the first one.                                 *)
THEOREM Armed == Spec => []ComparatorArmed
  <1>1. IInv => ComparatorArmed
    BY DEF IInv
  <1> QED BY <1>1, AlwaysIInv, PTL
=============================================================================
