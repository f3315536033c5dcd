------------------------------- MODULE Alarm -------------------------------
(***************************************************************************)
(* The EE kernel's alarms as patched by ee/kernel/src/srcfile/src/alarm.c: *)
(* SetAlarm and ReleaseAlarm, called by threads and by alarm callbacks,   *)
(* and Intc12Handler, run when timer 3 reaches its comparator.  The calls *)
(* run in the kernel with interrupts off, but the timer keeps counting.   *)
(*                                                                         *)
(* The timer, and the dispatcher that clears the interrupt's bit in       *)
(* I_STAT before it calls the handler, are external.                       *)
(***************************************************************************)
EXTENDS Naturals, Sequences, SequencesExt, FiniteSets, FiniteSetsExt

CONSTANTS Ticks,     \* 2^16: T3_COUNT, targets and times are u16
          Times,     \* the times alarms are set for
          MaxAlarms, \* MAX_ALARMS (64)
          Word,      \* bits of an int (32): the 1 of 1 << i is one
          MaxSets,   \* bound on the calls of SetAlarm
          None,
          MaxLag,    \* most ticks from an interrupt to the end of a slow handler
          Styles,    \* what callbacks do: "calls" (they set and release alarms,
                     \* within a tick of the interrupt) or "slow" (no calls)
          SlowRelease\* whether a tick may come inside ReleaseAlarm

ASSUME TicksAssumption == Ticks \in Nat \ {0} /\ Times \subseteq 1 .. Ticks - 1
ASSUME WordAssumption == MaxAlarms \in Nat /\ Word \in 1 .. MaxAlarms
ASSUME SetsAssumption == MaxSets \in Nat /\ None \notin Nat
ASSUME StylesAssumption == Styles \subseteq {"calls", "slow"}
ASSUME LagAssumption == MaxLag \in 0 .. Ticks - 1 /\ SlowRelease \in BOOLEAN

VARIABLES count,     \* T3_COUNT
          comp,      \* T3_COMP
          enabled,   \* CMPE of T3_MODE
          istat,     \* bit INTC_TIM3 of I_STAT
          alarms,    \* the first AlarmCount entries of alarms
          status,    \* the bits of AlarmStatus that are set
          pc,        \* "user", or in Intc12Handler: "handler", "callback"
          fired,     \* Intc12Handler's copy of the alarm it dispatches
          releasing, \* the alarm a ReleaseAlarm under way has found
          style,     \* external: what the program's callbacks do
          lag,       \* ticks since the interrupt that is pending or handled
          hit,       \* history: the targets reached and not yet served
          sets       \* calls of SetAlarm so far

timerVars == <<count, comp, enabled>>
vars == <<timerVars, istat, alarms, status, pc, fired, releasing, style, lag, hit, sets>>

Id == 0 .. MaxAlarms - 1
Index == 1 .. Len(alarms)

(* 1 << i is an int and is widened with its sign.                         *)
Bit(i) == IF i = Word - 1 THEN {j \in Id : j >= i} ELSE {i}

(* Mutants: the comparator is not set; comparing is not switched on.      *)
SetupTIM3NoComp(target) == enabled' = TRUE /\ UNCHANGED comp
SetupTIM3NoCmpe(target) == comp' = target /\ UNCHANGED enabled
(* SetupTIM3, which leaves I_STAT alone.                                  *)
SetupTIM3(target) == comp' = target /\ enabled' = TRUE

-----------------------------------------------------------------------------
(* Timer 3 counts hblanks; reaching the comparator raises the interrupt.  *)
Late == istat \/ pc # "user"
Tick ==
    /\ releasing # None => SlowRelease
    /\ Late => style = "slow" /\ lag < MaxLag
    /\ lag' = IF Late THEN lag + 1 ELSE 0
    /\ count' = (count + 1) % Ticks
    /\ IF enabled /\ count' = comp THEN istat' = TRUE /\ hit' = hit \cup {comp}
                                   ELSE UNCHANGED <<istat, hit>>
    /\ UNCHANGED <<comp, enabled, alarms, status, pc, fired, releasing, style, sets>>

(* Threads and callbacks make calls, one at a time.  A thread finds the   *)
(* interrupt pending only if it has interrupts off.                        *)
MayCall == releasing = None /\ (pc = "user" \/ (pc = "callback" /\ style = "calls"))
MaySet == /\ MayCall /\ ~istat
          /\ sets < MaxSets /\ Len(alarms) < MaxAlarms

CalculateTimeDiff(t1, t2) == IF t2 < t1 THEN Ticks + t2 ELSE t2

(* InsertAlarm: before the first alarm that it takes for a later one.     *)
InsertAlarm(now, target) ==
    Min({p \in Index : target < CalculateTimeDiff(now, alarms[p].time)} \cup {Len(alarms) + 1})

LowestFree(id) == id \in Id \ status /\ \A i \in Id \ status : id <= i

(* Mutant: the target keeps its 17th bit.                                 *)
TargetWide(time) == count + time
Target(time) == (count + time) % Ticks

SetAlarm(time, id) ==
    /\ MaySet /\ LowestFree(id)
    /\ status' = status \cup Bit(id)
    /\ LET alarm == [target |-> Target(time), time |-> time, id |-> id]
       IN alarms' = InsertAt(alarms, InsertAlarm(count, count + time), alarm)
    /\ SetupTIM3(alarms'[1].target)
    /\ sets' = sets + 1
    /\ UNCHANGED <<count, istat, pc, fired, releasing, style, lag, hit>>

(* Mutant: the interrupt is not looked at.                                *)
TriggeredNever(p) == FALSE
Triggered(p) == alarms[p].target = comp /\ istat

(* ReleaseAlarm finds the alarm and looks whether it has triggered.       *)
ReleaseFinds(p) ==
    /\ MayCall /\ p \in Index /\ ~Triggered(p)
    /\ releasing' = alarms[p].id
    /\ UNCHANGED <<timerVars, istat, alarms, status, pc, fired, style, lag, hit, sets>>

(* Mutant: the id stays taken.                                            *)
FreedNot(id) == status
Freed(id) == status \ Bit(id)

(* It removes the alarm.  Without a successor the comparator gets the     *)
(* target of the entry removed, and comparing is switched off.            *)
ReleaseRemoves(p) ==
    /\ p \in Index /\ alarms[p].id = releasing
    /\ alarms' = RemoveAt(alarms, p)
    /\ status' = Freed(releasing)
    /\ comp' = IF p = 1 THEN (IF Len(alarms) = 1 THEN alarms[1] ELSE alarms[2]).target ELSE comp
    /\ enabled' = (Len(alarms) > 1 /\ (enabled \/ p = 1))
    /\ releasing' = None
    /\ UNCHANGED <<count, istat, pc, fired, style, lag, hit, sets>>

-----------------------------------------------------------------------------
(* Intc12Handler first moves the comparator on to the next other target.  *)
Intc12Handler ==
    LET Later == {i \in Index : alarms[i].target # alarms[1].target} IN
    /\ pc = "user" /\ istat /\ releasing = None /\ alarms # <<>>
    /\ istat' = FALSE
    /\ IF Later # {} THEN SetupTIM3(alarms[Min(Later)].target) ELSE UNCHANGED <<comp, enabled>>
    /\ pc' = "handler"
    /\ UNCHANGED <<count, alarms, status, fired, releasing, style, lag, hit, sets>>

(* One alarm is taken off the list and its callback called.               *)
Dispatch ==
    /\ pc = "handler"
    /\ fired' = alarms[1]
    /\ alarms' = Tail(alarms)
    /\ status' = Freed(alarms[1].id)
    /\ pc' = "callback"
    /\ UNCHANGED <<timerVars, istat, releasing, style, lag, hit, sets>>

(* Mutant: the loop goes on with any alarm that is left.                  *)
SameTargetAny == alarms # <<>>
SameTarget == alarms # <<>> /\ alarms[1].target = fired.target

(* The callback is over: the next alarm with the same target, or the end. *)
CallbackReturns ==
    /\ pc = "callback" /\ releasing = None
    /\ IF SameTarget
       THEN pc' = "handler" /\ UNCHANGED <<comp, enabled, lag, hit>>
       ELSE /\ pc' = "user" /\ lag' = 0
            /\ hit' = hit \ {fired.target}
            /\ IF alarms = <<>> THEN enabled' = FALSE /\ UNCHANGED comp
                                ELSE SetupTIM3(alarms[1].target)
    /\ UNCHANGED <<count, istat, alarms, status, fired, releasing, style, sets>>

-----------------------------------------------------------------------------
Init == /\ count \in 0 .. Ticks - 1 /\ comp = 0 /\ enabled = FALSE /\ istat = FALSE
        /\ alarms = <<>> /\ status = {}
        /\ pc = "user" /\ fired = None /\ releasing = None
        /\ style \in Styles /\ lag = 0 /\ hit = {} /\ sets = 0

Release == \E p \in Index : ReleaseRemoves(p)
Next == \/ Tick
        \/ \E time \in Times, id \in Id : SetAlarm(time, id)
        \/ \E p \in Index : ReleaseFinds(p)
        \/ Release
        \/ Intc12Handler \/ Dispatch \/ CallbackReturns

Spec == Init /\ [][Next]_vars

(* The timer counts, a call in the kernel ends, a pending interrupt is    *)
(* taken and callbacks return.                                             *)
FairSpec == Spec /\ WF_vars(Tick) /\ WF_vars(Release) /\ WF_vars(Intc12Handler)
                 /\ WF_vars(Dispatch) /\ WF_vars(CallbackReturns)

-----------------------------------------------------------------------------
AlarmType == [target : 0 .. Ticks - 1, time : Times, id : Id]
(* Type invariant: struct alarm's fields are u16, AlarmCount is within    *)
(* the array and the handler always has an alarm to dispatch.             *)
TypeOK ==
    /\ count \in 0 .. Ticks - 1 /\ comp \in 0 .. Ticks - 1 /\ hit \subseteq 0 .. Ticks - 1
    /\ enabled \in BOOLEAN /\ istat \in BOOLEAN
    /\ alarms \in Seq(AlarmType) /\ Len(alarms) <= MaxAlarms
    /\ status \subseteq Id
    /\ pc \in {"user", "handler", "callback"}
    /\ pc = "handler" => alarms # <<>>
    /\ fired \in AlarmType \cup {None}
    /\ releasing \in Id \cup {None}
    /\ sets \in 0 .. MaxSets /\ lag \in 0 .. MaxLag /\ style \in Styles

(* AlarmStatus has the bits of the alarms in the list and no others, and  *)
(* no two alarms have the same id, so that ReleaseAlarm(id) means one.    *)
StatusExact ==
    /\ status = UNION {Bit(alarms[i].id) : i \in Index}
    /\ \A i, j \in Index : alarms[i].id = alarms[j].id => i = j

(* Outside the handler the comparator waits for the first alarm of the    *)
(* list, whatever callbacks set and release: no alarm is forgotten.       *)
ComparatorArmed ==
    /\ pc = "user" /\ alarms # <<>> => enabled /\ comp = alarms[1].target
    /\ pc = "user" /\ alarms = <<>> => ~enabled

(* The handler never runs without an alarm to dispatch: it would take the *)
(* stale alarms[0] and make AlarmCount -1.  ReleaseAlarm's comment:       *)
(* "Cannot release alarm that has already triggered" (alarm.c:126).  And  *)
(* a callback is only called when the timer has reached its alarm's own   *)
(* target, never for the target of another.                                *)
HandlerHasAlarm ==
    /\ istat /\ pc = "user" /\ releasing = None => alarms # <<>>
    /\ pc = "callback" => fired.target \in hit

(* An alarm comes when its time is over: the timer never leaves the       *)
(* target of an alarm in the list without the interrupt having been       *)
(* raised for it ("Wait u32Timeout msec", tcpip/src/sys_arch.c:360, is    *)
(* done with an alarm).                                                    *)
OnTime == [][count' # count => \A i \in Index : alarms[i].target # count]_vars

(* Every alarm fires or is released (in how many rounds of the timer      *)
(* OnTime asks).                                                           *)
AlarmFires == \A id \in Id : id \in status ~> id \notin status
=============================================================================
