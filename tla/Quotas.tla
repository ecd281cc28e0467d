------------------------------- MODULE Quotas -------------------------------
(***************************************************************************)
(* limits.py: reserve, release and cooldown of one key on a shared cache   *)
(* that expires and evicts counters. A counter is read, created and        *)
(* incremented by separate cache calls of callers that run side by side.   *)
(***************************************************************************)
EXTENDS Integers, FiniteSets

CONSTANTS
  Callers,
  Windows,        \* how many windows a reservation has to clear, in their order
  Limit,          \* what each of them allows
  Concurrency,    \* how many reservations may be held at once
  SlotLife,       \* CONCURRENCY_TIMEOUT_SECONDS, in ticks
  MaxQuotaFaults  \* evictions and deaths

Slot == 0       \* the name of the concurrency counter; 1..Windows are the windows
CounterKeys == 0..Windows

ASSUME QuotasAssumption ==
  /\ IsFiniteSet(Callers) /\ {Windows, Limit, MaxQuotaFaults} \subseteq Nat
  /\ {Concurrency, SlotLife} \subseteq Nat \ {0}

VARIABLES
  counter,    \* the counters; that of a window belongs to its current bucket
  ttl,        \* ticks left to the concurrency counter
  cooling,    \* the cooldown key
  caller,     \* the local variables of reserve, and the reservation held
  forgotten,  \* history: callers counted in a concurrency counter that is gone
  stolen,     \* history: releases of those, taken from its successor
  passed,     \* history: calls a window let through since its counter was created
  quotaFaults

quotaVars == <<counter, ttl, cooling, caller, forgotten, stolen, passed, quotaFaults>>

Absent == -1 - Cardinality(Callers)  \* below what releases can take a counter to
IdleCaller == [step |-> "idle", key |-> Slot, late |-> FALSE]

QuotaInit ==
  /\ counter = [k \in CounterKeys |-> Absent]
  /\ ttl = 0
  /\ cooling = FALSE
  /\ caller = [c \in Callers |-> IdleCaller]
  /\ forgotten = {} /\ stolen = 0
  /\ passed = [k \in CounterKeys |-> 0]
  /\ quotaFaults = 0

Holders == {c \in Callers : caller[c].step = "held"}
RefusedCallers == {c \in Callers : caller[c].step = "refused"}
Counted == Holders \cup RefusedCallers
CapReached(k) == IF k = Slot THEN Concurrency ELSE Limit + 1   \* Mutant: one call too many.
Cap(k) == IF k = Slot THEN Concurrency ELSE Limit
QuotaFault == quotaFaults < MaxQuotaFaults /\ quotaFaults' = quotaFaults + 1
To(c, step) == caller' = [caller EXCEPT ![c].step = step]

\* What history keeps of a counter that is gone or overwritten.
Forget(k) ==
  /\ forgotten' = IF k = Slot THEN Counted ELSE forgotten
  /\ stolen' = IF k = Slot THEN 0 ELSE stolen
  /\ passed' = IF k = Slot THEN passed ELSE [passed EXCEPT ![k] = 0]

-----------------------------------------------------------------------------
(* _increment: incr, or add and incr again, or set.                        *)

First == IF Windows = 0 THEN Slot ELSE 1
After(k) == IF k = Windows THEN Slot ELSE k + 1

\* A refused slot is given back by a step of its own.
Answer(c, count, seen) ==
  LET k == caller[c].key
      in == [seen EXCEPT ![k] = @ + 1]
  IN IF count > Cap(k)
       THEN /\ caller' = [caller EXCEPT ![c] = IF k = Slot THEN [@ EXCEPT !.step = "refused"] ELSE IdleCaller]
            /\ passed' = seen
       ELSE /\ caller' = [caller EXCEPT ![c] =
                 IF k = Slot THEN [@ EXCEPT !.step = "held"] ELSE [IdleCaller EXCEPT !.step = "incr", !.key = After(k)]]
            /\ passed' = IF k = Slot THEN seen ELSE in

\* cache.add keeps a counter that is there.
Added(k) == IF counter[k] = Absent THEN 0 ELSE counter[k]

\* Nobody tells two counts above a window's limit apart, so they stop there.
OneMore(k) == IF k # Slot /\ counter[k] > Limit THEN counter[k] ELSE counter[k] + 1

Reserve(c) ==
  /\ caller[c] = IdleCaller
  /\ ~cooling
  /\ caller' = [caller EXCEPT ![c] = [IdleCaller EXCEPT !.step = "incr", !.key = First]]
  /\ UNCHANGED <<counter, ttl, cooling, forgotten, stolen, passed, quotaFaults>>

Increment(c) ==
  LET k == caller[c].key
  IN /\ caller[c].step \in {"incr", "again"} /\ ~caller[c].late
     /\ IF counter[k] = Absent
          THEN /\ To(c, IF caller[c].step = "incr" THEN "add" ELSE "set")
               /\ UNCHANGED <<counter, passed>>
          ELSE /\ counter' = [counter EXCEPT ![k] = OneMore(k)]
               /\ Answer(c, counter[k] + 1, passed)
     /\ UNCHANGED <<ttl, cooling, forgotten, stolen, quotaFaults>>

Add(c) ==
  LET k == caller[c].key
  IN /\ caller[c].step = "add" /\ ~caller[c].late
     /\ counter' = [counter EXCEPT ![k] = Added(k)]
     /\ ttl' = IF k = Slot /\ counter[k] = Absent THEN SlotLife ELSE ttl
     /\ To(c, "again")
     /\ UNCHANGED <<cooling, forgotten, stolen, passed, quotaFaults>>

\* A counter somebody created in the meantime is overwritten.
SetOne(c) ==
  LET k == caller[c].key
  IN /\ caller[c].step = "set" /\ ~caller[c].late
     /\ counter' = [counter EXCEPT ![k] = 1]
     /\ ttl' = IF k = Slot THEN SlotLife ELSE ttl
     /\ IF k = Slot
          THEN forgotten' = Counted /\ stolen' = 0 /\ Answer(c, 1, passed)
          ELSE Answer(c, 1, [passed EXCEPT ![k] = 0]) /\ UNCHANGED <<forgotten, stolen>>
     /\ UNCHANGED <<cooling, quotaFaults>>

\* A caller that has named its bucket before the next one began counts there,
\* where nobody else looks.
CountLate(c) ==
  /\ caller[c].late
  /\ \E next \in {IdleCaller, [IdleCaller EXCEPT !.step = "incr", !.key = After(caller[c].key)]} :
       caller' = [caller EXCEPT ![c] = next]
  /\ UNCHANGED <<counter, ttl, cooling, forgotten, stolen, passed, quotaFaults>>

-----------------------------------------------------------------------------
(* Releasing, cooldown, time and the cache.                                *)

\* decr of a missing counter raises ValueError, which is ignored.
Release(c) ==
  /\ c \in Counted
  /\ counter' = [counter EXCEPT ![Slot] = IF @ = Absent THEN Absent ELSE @ - 1]
  /\ stolen' = IF c \in forgotten /\ counter[Slot] # Absent THEN stolen + 1 ELSE stolen
  /\ forgotten' = forgotten \ {c}
  /\ caller' = [caller EXCEPT ![c] = IdleCaller]
  /\ UNCHANGED <<ttl, cooling, passed, quotaFaults>>

\* The upstream answered 429 to a holder.
Cooldown(c) ==
  /\ c \in Holders /\ ~cooling
  /\ cooling' = TRUE
  /\ UNCHANGED <<counter, ttl, caller, forgotten, stolen, passed, quotaFaults>>

CooldownEnds ==
  /\ cooling /\ cooling' = FALSE
  /\ UNCHANGED <<counter, ttl, caller, forgotten, stolen, passed, quotaFaults>>

\* A caller that dies keeps its slot until the counter expires.
Die(c) ==
  /\ QuotaFault /\ caller[c] # IdleCaller
  /\ caller' = [caller EXCEPT ![c] = IdleCaller]
  /\ forgotten' = forgotten \ {c}
  /\ UNCHANGED <<counter, ttl, cooling, stolen, passed>>

NextBucket(k) ==
  /\ k # Slot /\ counter[k] # Absent
  /\ counter' = [counter EXCEPT ![k] = Absent]
  /\ passed' = [passed EXCEPT ![k] = 0]
  /\ caller' = [c \in Callers |->
       IF caller[c].key = k /\ caller[c].step \in {"add", "again", "set"}
         THEN [caller[c] EXCEPT !.late = TRUE] ELSE caller[c]]
  /\ UNCHANGED <<ttl, cooling, forgotten, stolen, quotaFaults>>

\* The timeout runs from the counter's creation, whoever holds slots by then.
SlotTick ==
  /\ counter[Slot] # Absent
  /\ ttl' = ttl - 1
  /\ IF ttl = 1 THEN counter' = [counter EXCEPT ![Slot] = Absent] /\ Forget(Slot)
                ELSE UNCHANGED <<counter, forgotten, stolen, passed>>
  /\ UNCHANGED <<cooling, caller, quotaFaults>>

EvictCounter(k) ==
  /\ QuotaFault /\ counter[k] # Absent
  /\ counter' = [counter EXCEPT ![k] = Absent]
  /\ ttl' = IF k = Slot THEN 0 ELSE ttl
  /\ Forget(k)
  /\ UNCHANGED <<cooling, caller>>

Call(c) == \/ Reserve(c) \/ Increment(c) \/ Add(c) \/ SetOne(c) \/ CountLate(c)
           \/ Release(c) \/ Cooldown(c) \/ Die(c)

QuotaNext == (\E c \in Callers : Call(c)) \/ (\E k \in CounterKeys : NextBucket(k) \/ EvictCounter(k))
        \/ CooldownEnds \/ SlotTick

QuotaSpec == QuotaInit /\ [][QuotaNext]_quotaVars

-----------------------------------------------------------------------------
(* Properties.                                                             *)

Steps == {"idle", "incr", "add", "again", "set", "held", "refused"}

QuotaTypeOK ==
  /\ counter \in [CounterKeys -> Int] /\ passed \in [CounterKeys -> Nat]
  /\ ttl \in 0..SlotLife /\ cooling \in BOOLEAN /\ stolen \in Nat
  /\ caller \in [Callers -> [step : Steps, key : CounterKeys, late : BOOLEAN]]
  /\ forgotten \subseteq Callers

\* A window never lets more calls of one bucket through than its limit while its
\* counter lives, however the incr, add and incr of several callers interleave;
\* no more than Concurrency of the reservations the living counter has counted
\* are held at once, but for one each time a reservation that outlived an older
\* counter is released into this one.
QuotaKept ==
  /\ \A k \in 1..Windows : passed[k] <= Limit
  /\ Cardinality(Holders \ forgotten) <= Concurrency + stolen
=============================================================================
