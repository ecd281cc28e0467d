----------------------------- MODULE BackupRuns -----------------------------
(***************************************************************************)
(* Scheduled backups (backup.py): which destinations are due, one bundle   *)
(* stored part by part at each of them, retention after every part, and    *)
(* the state file that decides what is due next. Passes come from Celery   *)
(* beat, cron and operators, and nothing keeps two from overlapping.       *)
(***************************************************************************)
EXTENDS Integers, FiniteSets

CONSTANTS
  Dests,         \* destinations, in the order of _active_destinations
  Passes,        \* processes running run_backup
  Parts,         \* how many files a bundle has, the manifest the last of them
  Interval,      \* SNAPADMIN_BACKUP_*_EVERY_HOURS
  Grace,         \* DUE_GRACE_FRACTION of it
  KeepLast, KeepDaily, \* the retention policy; weeks and months work like days
  DayLength,     \* runs of one day have consecutive stamps
  Alignments,    \* values of align_to_schedule
  Disciplined,   \* with aligned slots: no forced run, no overlapping passes
  MaxTime, MaxBackups, MaxFailures  \* bounds

ASSUME BackupAssumption ==
  /\ Dests \subseteq Nat \ {0} /\ IsFiniteSet(Dests)
  /\ {Parts, Interval, DayLength} \subseteq Nat \ {0} /\ Grace \in 0..(Interval - 1)
  /\ {KeepLast, KeepDaily, MaxTime, MaxBackups, MaxFailures} \subseteq Nat
  /\ Alignments \subseteq BOOLEAN /\ Disciplined \in BOOLEAN

VARIABLES
  now,
  aligned,   \* align_to_schedule
  runs,      \* bundles begun; a run's stamp is its number
  entry,     \* the state file
  files,     \* the files at each destination, by name
  torn,      \* those whose upload broke off
  pass,      \* the local variables of run_backup
  done,      \* history: the bundles each destination reported stored, and when
  failures

backupVars == <<now, aligned, runs, entry, files, torn, pass, done, failures>>

Stamps == 1..MaxBackups
Times == 0..MaxTime
File(r, i) == [stamp |-> r, part |-> i]
NoEntry == [last |-> -1, planned |-> -1]
IdlePass == [step |-> "idle", stamp |-> 0, todo |-> {}, part |-> 0, state |-> [d \in Dests |-> NoEntry]]

BackupInit ==
  /\ now = 0
  /\ aligned \in Alignments
  /\ runs = 0
  /\ entry = [d \in Dests |-> NoEntry]
  /\ files = [d \in Dests |-> {}]
  /\ torn = [d \in Dests |-> {}]
  /\ pass = [p \in Passes |-> IdlePass]
  /\ done = [d \in Dests |-> {}]
  /\ failures = 0

Least(S) == CHOOSE x \in S : \A y \in S : x <= y
Dest(p) == Least(pass[p].todo)
Failure == failures < MaxFailures /\ failures' = failures + 1
Set(p, e) == pass' = [pass EXCEPT ![p] = e]

-----------------------------------------------------------------------------
(* When a destination is due.                                              *)

IsDue(e) == e.last = -1 \/ now - e.last >= Interval - Grace
IsDueAligned(e) == e.planned = -1 \/ now >= e.planned + Interval - Grace
Due(d) == IF aligned THEN IsDueAligned(entry[d]) ELSE IsDue(entry[d])

AdvanceSlot(planned) ==
  LET missed == (now + Grace - planned) \div Interval
  IN planned + Interval * (IF missed > 1 THEN missed ELSE 1)

\* The default mode writes one time, which _state_times reads as both.
NextEntry(e) ==
  [last |-> now, planned |-> IF aligned /\ e.planned # -1 THEN AdvanceSlot(e.planned) ELSE now]

-----------------------------------------------------------------------------
(* Retention: what a policy lets go of the files of one part.              *)

NewestStamps(S, n) == {x \in S : Cardinality({y \in S : y > x}) < n}
Day(s) == s \div DayLength
NewestOfDays(S) == {x \in S : \A y \in S : Day(y) = Day(x) => y <= x}
Kept(S) == NewestStamps(S, IF KeepLast > 1 THEN KeepLast ELSE 1) \cup NewestStamps(NewestOfDays(S), KeepDaily)

OfPart(names, i) == {f \in names : f.part = i}

\* Mutant: the files a shared name prefix matches, each counted as a backup.
StaleAcrossParts(names, i) ==
  LET newer(f) == {g \in names : g.stamp * Parts + g.part > f.stamp * Parts + f.part}
  IN {f \in names : Cardinality(newer(f)) >= KeepLast}

StaleFiles(names, i) ==
  LET own == OfPart(names, i)
      kept == Kept({f.stamp : f \in own})
  IN {f \in own : f.stamp \notin kept}

-----------------------------------------------------------------------------
(* run_backup, begun by run_due_backups, --force or --destination.         *)

Alone == \A q \in Passes : pass[q] = IdlePass

Begin(p, targets) ==
  /\ pass[p] = IdlePass /\ targets # {} /\ runs < MaxBackups
  /\ aligned /\ Disciplined => Alone
  /\ runs' = runs + 1
  /\ Set(p, [IdlePass EXCEPT !.step = "dump", !.stamp = runs + 1, !.todo = targets])
  /\ UNCHANGED <<now, aligned, entry, files, torn, done, failures>>

RunDue(p) == Begin(p, {d \in Dests : Due(d)})

Forced(p) ==
  /\ aligned => ~Disciplined
  /\ \E targets \in {Dests} \cup {{d} : d \in Dests} : Begin(p, targets)

\* The bundle is built in a staging directory, then the state file is read.
LoadState(p) ==
  /\ pass[p].step = "dump"
  /\ Set(p, [pass[p] EXCEPT !.step = "copy", !.part = 1, !.state = entry])
  /\ UNCHANGED <<now, aligned, runs, entry, files, torn, done, failures>>

DumpFails(p) ==
  /\ Failure /\ pass[p].step = "dump"
  /\ Set(p, IdlePass)
  /\ UNCHANGED <<now, aligned, runs, entry, files, torn, done>>

Copy(p) ==
  /\ pass[p].step = "copy"
  /\ files' = [files EXCEPT ![Dest(p)] = @ \cup {File(pass[p].stamp, pass[p].part)}]
  /\ Set(p, [pass[p] EXCEPT !.step = "prune"])
  /\ UNCHANGED <<now, aligned, runs, entry, torn, done, failures>>

\* Mutant: a destination that failed is recorded like one that is done.
LeaveRecorded(p, state) ==
  LET rest == pass[p].todo \ {Dest(p)}
  IN Set(p, [pass[p] EXCEPT !.step = IF rest = {} THEN "save" ELSE "copy", !.todo = rest,
                            !.part = 1, !.state = [state EXCEPT ![Dest(p)] = NextEntry(@)]])
\* On to the next destination, or to the state file after the last one.
Leave(p, state) ==
  LET rest == pass[p].todo \ {Dest(p)}
  IN Set(p, [pass[p] EXCEPT !.step = IF rest = {} THEN "save" ELSE "copy",
                            !.todo = rest, !.part = 1, !.state = state])

Prune(p) ==
  LET d == Dest(p)
      left == StaleFiles(files[d], pass[p].part)
  IN /\ pass[p].step = "prune"
     /\ files' = [files EXCEPT ![d] = @ \ left]
     /\ torn' = [torn EXCEPT ![d] = @ \ left]
     /\ IF pass[p].part < Parts
          THEN /\ Set(p, [pass[p] EXCEPT !.step = "copy", !.part = @ + 1])
               /\ UNCHANGED done
          ELSE /\ Leave(p, [pass[p].state EXCEPT ![d] = NextEntry(@)])
               /\ done' = [done EXCEPT ![d] = @ \cup {[stamp |-> pass[p].stamp, at |-> now]}]
     /\ UNCHANGED <<now, aligned, runs, entry, failures>>

\* An upload that breaks off leaves a file; a prune stops half-way. Either way
\* the destination has failed and keeps its old entry.
UploadFails(p) ==
  LET f == File(pass[p].stamp, pass[p].part)
  IN /\ Failure /\ pass[p].step = "copy"
     /\ \E landed \in {{}, {f}} :
          /\ files' = [files EXCEPT ![Dest(p)] = @ \cup landed]
          /\ torn' = [torn EXCEPT ![Dest(p)] = @ \cup landed]
     /\ Leave(p, pass[p].state)
     /\ UNCHANGED <<now, aligned, runs, entry, done>>

PruneFails(p) ==
  LET d == Dest(p)
  IN /\ Failure /\ pass[p].step = "prune"
     /\ \E gone \in SUBSET StaleFiles(files[d], pass[p].part) :
          /\ files' = [files EXCEPT ![d] = @ \ gone]
          /\ torn' = [torn EXCEPT ![d] = @ \ gone]
     /\ Leave(p, pass[p].state)
     /\ UNCHANGED <<now, aligned, runs, entry, done>>

\* write_text truncates the file and then writes it; a reader of the empty file
\* takes every destination for never run.
TruncateState(p) ==
  /\ pass[p].step = "save"
  /\ entry' = [d \in Dests |-> NoEntry]
  /\ Set(p, [pass[p] EXCEPT !.step = "write"])
  /\ UNCHANGED <<now, aligned, runs, files, torn, done, failures>>

WriteState(p) ==
  /\ pass[p].step = "write"
  /\ entry' = pass[p].state
  /\ Set(p, IdlePass)
  /\ UNCHANGED <<now, aligned, runs, files, torn, done, failures>>

\* The process dies, or the state file cannot be written.
Die(p) ==
  /\ Failure /\ pass[p] # IdlePass
  /\ Set(p, IdlePass)
  /\ UNCHANGED <<now, aligned, runs, entry, files, torn, done>>

Tick == /\ now < MaxTime /\ now' = now + 1
        /\ UNCHANGED <<aligned, runs, entry, files, torn, pass, done, failures>>

Run(p) == \/ RunDue(p) \/ Forced(p) \/ LoadState(p) \/ DumpFails(p) \/ Copy(p) \/ Prune(p)
          \/ UploadFails(p) \/ PruneFails(p) \/ TruncateState(p) \/ WriteState(p) \/ Die(p)

BackupNext == (\E p \in Passes : Run(p)) \/ Tick

BackupSpec == BackupInit /\ [][BackupNext]_backupVars

-----------------------------------------------------------------------------
(* Properties.                                                             *)

BackupTypeOK ==
  /\ now \in Times /\ aligned \in BOOLEAN /\ runs \in 0..MaxBackups
  /\ \A d \in Dests : torn[d] \subseteq files[d] /\ files[d] \subseteq [stamp : Stamps, part : 1..Parts]
  /\ \A p \in Passes : pass[p].todo \subseteq Dests /\ pass[p].part \in 0..Parts

\* No window is skipped: a destination the schedule calls not due has really
\* stored a bundle less than one interval ago, whatever passes overlapped on the
\* state file, failed, died or lost each other's entries.
NotDueMeansFresh ==
  \A d \in Dests : Due(d) \/ \E b \in done[d] : now - b.at < Interval

\* What a destination reported stored stays restorable: every part of it is
\* there, unbroken, until KeepLast later runs have reached that destination,
\* although retention runs part by part and in the middle of other passes.
Later(d, r) == {f.stamp : f \in {g \in files[d] : g.stamp > r}}
Whole(d, r) == \A i \in 1..Parts : File(r, i) \in files[d] \ torn[d]
StoredStaysWhole ==
  \A d \in Dests : \A b \in done[d] :
    Whole(d, b.stamp) \/ Cardinality(Later(d, b.stamp)) >= KeepLast
=============================================================================
