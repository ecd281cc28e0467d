---------------------------- MODULE StreamedDump ----------------------------
(***************************************************************************)
(* One database dump on its way to a file (backup.py 218-505): a child     *)
(* pg_dump and the code that copies its output through gzip, straight into *)
(* the file's final name, or, when the bundle is encrypted, in a second    *)
(* thread into a pipe to age, whose output is renamed once it is whole.    *)
(* Pipes are bounded, any side may fail, and each waits for another.       *)
(***************************************************************************)
EXTENDS Integers

CONSTANTS
  Blocks,         \* the dump's length
  Noise,          \* what pg_dump may write to stderr
  PipeSize,       \* what a pipe holds
  MaxDumpFaults   \* bound: failures of the child, of age, of the disk, of the process

ASSUME DumpAssumption ==
  /\ {Blocks, PipeSize} \subseteq Nat \ {0} /\ {Noise, MaxDumpFaults} \subseteq Nat

VARIABLES
  age,      \* config.age_recipients
  child,    \* pg_dump: what is left to write, whether it ended and how
  stdout, stderr, pipe,  \* what each pipe holds
  writing,  \* _ProducerThread, or the caller itself when age is off
  reading,  \* the caller: encrypt_stream, check, replace, and the owner of the directory
  tmp,      \* the temporary file of an encrypted dump
  out,      \* the file under its final name
  dumpFaults

dumpVars == <<age, child, stdout, stderr, pipe, writing, reading, tmp, out, dumpFaults>>

NoDump == -1
Sizes == 0..Blocks

DumpInit ==
  /\ age \in BOOLEAN
  /\ child = [left |-> Blocks, noise |-> Noise, running |-> TRUE, failed |-> FALSE]
  /\ stdout = 0 /\ stderr = 0 /\ pipe = 0
  /\ writing = [step |-> "copy", error |-> "none"]
  /\ reading = [step |-> IF age THEN "encrypt" ELSE "check", open |-> age]
  /\ tmp = IF age THEN 0 ELSE NoDump
  /\ out = IF age THEN NoDump ELSE 0
  /\ dumpFaults = 0

DumpFault == dumpFaults < MaxDumpFaults /\ dumpFaults' = dumpFaults + 1

-----------------------------------------------------------------------------
(* pg_dump.                                                                *)

CanWrite == child.running /\ child.left > 0 /\ stdout < PipeSize
ChildWrites ==
  /\ CanWrite
  /\ child' = [child EXCEPT !.left = @ - 1]
  /\ stdout' = stdout + 1
  /\ UNCHANGED <<age, stderr, pipe, writing, reading, tmp, out, dumpFaults>>

CanWarn == child.running /\ child.noise > 0 /\ stderr < PipeSize
ChildWarns ==
  /\ CanWarn
  /\ child' = [child EXCEPT !.noise = @ - 1]
  /\ stderr' = stderr + 1
  /\ UNCHANGED <<age, stdout, pipe, writing, reading, tmp, out, dumpFaults>>

\* A lost connection: the rest of the dump is never written.
ChildFails ==
  /\ DumpFault /\ child.running
  /\ child' = [child EXCEPT !.left = 0, !.failed = TRUE]
  /\ UNCHANGED <<age, stdout, stderr, pipe, writing, reading, tmp, out>>

CanExit == child.running /\ child.left = 0 /\ child.noise = 0
ChildExits ==
  /\ CanExit
  /\ child' = [child EXCEPT !.running = FALSE]
  /\ UNCHANGED <<age, stdout, stderr, pipe, writing, reading, tmp, out, dumpFaults>>

\* Its reader has gone away.
Unread == child.running /\ child.left > 0 /\ writing.step = "done"
ChildKilled ==
  /\ Unread
  /\ child' = [child EXCEPT !.running = FALSE, !.failed = TRUE]
  /\ UNCHANGED <<age, stdout, stderr, pipe, writing, reading, tmp, out, dumpFaults>>

-----------------------------------------------------------------------------
(* _copy_postgres_into: stdout to its end, then stderr, then the exit code. *)

CanCopy == writing.step = "copy" /\ stdout > 0 /\ (age => reading.open /\ pipe < PipeSize)
CopyBlock ==
  /\ CanCopy
  /\ stdout' = stdout - 1
  /\ IF age THEN pipe' = pipe + 1 /\ UNCHANGED out ELSE out' = out + 1 /\ UNCHANGED pipe
  /\ UNCHANGED <<age, child, stderr, writing, reading, tmp, dumpFaults>>

\* No pg_dump on the PATH, a full disk: an exception that is no BackupError.
CopyFails ==
  /\ DumpFault /\ writing.step = "copy"
  /\ writing' = [step |-> "done", error |-> "other"]
  /\ UNCHANGED <<age, child, stdout, stderr, pipe, reading, tmp, out>>

Refused == writing.step = "copy" /\ stdout > 0 /\ age /\ ~reading.open
BrokenPipe ==
  /\ Refused
  /\ writing' = [step |-> "done", error |-> "other"]
  /\ UNCHANGED <<age, child, stdout, stderr, pipe, reading, tmp, out, dumpFaults>>

Drained == writing.step = "copy" /\ stdout = 0 /\ ~child.running
CopyEnds ==
  /\ Drained
  /\ writing' = [writing EXCEPT !.step = "stderr"]
  /\ UNCHANGED <<age, child, stdout, stderr, pipe, reading, tmp, out, dumpFaults>>

\* BackupError when the exit code is not zero.
Outcome(c) == IF c.failed THEN "dump" ELSE "none"

Exited == writing.step = "stderr" /\ ~child.running
WaitChild ==
  /\ Exited
  /\ stderr' = 0
  /\ writing' = [step |-> "done", error |-> Outcome(child)]
  /\ UNCHANGED <<age, child, stdout, pipe, reading, tmp, out, dumpFaults>>

-----------------------------------------------------------------------------
(* create_encrypted_db_dump (create_db_dump joins at "check").             *)

CanEncrypt == reading.step = "encrypt" /\ pipe > 0
EncryptBlock ==
  /\ CanEncrypt
  /\ pipe' = pipe - 1
  /\ tmp' = tmp + 1
  /\ UNCHANGED <<age, child, stdout, stderr, writing, reading, out, dumpFaults>>

ClosedIfFine(w) == w.step = "done" /\ w.error = "none"   \* Mutant: no finally
\* The write end is closed in a finally, so a failed writer ends the stream too.
Closed(w) == w.step = "done"

AtEnd == reading.step = "encrypt" /\ pipe = 0 /\ Closed(writing)
EncryptEnds ==
  /\ AtEnd
  /\ reading' = [reading EXCEPT !.step = "check"]
  /\ UNCHANGED <<age, child, stdout, stderr, pipe, writing, tmp, out, dumpFaults>>

\* A bad recipient, a full disk, an age process that dies.
EncryptFails ==
  /\ DumpFault /\ reading.step = "encrypt"
  /\ reading' = [reading EXCEPT !.step = "cleanup"]
  /\ UNCHANGED <<age, child, stdout, stderr, pipe, writing, tmp, out>>

\* The thread's exception is raised again in the caller. The plain dump is where
\* it belongs already, and is removed for a BackupError only.
AfterCopy(error) ==
  CASE error = "none" -> IF age THEN "replace" ELSE "stored"
    [] error = "dump" \/ age -> "cleanup"
    [] OTHER -> "raised"

Joined == reading.step = "check" /\ writing.step = "done"
Check ==
  /\ Joined
  /\ reading' = [reading EXCEPT !.step = AfterCopy(writing.error)]
  /\ UNCHANGED <<age, child, stdout, stderr, pipe, writing, tmp, out, dumpFaults>>

\* The read end is closed before the join, so a blocked writer is released; a
\* writer that still waits for the child is left behind after five seconds.
Cleanup ==
  /\ reading.step = "cleanup"
  /\ IF age THEN tmp' = NoDump /\ UNCHANGED out ELSE out' = NoDump /\ UNCHANGED tmp
  /\ reading' = [step |-> "failed", open |-> FALSE]
  /\ UNCHANGED <<age, child, stdout, stderr, pipe, writing, dumpFaults>>

ReplaceDump ==
  /\ reading.step = "replace"
  /\ out' = tmp
  /\ tmp' = NoDump
  /\ reading' = [step |-> "stored", open |-> FALSE]
  /\ UNCHANGED <<age, child, stdout, stderr, pipe, writing, dumpFaults>>

\* run_backup and take_snapshot remove the directory of a dump that raised.
DiscardDump ==
  /\ reading.step = "raised"
  /\ out' = NoDump
  /\ reading' = [reading EXCEPT !.step = "failed"]
  /\ UNCHANGED <<age, child, stdout, stderr, pipe, writing, tmp, dumpFaults>>

Ended == reading.step \in {"stored", "failed", "dead"}

\* The process is killed: nothing is cleaned up.
DumpDies ==
  /\ DumpFault /\ ~Ended
  /\ writing' = [step |-> "done", error |-> "other"]
  /\ reading' = [step |-> "dead", open |-> FALSE]
  /\ UNCHANGED <<age, child, stdout, stderr, pipe, tmp, out>>

Work == \/ ChildWrites \/ ChildWarns \/ ChildExits \/ ChildKilled
        \/ CopyBlock \/ BrokenPipe \/ CopyEnds \/ WaitChild
        \/ EncryptBlock \/ EncryptEnds \/ Check \/ Cleanup \/ ReplaceDump \/ DiscardDump

DumpNext == Work \/ ChildFails \/ CopyFails \/ EncryptFails \/ DumpDies

DumpSpec == DumpInit /\ [][DumpNext]_dumpVars

-----------------------------------------------------------------------------
(* Properties.                                                             *)

DumpTypeOK ==
  /\ {stdout, stderr, pipe} \subseteq 0..PipeSize
  /\ {tmp, out} \subseteq Sizes \cup {NoDump}

\* What the caller gets, lists in the manifest and stores is the whole dump: the
\* end of a pipe looks the same whether the writer finished or died, and only the
\* exit code and the thread's exception tell the two apart. An encrypted dump is
\* never seen in part under its final name, not even after the process was killed;
\* a plain one is, until its directory is removed.
PublishedWhole ==
  /\ reading.step = "stored" => out = Blocks /\ ~child.failed
  /\ age /\ out # NoDump => out = Blocks /\ ~child.failed
  /\ reading.step = "failed" => tmp = NoDump /\ out = NoDump

\* The child waits for the copier, the copier for age, the caller for the
\* copier: somebody can always go on until the dump is stored or has failed.
\* Of Work, what each action asks is a definition of its own and the rest of it
\* assigns the variables. stderr is read only after stdout has ended, so Noise
\* must fit a pipe.
SomebodyCan ==
  \/ CanWrite \/ CanWarn \/ CanExit \/ Unread \/ CanCopy \/ Refused \/ Drained \/ Exited
  \/ CanEncrypt \/ AtEnd \/ Joined \/ reading.step \in {"cleanup", "replace", "raised"}
NeverStuck == Ended \/ SomebodyCan

\* A dump that is handed on is all of the dump of a child that succeeded, a failed
\* one leaves no file unless the process was killed, an encrypted one none in part,
\* and until then a thread or the child can go on.
DumpEndsWhole == PublishedWhole /\ NeverStuck
=============================================================================
