------------------------------- MODULE MCJobs -------------------------------
(***************************************************************************)
(* Small instances of the commands that work through a file or a table,    *)
(* and are run again when they stop short: an import and a retention       *)
(* purge.  An initial state picks the scene; the other component rests.    *)
(***************************************************************************)
EXTENDS MCImportJob, MCRetentionPurge

VARIABLE scene

jobsVars == <<scene, vars, purgeVars>>

Import == scene = "import" /\ Next /\ UNCHANGED <<scene, purgeVars>>
RetentionPass == scene = "purge" /\ PurgeNext /\ UNCHANGED <<scene, vars>>

NoImport == Init /\ pc[w1] = "claim" /\ job.conflict = "skip" /\ job.unique /\ others = {}
NoPurge == PurgeInit /\ layout = (CHOOSE l \in Layouts : TRUE) /\ \A p \in Pks : ~due[p]

JobsInit == \/ scene = "import" /\ Init /\ NoPurge
            \/ scene = "purge" /\ PurgeInit /\ NoImport
JobsNext == Import \/ RetentionPass

\* The fairness of each component, in its scene.
JobsFairness ==
  /\ \A w \in Runners : /\ WF_vars(scene = "import" /\ Run(w))
                        /\ WF_vars(scene = "import" /\ ResumeFind(w))
  /\ WF_purgeVars(scene = "purge" /\ Purge)

JobsSpec == JobsInit /\ [][JobsNext]_jobsVars /\ JobsFairness

-----------------------------------------------------------------------------
\* ImportJob: resumed whenever it stops short, an import gets through its file.
ImportCompletes == scene = "import" => Completes
=============================================================================
