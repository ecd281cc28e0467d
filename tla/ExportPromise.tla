---------------------------- MODULE ExportPromise ----------------------------
(***************************************************************************)
(* What snapadmin/exporting.py promises about a resumable export, without  *)
(* workers, files or retries: a durable set of exported rows that only     *)
(* grows, in primary-key order, past every row that stays in the table, and *)
(* a job that completes only when no such row is left.                     *)
(***************************************************************************)
EXTENDS Integers, TLAPS

CONSTANTS
  Pks,    \* primary keys the exported table may hold
  Fixed   \* the rows nobody inserts or deletes during the export

VARIABLES
  phase,  \* "open", "cancelled" or "completed"
  upto,   \* every undisturbed row up to this key is exported
  rows    \* the exported rows that survive any crash

pvars == <<phase, upto, rows>>

Init == phase = "open" /\ upto = 0 /\ rows = {}

\* A chunk becomes durable, also one in flight when the cancel arrived.
Extend ==
  /\ phase # "completed"
  /\ \E c \in Pks : \E S \in SUBSET {p \in Pks : upto < p /\ p <= c} :
       /\ c > upto
       /\ c \in S /\ \A p \in Fixed : upto < p /\ p <= c => p \in S
       /\ rows' = rows \cup S /\ upto' = c
  /\ UNCHANGED phase

Complete ==
  /\ \A p \in Fixed : p <= upto
  /\ phase' = "completed"
  /\ UNCHANGED <<upto, rows>>

Cancel ==
  /\ phase' = "cancelled"
  /\ UNCHANGED <<upto, rows>>

\* A worker that outlived the cancel records its failure: retryable again.
Reopen ==
  /\ phase = "cancelled"
  /\ phase' = "open"
  /\ UNCHANGED <<upto, rows>>

Next == Extend \/ Complete \/ Cancel \/ Reopen

Spec == Init /\ [][Next]_pvars

-----------------------------------------------------------------------------
\* What a reader of the downloaded file relies on (exporting.py:25): no row that
\* was there all along is missing from a completed export.
NothingMissing == phase = "completed" => Fixed \subseteq rows

\* The cursor is honest: the rows up to it are exported, and nothing beyond it.
CursorHonest ==
  /\ \A p \in Fixed : p <= upto => p \in rows
  /\ rows \subseteq {p \in Pks : p <= upto}

PromiseInv ==
  /\ upto \in Pks \cup {0} /\ CursorHonest
  /\ phase = "completed" => \A p \in Fixed : p <= upto

\* A cursor that never skips an undisturbed row is all a complete file needs.
THEOREM NothingMissingHolds ==
  ASSUME Pks \subseteq Nat \ {0}, Fixed \subseteq Pks
  PROVE  Spec => []NothingMissing
<1>1. Init => PromiseInv
  BY DEF Init, PromiseInv, CursorHonest
<1>2. PromiseInv /\ [Next]_pvars => PromiseInv'
  <2> SUFFICES ASSUME PromiseInv, [Next]_pvars PROVE PromiseInv'
    OBVIOUS
  <2> USE DEF PromiseInv, CursorHonest
  <2>1. CASE Extend
    <3>1. PICK c \in Pks : \E S \in SUBSET {p \in Pks : upto < p /\ p <= c} :
            /\ c > upto /\ c \in S /\ \A p \in Fixed : upto < p /\ p <= c => p \in S
            /\ rows' = rows \cup S /\ upto' = c
      BY <2>1 DEF Extend
    <3>s. PICK S \in SUBSET {p \in Pks : upto < p /\ p <= c} :
            /\ c > upto /\ \A p \in Fixed : upto < p /\ p <= c => p \in S
            /\ rows' = rows \cup S /\ upto' = c
      BY <3>1
    <3>2. phase' = phase /\ phase # "completed"
      BY <2>1 DEF Extend
    <3>3. \A p \in Fixed : p <= c => p \in rows \cup S
      <4> SUFFICES ASSUME NEW p \in Fixed, p <= c, ~(p <= upto) PROVE p \in S
        OBVIOUS
      <4>1. p \in Int /\ upto \in Int
        OBVIOUS
      <4> QED BY <3>s, <4>1
    <3>4. rows \cup S \subseteq {p \in Pks : p <= c}
      <4>1. \A p \in Pks : p <= upto => p <= c
        BY <3>s
      <4> QED BY <3>s, <4>1
    <3> QED BY <3>s, <3>2, <3>3, <3>4
  <2>2. CASE Complete \/ Cancel \/ Reopen \/ UNCHANGED pvars
    BY <2>2 DEF Complete, Cancel, Reopen, pvars
  <2> QED BY <2>1, <2>2 DEF Next
<1>3. PromiseInv => NothingMissing
  BY DEF PromiseInv, CursorHonest, NothingMissing
<1> QED BY <1>1, <1>2, <1>3, PTL DEF Spec
=============================================================================
