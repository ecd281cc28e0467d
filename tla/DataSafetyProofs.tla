--------------------------- MODULE DataSafetyProofs ---------------------------
(***************************************************************************)
(* Theorems about the operations that replace or delete stored data, each  *)
(* with the inductive invariant it needs: restores and rollbacks, and the  *)
(* requests of a data subject.                                             *)
(***************************************************************************)
EXTENDS RestoreRuns, SubjectRequest, FiniteSetTheorems, TLAPS

-----------------------------------------------------------------------------
(* RestoreRuns, for any number of bundles, selections, edits, runs, faults *)
(* and kept snapshots: a restore applies one bundle or none of it, and     *)
(* what it replaced stays restorable until Keep later snapshot directories *)
(* exist.                                                                  *)


Sources == [db : Values \cup {Broken}, media : SUBSET (Values \cup {Broken}),
            env : Values \cup {Broken, Missing}]
Ops == [step : {"idle", "fetch", "snapshot", "apply", "record"},
        kind : {"none", "restore", "drill", "rollback"}, bundle : 0..MaxValues,
        parts : SUBSET RestoreParts, fetched : SUBSET RestoreParts,
        source : Sources, before : Live, snap : Nat, errors : BOOLEAN]
Snapshots == [id : Nat, content : Live, parts : SUBSET RestoreParts, complete : BOOLEAN]
Restores == [id : Nat, before : Live, parts : SUBSET RestoreParts]

TypeInv ==
  /\ TypeOK
  /\ op \in Ops /\ snaps \subseteq Snapshots /\ IsFiniteSet(snaps) /\ applied \subseteq Restores

\* Where a command is, and what it may still begin.
Place ==
  /\ op.step = "idle" <=> op.kind = "none"
  /\ op.step \in {"fetch", "snapshot"} => op.kind # "rollback"
  /\ op.step = "snapshot" => op.kind = "restore"
  /\ op.step = "record" => op.parts = {}
  /\ op.kind \in {"restore", "drill"} => op.bundle \in Bundles
  /\ taken <= MaxRuns
  /\ op.step \in {"fetch", "snapshot"} => taken < MaxRuns
  /\ op.errors => engine = "postgresql" /\ "db" \notin op.parts

\* What was fetched is the bundle's or broken; what is applied is the bundle's.
Sourced ==
  /\ op.kind \in {"restore", "drill"} =>
       \A p \in RestoreParts : op.source[p] \in {Content(p, op.bundle), Content(p, Broken)}
  /\ op.kind \in {"restore", "drill"} /\ op.step \in {"snapshot", "apply"} =>
       \A p \in op.parts : Matches(p)
  /\ op.kind = "rollback" => op.source \in Live

Untouched == op.step \in {"fetch", "snapshot"} \/ op.kind = "drill" => live = op.before

\* A drill is of the database, and has ended well when that is loaded.
Drilled == op.kind = "drill" => IF op.step = "record" THEN Loaded(drill) ELSE op.parts = {"db"}

\* A restore in progress: the parts it is past hold the bundle, the others what
\* they held, and its snapshot is the record of both.
After(p) == CASE p = "media" -> op.before.media \cup {op.bundle}
              [] p = "db" /\ op.errors -> Broken
              [] OTHER -> op.bundle
Applying(a) ==
  /\ a.id = op.snap /\ a.before = op.before /\ op.parts \subseteq a.parts
  /\ \A p \in RestoreParts : live[p] = IF p \in a.parts \ op.parts THEN After(p) ELSE op.before[p]
InApplication ==
  op.kind = "restore" /\ op.step \in {"apply", "record"} => \E a \in applied : Applying(a)

Stamped ==
  /\ \A s \in snaps : s.id <= taken
  /\ \A a \in applied : a.id <= taken
  /\ \A a, b \in applied : a.id = b.id => a = b

IInv == TypeInv /\ Place /\ Sourced /\ Untouched /\ Drilled /\ InApplication /\ Stamped /\ Undoable

-----------------------------------------------------------------------------
(* The constants, parts and values.                                        *)

LEMMA Assumed ==
  /\ Keep \in Nat /\ MaxValues \in Nat /\ MaxRuns \in Nat /\ MaxFaults \in Nat
  /\ Bundles \subseteq 1..MaxValues /\ IsFiniteSet(Bundles) /\ Cardinality(Bundles) \in 0..MaxValues
  <1>1. IsFiniteSet(1..MaxValues) /\ Cardinality(1..MaxValues) = MaxValues
    BY RestoreAssumption, FS_Interval
  <1>2. IsFiniteSet(Bundles) /\ Cardinality(Bundles) <= MaxValues /\ Cardinality(Bundles) \in Nat
    <2>1. Bundles \in SUBSET (1..MaxValues)
      BY RestoreAssumption
    <2> QED BY <1>1, <2>1, FS_Subset, FS_CardinalityType
  <1> QED BY <1>2, RestoreAssumption

LEMMA Contents ==
  /\ \A v \in Values : Holding(v) \in Live /\ Holding(v) \in Sources
  /\ \A v \in Values, p \in RestoreParts : Holding(v)[p] = Content(p, v)
  /\ Live \subseteq Sources
  BY DEF Values, Holding, Content, Live, Sources, RestoreParts

LEMMA IdleType == Idle \in Ops /\ Idle.step = "idle" /\ Idle.kind = "none" /\ Idle.parts = {} /\ ~Idle.errors
  <1>1. 0 \in Values
    BY Assumed DEF Values
  <1> QED BY <1>1, Contents DEF Idle, Ops, Values

LEMMA InitInv == Init => IInv
  <1> SUFFICES ASSUME Init PROVE IInv
    OBVIOUS
  <1>1. Holding(0) \in Live /\ [Holding(0) EXCEPT !.env = Missing] \in Live
    BY Contents, Assumed DEF Values, Live
  <1>2. TypeInv
    BY <1>1, IdleType, Assumed, FS_EmptySet DEF Init, TypeInv, TypeOK, Values, Idle
  <1>3. Place /\ Sourced /\ Untouched /\ Drilled /\ InApplication
    BY IdleType, Assumed DEF Init, Place, Sourced, Untouched, Drilled, InApplication, Idle
  <1>4. Stamped /\ Undoable
    BY DEF Init, Stamped, Undoable
  <1> QED BY <1>2, <1>3, <1>4 DEF IInv

-----------------------------------------------------------------------------
(* Pruning keeps the newest snapshots.                                     *)

Newer(S, x) == {s \in S : s.id > x}

\* Of the snapshots in a set, some is not older than any other.
LEMMA Latest ==
  ASSUME NEW S, IsFiniteSet(S), S \subseteq Snapshots, NEW D \in SUBSET S, D # {}
  PROVE  \E m \in D : \A d \in D : ~(d.id > m.id)
  <1> DEFINE R == StrictSubsetOrdering(S)
             T == {Newer(S, d.id) : d \in D}
  <1>1. IsWellFoundedOn(R, FiniteSubsetsOf(S))
    BY FS_StrictSubsetOrderingWellFounded
  <1>2. T \subseteq SUBSET S /\ T # {} /\ FiniteSubsetsOf(S) = SUBSET S
    <2>1. FiniteSubsetsOf(S) = SUBSET S
      BY FS_FiniteSubsetsOfFinite
    <2>2. T \subseteq SUBSET S
      BY DEF Newer
    <2>3. T # {}
      OBVIOUS
    <2> QED BY <2>1, <2>2, <2>3
  <1>3. PICK N \in T : \A M \in T : <<M, N>> \notin R
    <2>1. IsWellFoundedOn(R, SUBSET S)
      BY <1>1, <1>2
    <2> HIDE DEF R, T
    <2> QED BY <1>2, <2>1, WFMin
  <1>4. PICK m \in D : N = Newer(S, m.id)
    BY <1>3
  <1>5. ASSUME NEW d \in D, d.id > m.id PROVE FALSE
    <2>1. d.id \in Nat /\ m.id \in Nat /\ \A s \in S : s.id \in Nat
      BY DEF Snapshots
    <2>2. Newer(S, d.id) \subseteq Newer(S, m.id) /\ d \in Newer(S, m.id) /\ d \notin Newer(S, d.id)
      BY <1>5, <2>1 DEF Newer
    <2>3. <<Newer(S, d.id), N>> \in R
      <3>1. \A A, B \in SUBSET S : A \subseteq B /\ A # B => <<A, B>> \in R
        BY DEF StrictSubsetOrdering
      <3>2. Newer(S, d.id) \in SUBSET S /\ N \in SUBSET S
        BY <1>2
      <3>3. Newer(S, d.id) \subseteq N /\ Newer(S, d.id) # N
        BY <1>4, <2>2
      <3> QED BY <3>1, <3>2, <3>3
    <2> QED BY <1>3, <2>3
  <1> QED BY <1>5

LEMMA Counting ==
  ASSUME NEW S, IsFiniteSet(S), NEW x
  PROVE  /\ IsFiniteSet(Newer(S, x)) /\ Cardinality(Newer(S, x)) \in Nat
         /\ \A T \in SUBSET S : IsFiniteSet(T) /\ Cardinality(T) \in Nat
         /\ \A T \in SUBSET Newer(S, x) : Cardinality(T) <= Cardinality(Newer(S, x))
  BY FS_Subset, FS_CardinalityType DEF Newer

\* If Keep snapshots are newer than x, so are Keep of those that are kept.
LEMMA PrunedKeepsNewest ==
  ASSUME NEW S, IsFiniteSet(S), S \subseteq Snapshots, NEW x \in Nat,
         Keep # 0, Cardinality(Newer(S, x)) >= Keep
  PROVE  Cardinality(Newer(Pruned(S), x)) >= Keep
  <1> DEFINE P == Pruned(S)
             D == Newer(S, x) \ Newer(P, x)
  <1>1. P \subseteq S /\ \A s \in S : s \in P <=> Cardinality(Newer(S, s.id)) < Keep
    BY Assumed DEF Pruned, Newest, Newer
  <1>2. Newer(P, x) \in SUBSET S /\ Cardinality(Newer(P, x)) \in Nat
    BY <1>1, Counting DEF Newer
  <1>3. CASE D = {}
    <2>1. Newer(P, x) = Newer(S, x)
      BY <1>1, <1>3 DEF Newer
    <2> QED BY <2>1
  <1>4. CASE D # {}
    <2>1. PICK m \in D : \A d \in D : ~(d.id > m.id)
      BY <1>4, Latest DEF Newer
    <2>2. m \in S /\ m.id \in Nat /\ m.id > x /\ m \notin P /\ \A s \in S : s.id \in Nat
      BY DEF Newer, Snapshots
    <2>3. Newer(S, m.id) \subseteq Newer(P, x)
      BY <2>1, <2>2 DEF Newer
    <2>4. Cardinality(Newer(S, m.id)) <= Cardinality(Newer(P, x)) /\ Cardinality(Newer(S, m.id)) \in Nat
      <3>1. IsFiniteSet(Newer(P, x))
        BY <1>2, FS_Subset
      <3> QED BY <2>3, <3>1, FS_Subset, FS_CardinalityType
    <2> QED BY <1>1, <1>2, <2>2, <2>4, Assumed
  <1> QED BY <1>3, <1>4

\* A snapshot goes only when Keep newer ones stay.
LEMMA PrunedOnlyOld ==
  ASSUME NEW S, IsFiniteSet(S), S \subseteq Snapshots, NEW s \in S
  PROVE  \/ s \in Pruned(S)
         \/ Keep # 0 /\ Cardinality(Newer(Pruned(S), s.id)) >= Keep
  <1>1. s.id \in Nat /\ Cardinality(Newer(S, s.id)) \in Nat
    BY Counting DEF Snapshots
  <1>2. CASE Keep = 0 \/ Cardinality(Newer(S, s.id)) < Keep
    BY <1>2 DEF Pruned, Newest, Newer
  <1>3. CASE Keep # 0 /\ Cardinality(Newer(S, s.id)) >= Keep
    BY <1>1, <1>3, PrunedKeepsNewest
  <1> QED BY <1>1, <1>2, <1>3, Assumed
-----------------------------------------------------------------------------
(* Each step keeps the invariant.                                          *)

\* No command is in progress: nothing is claimed of it.
LEMMA BackToIdle ==
  ASSUME op' = Idle, taken' <= MaxRuns
  PROVE  Place' /\ Sourced' /\ Untouched' /\ Drilled' /\ InApplication' /\ op' \in Ops
  <1>1. op'.step = "idle" /\ op'.kind = "none" /\ op' \in Ops /\ ~op'.errors
    BY IdleType
  <1> QED BY <1>1 DEF Place, Sourced, Untouched, Drilled, InApplication

\* The records of snapshots and restores stay as they are.
LEMMA SameRecords ==
  ASSUME Stamped, Undoable, UNCHANGED <<snaps, applied, taken>>
  PROVE  Stamped' /\ Undoable'
  BY DEF Stamped, Undoable

LEMMA ByStartRestore ==
  ASSUME IInv, NEW b \in Bundles, NEW sel \in Selections, NEW k \in {"restore", "drill"},
         StartRestore(b, sel, k)
  PROVE  IInv'
  <1>1. /\ op' = [Idle EXCEPT !.step = "fetch", !.kind = k, !.bundle = b, !.parts = sel,
                              !.source = Holding(b), !.before = live]
        /\ taken < MaxRuns /\ UNCHANGED <<live, drill, encrypted, engine, snaps, values, taken, applied>>
    BY DEF StartRestore, Begins, env
  <1>2. b \in 0..MaxValues /\ b \in Values /\ sel \subseteq RestoreParts /\ live \in Live
    BY RestoreAssumption, Assumed DEF IInv, TypeInv, TypeOK, Values
  <1>3. Holding(b) \in Sources /\ \A p \in RestoreParts : Holding(b)[p] = Content(p, b)
    BY <1>2, Contents
  <1>4. /\ op' \in Ops /\ op'.step = "fetch" /\ op'.kind = k /\ op'.bundle = b /\ op'.before = live
        /\ op'.source = Holding(b) /\ op'.parts = sel /\ op'.fetched = {} /\ ~op'.errors
    BY <1>1, <1>2, <1>3, IdleType DEF Ops, Idle
  <1>5. TypeInv'
    BY <1>1, <1>2, <1>4 DEF IInv, TypeInv, TypeOK
  <1>8. k = "drill" => sel = {"db"}
    BY DEF StartRestore
  <1>6. Place' /\ Untouched' /\ Drilled' /\ InApplication'
    BY <1>1, <1>4, <1>8 DEF IInv, Place, Untouched, Drilled, InApplication
  <1>7. Sourced'
    BY <1>3, <1>4 DEF Sourced
  <1> QED BY <1>1, <1>5, <1>6, <1>7, SameRecords DEF IInv

LEMMA ByFetch ==
  ASSUME IInv, NEW p \in RestoreParts, Fetch(p)
  PROVE  IInv'
  <1> DEFINE got == IF parts[op.bundle][p] = "whole" THEN op.source[p] ELSE Content(p, Broken)
  <1>1. /\ op.step = "fetch" /\ UNCHANGED <<live, drill, encrypted, engine, snaps, values, taken, applied>>
        /\ op' = Idle \/ op' = [op EXCEPT !.fetched = @ \cup {p}, !.source[p] = got]
    BY DEF Fetch, env
  <1>t. op \in Ops /\ taken <= MaxRuns /\ op.kind \in {"restore", "drill"}
    BY <1>1 DEF IInv, TypeInv, Place, Ops
  <1>2. CASE op' = Idle
    BY <1>1, <1>2, <1>t, BackToIdle, SameRecords, IdleType DEF IInv, TypeInv, TypeOK, Ops
  <1>3. CASE op' = [op EXCEPT !.fetched = @ \cup {p}, !.source[p] = got]
    <2>1. op.source \in Sources /\ op.source[p] \in {Content(p, op.bundle), Content(p, Broken)}
      BY <1>t DEF IInv, Sourced, Ops
    <2>2. got \in {Content(p, op.bundle), Content(p, Broken)}
      BY <2>1
    <2>3. op.bundle \in Values
      BY <1>t DEF Ops, Values
    <2> HIDE DEF got
    <2>4. [op.source EXCEPT ![p] = got] \in Sources
      BY <2>1, <2>2, <2>3 DEF Content, Sources, RestoreParts
    <2>5. /\ op' \in Ops /\ op'.source = [op.source EXCEPT ![p] = got]
          /\ op'.step = op.step /\ op'.kind = op.kind /\ op'.bundle = op.bundle /\ op'.parts = op.parts
          /\ op'.before = op.before /\ op'.errors = op.errors
      BY <1>3, <1>t, <2>4 DEF Ops
    <2>6. \A q \in RestoreParts : op'.source[q] \in {Content(q, op'.bundle), Content(q, Broken)}
      BY <1>t, <2>1, <2>2, <2>5 DEF IInv, Sourced, Sources, RestoreParts
    <2>7. Sourced'
      BY <1>1, <1>t, <2>5, <2>6 DEF Sourced
    <2>8. TypeInv'
      BY <1>1, <2>5 DEF IInv, TypeInv, TypeOK, Ops
    <2>9. Place' /\ Untouched' /\ Drilled' /\ InApplication'
      BY <1>1, <1>t, <2>5 DEF IInv, Place, Untouched, Drilled, InApplication
    <2> QED BY <1>1, <2>7, <2>8, <2>9, SameRecords DEF IInv
  <1> QED BY <1>1, <1>2, <1>3

LEMMA ByVerify == ASSUME IInv, Verify PROVE IInv'
  <1>1. /\ op.step = "fetch" /\ UNCHANGED <<live, drill, encrypted, engine, snaps, values, taken, applied>>
        /\ \/ op' = Idle
           \/ /\ \A p \in op.parts : Matches(p)
              /\ op' = [op EXCEPT !.step = IF op.kind = "restore" THEN "snapshot" ELSE "apply"]
    BY DEF Verify, env
  <1>t. op \in Ops /\ taken < MaxRuns /\ op.kind \in {"restore", "drill"}
    BY <1>1 DEF IInv, TypeInv, Place, Ops
  <1>2. CASE op' = Idle
    BY <1>1, <1>2, <1>t, BackToIdle, SameRecords, IdleType, Assumed DEF IInv, TypeInv, TypeOK, Ops
  <1>3. CASE /\ \A p \in op.parts : Matches(p)
             /\ op' = [op EXCEPT !.step = IF op.kind = "restore" THEN "snapshot" ELSE "apply"]
    <2>1. /\ op' \in Ops /\ op'.source = op.source /\ op'.kind = op.kind /\ op'.bundle = op.bundle
          /\ op'.parts = op.parts /\ op'.before = op.before /\ op'.errors = op.errors
          /\ op'.step = IF op.kind = "restore" THEN "snapshot" ELSE "apply"
      BY <1>3, <1>t DEF Ops
    <2>2. TypeInv'
      BY <1>1, <2>1 DEF IInv, TypeInv, TypeOK, Ops
    <2>3. Place' /\ Untouched' /\ Drilled' /\ InApplication'
      BY <1>1, <1>t, <2>1 DEF IInv, Place, Untouched, Drilled, InApplication
    <2>4. Sourced'
      BY <1>1, <1>3, <1>t, <2>1 DEF IInv, Sourced, Matches
    <2> QED BY <1>1, <2>2, <2>3, <2>4, SameRecords DEF IInv
  <1> QED BY <1>1, <1>2, <1>3

LEMMA ByTakeSnapshot == ASSUME IInv, TakeSnapshot PROVE IInv'
  <1> DEFINE new == [id |-> taken + 1, content |-> live, parts |-> op.parts, complete |-> TRUE]
             rec == [id |-> taken + 1, before |-> op.before, parts |-> op.parts]
             S == snaps \cup {new}
  <1>1. /\ op.step = "snapshot" /\ taken' = taken + 1 /\ snaps' = Pruned(S) /\ applied' = applied \cup {rec}
        /\ op' = [op EXCEPT !.step = "apply", !.snap = taken + 1]
        /\ UNCHANGED <<live, drill, encrypted, engine, values>>
    BY DEF TakeSnapshot, env
  <1>t. /\ op \in Ops /\ op.kind = "restore" /\ live \in Live /\ live = op.before /\ taken \in Nat
        /\ taken < MaxRuns /\ snaps \subseteq Snapshots /\ IsFiniteSet(snaps) /\ applied \subseteq Restores
    BY <1>1, Assumed DEF IInv, TypeInv, TypeOK, Place, Untouched
  <1>2. /\ new \in Snapshots /\ new.id = taken + 1 /\ new.complete /\ new.content = live /\ new.parts = op.parts
        /\ rec \in Restores /\ rec.id = taken + 1 /\ rec.before = live /\ rec.parts = op.parts
    BY <1>t DEF Snapshots, Restores, Ops
  <1>3. /\ op' \in Ops /\ op'.source = op.source /\ op'.kind = op.kind /\ op'.bundle = op.bundle
        /\ op'.parts = op.parts /\ op'.before = op.before /\ op'.step = "apply" /\ op'.snap = taken + 1
    <2>1. op' = [op EXCEPT !.step = "apply", !.snap = taken + 1]
      BY <1>1
    <2>2. op \in Ops /\ taken + 1 \in Nat
      BY <1>t
    <2> QED BY <2>1, <2>2 DEF Ops
  <1> HIDE DEF new, rec
  <1>4. S \subseteq Snapshots /\ IsFiniteSet(S)
    BY <1>2, <1>t, FS_AddElement
  <1> HIDE DEF S
  <1>5. Pruned(S) \subseteq S /\ IsFiniteSet(Pruned(S))
    <2>1. Pruned(S) \in SUBSET S
      BY DEF Pruned, Newest
    <2> QED BY <1>4, <2>1, FS_Subset
  <1>6. TypeInv'
    BY <1>1, <1>2, <1>3, <1>4, <1>5, <1>t, Assumed DEF IInv, TypeInv, TypeOK, Ops
  <1>7. Place' /\ Untouched' /\ Drilled'
    BY <1>1, <1>3, <1>t, Assumed DEF IInv, Place, Untouched, Drilled
  <1>8. Sourced'
    BY <1>1, <1>3, <1>t DEF IInv, Sourced, Matches
  <1>9. InApplication'
    <2>1. PICK a \in applied' : a = rec
      BY <1>1
    <2>2. a.id = op'.snap /\ a.before = op'.before /\ a.parts = op'.parts
      BY <1>2, <1>3, <1>t, <2>1
    <2>3. \A p \in RestoreParts : live'[p] = op'.before[p]
      BY <1>1, <1>3, <1>t
    <2>4. Applying(a)'
      BY <2>2, <2>3 DEF Applying
    <2> QED BY <2>4 DEF InApplication
  <1>10. Stamped'
    <2>1. \A s \in S : s.id <= taken + 1
      BY <1>2, <1>t DEF S, IInv, Stamped, Snapshots
    <2>2. \A a \in applied : a.id \in Nat /\ a.id <= taken
      BY <1>t DEF IInv, Stamped, Restores
    <2>3. \A a \in applied' : a.id <= taken'
      BY <1>1, <1>2, <1>t, <2>2
    <2>4. \A a, b \in applied' : a.id = b.id => a = b
      BY <1>1, <1>2, <1>t, <2>2 DEF IInv, Stamped
    <2>5. \A s \in snaps' : s.id <= taken'
      BY <1>1, <1>5, <2>1
    <2> QED BY <2>3, <2>4, <2>5 DEF Stamped
  <1>11. Undoable'
    <2>1. SUFFICES ASSUME NEW a \in applied'
                   PROVE  \/ \E s \in snaps' : /\ s.id = a.id /\ s.complete /\ a.parts \subseteq s.parts
                                               /\ s.content = a.before
                          \/ Keep # 0 /\ Cardinality({s \in snaps' : s.id > a.id}) >= Keep
      BY DEF Undoable
    <2>2. ASSUME NEW s \in S, s.id = a.id, s.complete, a.parts \subseteq s.parts, s.content = a.before
          PROVE  \/ \E t \in snaps' : /\ t.id = a.id /\ t.complete /\ a.parts \subseteq t.parts
                                      /\ t.content = a.before
                 \/ Keep # 0 /\ Cardinality({t \in snaps' : t.id > a.id}) >= Keep
      <3>1. CASE s \in Pruned(S)
        BY <1>1, <2>2, <3>1
      <3>2. CASE Keep # 0 /\ Cardinality(Newer(Pruned(S), s.id)) >= Keep
        BY <1>1, <2>2, <3>2 DEF Newer
      <3> QED BY <1>4, <3>1, <3>2, PrunedOnlyOld
    <2>3. CASE a = rec
      BY <1>2, <1>t, <2>2, <2>3 DEF S
    <2>4. CASE a \in applied
      <3>1. CASE \E s \in snaps : s.id = a.id /\ s.complete /\ a.parts \subseteq s.parts /\ s.content = a.before
        BY <2>2, <3>1 DEF S
      <3>2. CASE Keep # 0 /\ Cardinality(Newer(snaps, a.id)) >= Keep
        <4>1. a.id \in Nat
          BY <1>t, <2>4 DEF Restores
        <4>2. Newer(snaps, a.id) \in SUBSET Newer(S, a.id)
          BY DEF S, Newer
        <4>3. Cardinality(Newer(S, a.id)) >= Keep
          <5>1. IsFiniteSet(Newer(S, a.id)) /\ Cardinality(Newer(S, a.id)) \in Nat
            BY <1>4, Counting
          <5>2. Cardinality(Newer(snaps, a.id)) <= Cardinality(Newer(S, a.id)) /\ Cardinality(Newer(snaps, a.id)) \in Nat
            BY <1>t, <4>2, <5>1, FS_Subset, Counting
          <5> QED BY <3>2, <5>1, <5>2, Assumed
        <4>4. Cardinality(Newer(Pruned(S), a.id)) >= Keep
          BY <1>4, <3>2, <4>1, <4>3, PrunedKeepsNewest
        <4> QED BY <1>1, <3>2, <4>4 DEF Newer
      <3> QED BY <2>4, <3>1, <3>2 DEF IInv, Undoable, Newer
    <2> QED BY <1>1, <2>3, <2>4
  <1> QED BY <1>6, <1>7, <1>8, <1>9, <1>10, <1>11 DEF IInv

\* A directory that a failed snapshot leaves only adds to what pruning counts.
LEMMA BySnapshotFails == ASSUME IInv, SnapshotFails PROVE IInv'
  <1> DEFINE d == [id |-> taken + 1, content |-> live, parts |-> op.parts, complete |-> FALSE]
  <1>1. PICK left \in {{}, {d}} : snaps' = snaps \cup left
    BY DEF SnapshotFails
  <1>2. /\ op.step = "snapshot" /\ taken' = taken + 1 /\ op' = Idle
        /\ UNCHANGED <<live, drill, encrypted, engine, values, applied>>
    BY DEF SnapshotFails, env
  <1>t. /\ op \in Ops /\ live \in Live /\ taken \in Nat /\ taken < MaxRuns
        /\ snaps \subseteq Snapshots /\ IsFiniteSet(snaps) /\ applied \subseteq Restores
    BY <1>2, Assumed DEF IInv, TypeInv, TypeOK, Place
  <1>3. d \in Snapshots /\ d.id = taken + 1
    BY <1>t DEF Snapshots, Ops
  <1> HIDE DEF d
  <1>4. snaps' \subseteq Snapshots /\ IsFiniteSet(snaps')
    <2>1. IsFiniteSet(left)
      <3>1. IsFiniteSet({}) /\ IsFiniteSet({d})
        BY FS_EmptySet, FS_Singleton
      <3> QED BY <1>1, <3>1
    <2> QED BY <1>1, <1>3, <1>t, <2>1, FS_Union
  <1>5. Place' /\ Sourced' /\ Untouched' /\ Drilled' /\ InApplication' /\ op' \in Ops
    BY <1>2, <1>t, Assumed, BackToIdle
  <1>6. TypeInv'
    BY <1>2, <1>4, <1>5, <1>t, Assumed DEF IInv, TypeInv, TypeOK, Ops
  <1>7. Stamped'
    <2>1. \A s \in snaps' : s.id <= taken'
      BY <1>1, <1>2, <1>3, <1>t DEF IInv, Stamped, Snapshots
    <2>2. \A a \in applied : a.id <= taken + 1
      BY <1>t DEF IInv, Stamped, Restores
    <2> QED BY <1>2, <2>1, <2>2 DEF IInv, Stamped
  <1>8. Undoable'
    <2>1. SUFFICES ASSUME NEW a \in applied,
                          Keep # 0, Cardinality(Newer(snaps, a.id)) >= Keep
                   PROVE  Cardinality(Newer(snaps', a.id)) >= Keep
      BY <1>1, <1>2 DEF IInv, Undoable, Newer
    <2>2. Newer(snaps, a.id) \in SUBSET Newer(snaps', a.id)
      BY <1>1 DEF Newer
    <2>3. IsFiniteSet(Newer(snaps', a.id)) /\ Cardinality(Newer(snaps', a.id)) \in Nat
      BY <1>4, Counting
    <2>4. Cardinality(Newer(snaps, a.id)) <= Cardinality(Newer(snaps', a.id)) /\ Cardinality(Newer(snaps, a.id)) \in Nat
      BY <1>t, <2>2, <2>3, FS_Subset, Counting
    <2> QED BY <2>1, <2>3, <2>4, Assumed
  <1> QED BY <1>5, <1>6, <1>7, <1>8 DEF IInv
\* One part is written over the live system, or over a drill's database.
LEMMA Writing ==
  ASSUME live \in Live, NEW p \in RestoreParts, op.source \in Sources,
         p # "media" => op.source[p] \in Values \cup {Broken} \/ (p = "env" /\ op.source[p] = Missing),
         p = "media" => op.source.media \subseteq Values
  PROVE  /\ Written(p) \in Live /\ HalfWritten(p) \subseteq Live
         /\ Written(p)[p] = IF p = "media" THEN live.media \cup op.source.media ELSE op.source[p]
         /\ \A q \in RestoreParts \ {p} : Written(p)[q] = live[q]
  <1>1. CASE p = "db"
    BY <1>1 DEF Written, HalfWritten, Live, RestoreParts
  <1>2. CASE p = "env"
    BY <1>2 DEF Written, HalfWritten, Live, RestoreParts
  <1>3. CASE p = "media"
    BY <1>3 DEF Written, HalfWritten, Live, RestoreParts
  <1> QED BY <1>1, <1>2, <1>3 DEF RestoreParts

\* What a command that applies a part writes is of the right type.
LEMMA ToWrite ==
  ASSUME IInv, op.step = "apply", op.kind # "drill", NEW p \in op.parts
  PROVE  /\ op.source \in Sources
         /\ p # "media" => op.source[p] \in Values \cup {Broken} \/ (p = "env" /\ op.source[p] = Missing)
         /\ p = "media" => op.source.media \subseteq Values
         /\ op.kind = "restore" => op.source[p] = Content(p, op.bundle)
  <1>1. op \in Ops /\ op.kind \in {"restore", "rollback"} /\ p \in RestoreParts /\ op.source \in Sources
    BY DEF IInv, TypeInv, Place, Ops
  <1>2. CASE op.kind = "restore"
    <2>1. op.source[p] = Content(p, op.bundle)
      BY <1>1, <1>2 DEF IInv, Sourced, Matches
    <2>2. op.bundle \in Values
      BY <1>1 DEF Ops, Values
    <2> QED BY <1>1, <2>1, <2>2 DEF Content, RestoreParts
  <1>3. CASE op.kind = "rollback"
    BY <1>1, <1>3 DEF IInv, Sourced, Live, RestoreParts
  <1> QED BY <1>1, <1>2, <1>3

LEMMA ByApplyPart == ASSUME IInv, NEW p \in RestoreParts, ApplyPart(p) PROVE IInv'
  <1>1. /\ op.step = "apply" /\ p \in op.parts
        /\ IF op.kind = "drill" THEN drill' = op.source.db /\ UNCHANGED live
                                ELSE live' = Written(p) /\ UNCHANGED drill
        /\ op' = [op EXCEPT !.parts = @ \ {p}, !.step = IF op.parts = {p} THEN "record" ELSE "apply"]
        /\ UNCHANGED <<encrypted, engine, snaps, values, taken, applied>>
    BY DEF ApplyPart, NextPart, env
  <1>t. op \in Ops /\ live \in Live /\ op.kind \in {"restore", "drill", "rollback"} /\ op.source \in Sources
    BY <1>1 DEF IInv, TypeInv, TypeOK, Place, Ops
  <1>2. /\ op' \in Ops /\ op'.source = op.source /\ op'.kind = op.kind /\ op'.bundle = op.bundle
        /\ op'.errors = op.errors /\ op'.parts = op.parts \ {p} /\ op'.before = op.before /\ op'.snap = op.snap
        /\ op'.step = IF op.parts = {p} THEN "record" ELSE "apply"
    BY <1>1, <1>t DEF Ops
  <1>3. ASSUME op.kind # "drill"
        PROVE  /\ live' \in Live
               /\ live'[p] = IF p = "media" THEN live.media \cup op.source.media ELSE op.source[p]
               /\ \A q \in RestoreParts \ {p} : live'[q] = live[q]
    <2>1. /\ op.step = "apply" /\ op.kind # "drill" /\ p \in op.parts /\ p \in RestoreParts /\ op.source \in Sources
          /\ live \in Live /\ live' = Written(p)
      BY <1>1, <1>3, <1>t DEF Ops
    <2>2. /\ p # "media" => op.source[p] \in Values \cup {Broken} \/ (p = "env" /\ op.source[p] = Missing)
          /\ p = "media" => op.source.media \subseteq Values
      BY <2>1, ToWrite
    <2>3. /\ Written(p) \in Live
          /\ Written(p)[p] = IF p = "media" THEN live.media \cup op.source.media ELSE op.source[p]
          /\ \A q \in RestoreParts \ {p} : Written(p)[q] = live[q]
      BY <2>1, <2>2, Writing
    <2> QED BY <2>1, <2>3
  <1>4. live' \in Live /\ drill' \in Values \cup {Broken, Missing}
    BY <1>1, <1>3, <1>t DEF IInv, TypeInv, TypeOK, Sources
  <1>5. TypeInv'
    BY <1>1, <1>2, <1>4 DEF IInv, TypeInv, TypeOK, Ops
  <1>6. Place' /\ Untouched'
    BY <1>1, <1>2, <1>t DEF IInv, Place, Untouched
  <1>10. Drilled'
    <2>1. CASE op.kind = "drill"
      <3>1. op.parts = {"db"} /\ ~op.errors /\ op.source.db = op.bundle
        BY <1>1, <1>t, <2>1 DEF IInv, Drilled, Place, Sourced, Matches, Content, RestoreParts
      <3> QED BY <1>1, <1>2, <2>1, <3>1 DEF Drilled, Loaded
    <2>2. CASE op.kind # "drill"
      BY <1>2, <2>2 DEF Drilled
    <2> QED BY <2>1, <2>2
  <1>7. Sourced'
    BY <1>1, <1>2 DEF IInv, Sourced, Matches
  <1>8. ASSUME op.kind = "restore" PROVE InApplication'
    <2>1. PICK a \in applied : Applying(a)
      BY <1>1, <1>8 DEF IInv, InApplication
    <2>2. op.source[p] = Content(p, op.bundle)
      BY <1>1, <1>8, ToWrite
    <2>3. a.id = op'.snap /\ a.before = op'.before /\ op'.parts \subseteq a.parts
      BY <1>2, <2>1 DEF Applying
    <2>4. live[p] = op.before[p]
      BY <1>1, <2>1 DEF Applying
    <2>5. live'[p] = After(p)
      <3>1. CASE p = "media"
        BY <1>3, <1>8, <2>2, <2>4, <3>1 DEF After, Content
      <3>2. CASE p # "media"
        BY <1>1, <1>3, <1>8, <2>2, <3>2 DEF After, Content, IInv, Place
      <3> QED BY <3>1, <3>2
    <2>6. \A q \in RestoreParts : live'[q] = IF q \in a.parts \ op'.parts THEN After(q) ELSE op.before[q]
      <3>1. \A q \in RestoreParts \ {p} : q \in op'.parts <=> q \in op.parts
        BY <1>2
      <3>2. p \in a.parts \ op'.parts
        BY <1>1, <1>2, <2>1 DEF Applying
      <3> QED BY <1>3, <1>8, <2>1, <2>5, <3>1, <3>2 DEF Applying
    <2>7. \A q : After(q)' = After(q)
      BY <1>2 DEF After
    <2>8. Applying(a)'
      BY <1>2, <2>3, <2>6, <2>7 DEF Applying
    <2> QED BY <1>1, <2>8 DEF InApplication
  <1>9. InApplication'
    BY <1>2, <1>8 DEF InApplication
  <1> QED BY <1>1, <1>5, <1>6, <1>7, <1>9, <1>10, SameRecords DEF IInv

\* psql reports errors and exits with zero: the database is broken, and nothing else.
LEMMA ByPsqlGoesOn == ASSUME IInv, PsqlGoesOn PROVE IInv'
  <1>1. /\ op.step = "apply" /\ "db" \in op.parts /\ engine = "postgresql"
        /\ IF op.kind = "drill" THEN drill' = Broken /\ UNCHANGED live
                                ELSE live' = [live EXCEPT !.db = Broken] /\ UNCHANGED drill
        /\ op' = [op EXCEPT !.parts = @ \ {"db"}, !.errors = TRUE,
                            !.step = IF op.parts = {"db"} THEN "record" ELSE "apply"]
        /\ UNCHANGED <<encrypted, engine, snaps, values, taken, applied>>
    BY DEF PsqlGoesOn, NextPart, env
  <1>t. op \in Ops /\ live \in Live /\ op.kind \in {"restore", "drill", "rollback"}
    BY <1>1 DEF IInv, TypeInv, TypeOK, Place, Ops
  <1>2. /\ op' \in Ops /\ op'.source = op.source /\ op'.kind = op.kind /\ op'.bundle = op.bundle
        /\ op'.errors /\ op'.parts = op.parts \ {"db"} /\ op'.before = op.before /\ op'.snap = op.snap
        /\ op'.step = IF op.parts = {"db"} THEN "record" ELSE "apply"
    BY <1>1, <1>t DEF Ops
  <1>3. ASSUME op.kind # "drill"
        PROVE  live' \in Live /\ live'["db"] = Broken /\ \A q \in RestoreParts \ {"db"} : live'[q] = live[q]
    BY <1>1, <1>3, <1>t DEF Live, RestoreParts
  <1>4. live' \in Live /\ drill' \in Values \cup {Broken, Missing}
    BY <1>1, <1>3, <1>t DEF IInv, TypeInv, TypeOK
  <1>5. TypeInv'
    BY <1>1, <1>2, <1>4 DEF IInv, TypeInv, TypeOK, Ops
  <1>6. Place' /\ Untouched'
    BY <1>1, <1>2, <1>t DEF IInv, Place, Untouched
  <1>7. Sourced'
    BY <1>1, <1>2 DEF IInv, Sourced, Matches
  <1>8. Drilled'
    BY <1>1, <1>2 DEF IInv, Drilled, Loaded
  <1>9. ASSUME op.kind = "restore" PROVE InApplication'
    <2>1. PICK a \in applied : Applying(a)
      BY <1>1, <1>9 DEF IInv, InApplication
    <2>2. a.id = op'.snap /\ a.before = op'.before /\ op'.parts \subseteq a.parts
      BY <1>2, <2>1 DEF Applying
    <2>3. "db" \in a.parts \ op'.parts /\ \A q \in RestoreParts \ {"db"} : q \in op'.parts <=> q \in op.parts
      BY <1>1, <1>2, <2>1 DEF Applying
    <2>4. After("db")' = Broken /\ \A q \in RestoreParts \ {"db"} : After(q)' = After(q)
      BY <1>2 DEF After, RestoreParts
    <2>5. \A q \in RestoreParts : live'[q] = IF q \in a.parts \ op'.parts THEN After(q)' ELSE op'.before[q]
      BY <1>2, <1>3, <1>9, <2>1, <2>3, <2>4 DEF Applying
    <2>6. Applying(a)'
      BY <2>2, <2>5 DEF Applying
    <2> QED BY <1>1, <2>6 DEF InApplication
  <1>10. InApplication'
    BY <1>2, <1>9 DEF InApplication
  <1> QED BY <1>1, <1>5, <1>6, <1>7, <1>8, <1>10, SameRecords DEF IInv

LEMMA ByApplyFails == ASSUME IInv, NEW p \in RestoreParts, ApplyFails(p) PROVE IInv'
  <1>1. /\ op.step = "apply" /\ p \in op.parts /\ op' = Idle
        /\ IF op.kind = "drill" THEN drill' = Broken /\ UNCHANGED live
                                ELSE live' \in HalfWritten(p) /\ UNCHANGED drill
        /\ UNCHANGED <<encrypted, engine, snaps, values, taken, applied>>
    BY DEF ApplyFails, NextPart, env
  <1>2. live' \in Live
    BY <1>1, ToWrite, Writing DEF IInv, TypeInv, TypeOK
  <1>3. Place' /\ Sourced' /\ Untouched' /\ Drilled' /\ InApplication' /\ op' \in Ops
    BY <1>1, BackToIdle DEF IInv, Place
  <1>4. TypeInv'
    BY <1>1, <1>2, <1>3 DEF IInv, TypeInv, TypeOK, Ops
  <1> QED BY <1>1, <1>3, <1>4, SameRecords DEF IInv

LEMMA ByRecordRun == ASSUME IInv, RecordRun PROVE IInv'
  <1>1. op' = Idle /\ UNCHANGED <<live, drill, encrypted, engine, snaps, values, taken, applied>>
    BY DEF RecordRun, env
  <1>2. Place' /\ Sourced' /\ Untouched' /\ Drilled' /\ InApplication' /\ op' \in Ops
    BY <1>1, BackToIdle DEF IInv, Place
  <1>3. TypeInv'
    BY <1>1, <1>2 DEF IInv, TypeInv, TypeOK, Ops
  <1> QED BY <1>1, <1>2, <1>3, SameRecords DEF IInv

LEMMA ByRollback == ASSUME IInv, NEW s \in snaps, Rollback(s) PROVE IInv'
  <1> DEFINE chosen == {p \in s.parts : p = "env" => s.content.env # Missing}
  <1>1. /\ op' = [Idle EXCEPT !.step = "apply", !.kind = "rollback", !.source = s.content,
                              !.parts = chosen, !.before = live, !.snap = s.id]
        /\ UNCHANGED <<live, drill, encrypted, engine, snaps, values, taken, applied>>
    BY DEF Rollback, env
  <1>2. s \in Snapshots /\ live \in Live /\ chosen \subseteq RestoreParts
    BY DEF IInv, TypeInv, TypeOK, Snapshots
  <1> HIDE DEF chosen
  <1>3. s.content \in Live /\ s.content \in Sources /\ s.id \in Nat
    BY <1>2, Contents DEF Snapshots
  <1>4. /\ op' \in Ops /\ op'.step = "apply" /\ op'.kind = "rollback" /\ op'.source = s.content
        /\ op'.parts = chosen /\ ~op'.errors
    BY <1>1, <1>2, <1>3, IdleType DEF Ops
  <1>5. TypeInv'
    BY <1>1, <1>2, <1>4 DEF IInv, TypeInv, TypeOK, Ops
  <1>6. Place' /\ Untouched' /\ Drilled' /\ InApplication' /\ Sourced'
    BY <1>1, <1>3, <1>4 DEF IInv, Place, Untouched, Drilled, InApplication, Sourced
  <1> QED BY <1>1, <1>5, <1>6, SameRecords DEF IInv

LEMMA ByEdit == ASSUME IInv, Edit PROVE IInv'
  <1>1. /\ op.step = "idle" /\ values < MaxValues /\ values' = values + 1
        /\ live' = [live EXCEPT !.db = values + 1, !.media = @ \cup {values + 1}]
        /\ UNCHANGED <<drill, encrypted, engine, snaps, op, taken, applied>>
    BY DEF Edit, env
  <1>2. values' \in Values /\ live' \in Live
    <2>1. values + 1 \in Values /\ live \in Live
      BY <1>1, Assumed DEF IInv, TypeInv, TypeOK, Values
    <2> QED BY <1>1, <2>1 DEF Live
  <1>3. TypeInv'
    BY <1>1, <1>2 DEF IInv, TypeInv, TypeOK
  <1>4. Place' /\ Untouched' /\ Drilled' /\ InApplication' /\ Sourced'
    BY <1>1 DEF IInv, Place, Untouched, Drilled, InApplication, Sourced, Matches
  <1> QED BY <1>1, <1>3, <1>4, SameRecords DEF IInv

LEMMA StepInv == IInv /\ [Next]_vars => IInv'
  <1> SUFFICES ASSUME IInv, [Next]_vars PROVE IInv'
    OBVIOUS
  <1>1. CASE Command
    <2>1. ASSUME NEW b \in Bundles, NEW sel \in Selections, NEW k \in {"restore", "drill"},
                 StartRestore(b, sel, k)
          PROVE  IInv'
      BY <2>1, ByStartRestore
    <2>2. ASSUME NEW s \in snaps, Rollback(s) PROVE IInv'
      BY <2>2, ByRollback
    <2>3. ASSUME NEW p \in RestoreParts, Fetch(p) \/ ApplyPart(p) \/ ApplyFails(p) PROVE IInv'
      BY <2>3, ByFetch, ByApplyPart, ByApplyFails
    <2>4. CASE Verify \/ TakeSnapshot \/ SnapshotFails \/ PsqlGoesOn \/ RecordRun
      BY <2>4, ByVerify, ByTakeSnapshot, BySnapshotFails, ByPsqlGoesOn, ByRecordRun
    <2> QED BY <1>1, <2>1, <2>2, <2>3, <2>4 DEF Command
  <1>2. CASE Damage \/ UNCHANGED vars
    <2>1. UNCHANGED <<live, drill, encrypted, engine, snaps, op, values, taken, applied>>
      BY <1>2 DEF Damage, vars
    <2>2. TypeInv' /\ Place' /\ Untouched' /\ Drilled' /\ InApplication' /\ Sourced'
      BY <2>1 DEF IInv, TypeInv, TypeOK, Place, Untouched, Drilled, Loaded, InApplication, Applying, After,
                      Sourced, Matches
    <2> QED BY <2>1, <2>2, SameRecords DEF IInv
  <1>3. CASE Edit
    BY <1>3, ByEdit
  <1> QED BY <1>1, <1>2, <1>3 DEF Next

LEMMA Invariance == Spec => []IInv
  BY InitInv, StepInv, PTL DEF Spec

-----------------------------------------------------------------------------
(* What it says.                                                           *)

\* Every reachable state has its type, for any bundles, snapshots and runs.
THEOREM TypeCorrect == Spec => []TypeOK
  <1>1. IInv => TypeOK
    BY DEF IInv, TypeInv
  <1> QED BY <1>1, Invariance, PTL

LEMMA WholeInIInv == IInv => RestoredWhole
  <1> SUFFICES ASSUME IInv PROVE RestoredWhole
    OBVIOUS
  <1>1. ASSUME Restored, op.kind = "restore", NEW a \in applied, a.id = op.snap
        PROVE  /\ "db" \in a.parts => Loaded(live.db)
               /\ "env" \in a.parts => live.env = op.bundle
               /\ live.media = op.before.media \cup (IF "media" \in a.parts THEN {op.bundle} ELSE {})
    <2>1. PICK b \in applied : Applying(b)
      BY <1>1 DEF IInv, InApplication, Restored
    <2>2. a = b
      BY <1>1, <2>1 DEF IInv, Stamped, Applying
    <2>3. op.parts = {}
      BY <1>1 DEF IInv, Place, Restored
    <2>4. \A p \in RestoreParts : live[p] = IF p \in a.parts THEN After(p) ELSE op.before[p]
      BY <2>1, <2>2, <2>3 DEF Applying
    <2>5. live \in Live /\ op.before \in Live
      BY DEF IInv, TypeInv, TypeOK, Ops
    <2>6. op.errors => engine = "postgresql"
      BY DEF IInv, Place
    <2> QED BY <2>4, <2>5, <2>6 DEF After, RestoreParts, Live, Loaded
  <1>2. op.step \in {"fetch", "snapshot"} \/ op.kind = "drill" => live = op.before
    BY DEF IInv, Untouched
  <1>3. Restored /\ op.kind = "drill" => Loaded(drill)
    BY DEF IInv, Drilled, Restored
  <1> QED BY <1>1, <1>2, <1>3 DEF RestoredWhole

\* A restore or a drill that ends well has applied one bundle and all of it, save a
\* PostgreSQL database psql reported errors of, a refused one has changed nothing and
\* a drill never reaches the live system (restore.py), whatever was pruned or broken
\* while it was fetched and whatever failed before.
THEOREM RestoredWholeHolds == Spec => []RestoredWhole
  BY WholeInIInv, Invariance, PTL

\* The snapshot a restore took holds, complete, what the restore was about to
\* replace until Keep later snapshot directories exist (snapshot.py), for every
\* retention, and however many of those later directories are of failed ones.
THEOREM UndoableHolds == Spec => []Undoable
  <1>1. IInv => Undoable
    BY DEF IInv
  <1> QED BY <1>1, Invariance, PTL

-----------------------------------------------------------------------------
(* SubjectRequest: the erasure and the export of a data subject.           *)

Requests == [action : {"none", "delete", "export"},
             phase : {"idle", "walk", "dry", "erase", "files", "index", "export", "rows", "seal", "record"},
             confirm : BOOLEAN, seal : BOOLEAN, matched : SUBSET Records, data : SUBSET Records,
             names : SUBSET Uploads, files : SUBSET (Kinds \X Uploads), report : Nat,
             failed : SUBSET Uploads, left : SUBSET Records, model : Kinds \cup {"none"}, counted : Nat,
             rest : SUBSET Records, rows : SUBSET Records]
ExportFiles == [model : Kinds \cup {"manifest"}, rows : SUBSET Records, sealed : BOOLEAN]

SubjectTypes ==
  /\ kind \in Layouts
  /\ records \in [Records -> Uploads \cup {NoFile, NotYet, Gone}]
  /\ storage \subseteq Uploads
  /\ request \in Requests
  /\ bundle \subseteq ExportFiles

\* A stored name is shared within one model only: no lookup of another model counts.
OneModel == \A j, k \in Records : records[j] = records[k] /\ records[j] \in Uploads => Model(j) = Model(k)
Indexed == { k \in request.matched : kind[k] = "index" }
ErasurePhases == {"erase", "files", "index"}

\* What the command found: rows a walk may still rely on, and documents that are
\* erased or still to be erased.
Matched ==
  /\ \A k \in request.matched : kind[k] \in {"path", "index"} /\ records[k] # NotYet
  /\ request.left \subseteq request.matched
  /\ request.phase = "walk" => request.matched \subseteq PresentRecords
  /\ request.phase \in {"walk"} \cup ErasurePhases => \A k \in Indexed : k \in request.left \/ records[k] = Gone

\* What the Collector took is all that is counted beside the documents, and no row
\* that is erased in another way names a collected file.
Collected ==
  request.phase \in ErasurePhases =>
    /\ \A k \in request.data : kind[k] \in {"path", "cascade"}
    /\ Doomed \subseteq request.data
    /\ request.report = Cardinality(request.data) + Cardinality(request.matched \ Doomed)
    /\ \A k \in Records : kind[k] \in {"index", "fast"} => records[k] \notin request.names

\* Every collected name that is still in storage is named by a row that stays, was
\* reported, or is still to be removed; the collected rows are gone for good.
Spared(name) == name \in request.failed \/ \E k \in PresentRecords : records[k] = name
Pending(name) == \E m \in Kinds : <<m, name>> \in request.files
Followed ==
  /\ request.phase = "erase" =>
       \A name \in request.names \cap storage :
          Pending(name) \/ \E k \in PresentRecords \ request.data : records[k] = name
  /\ request.phase \in {"files", "index"} =>
       /\ \A name \in request.names \cap storage : Pending(name) \/ Spared(name)
       /\ \A k \in request.data : records[k] = Gone
  /\ request.phase = "index" => request.files = {}

\* A model is written with every row that was found and is there, or is still to be
\* written; of the one that is read, every such row is read or still to be read.
Bundled(m, ks) == \E f \in bundle : f.model = m /\ OfModel(ks, m) \cap PresentRecords \subseteq f.rows
Exported ==
  /\ request.phase = "rows" =>
       /\ request.model \in Kinds
       /\ OfModel(request.matched, request.model) \cap PresentRecords \subseteq request.rest \cup request.rows
  /\ request.phase \in {"export", "rows"} => \A m \in Models(request.matched) : m \in Models(request.left) \/ Bundled(m, request.matched)
  /\ request.phase \in {"seal", "record"} => \A m \in Models(request.matched) : Bundled(m, request.matched)
  /\ request.phase = "record" /\ request.seal => Plaintext = {}

\* Only an idle command has an entry, and what an erasure recorded stays gone.
Recorded ==
  /\ request.phase # "idle" => audit = NoAuditEntry
  /\ audit.action = "delete" => \A k \in audit.rows : records[k] = Gone
  /\ audit.action = "export" => \A k \in audit.rows : records[k] # NotYet

SubjectInv == SubjectTypes /\ OneModel /\ Matched /\ Collected /\ Followed /\ Exported /\ Recorded /\ SubjectServed

\* Refused, killed or done: the command leaves nothing behind but files of an export.
LEMMA RequestOver ==
  ASSUME SubjectInv, request' = NoRequest, kind' = kind, records' = records, storage' = storage,
         audit' = audit, bundle' \subseteq ExportFiles, bundle' = bundle \/ audit = NoAuditEntry
  PROVE  SubjectInv'
<1>1. SubjectTypes'
  <2>1. NoRequest \in Requests
    BY DEF Requests, NoRequest
  <2> QED
    BY <2>1 DEF SubjectInv, SubjectTypes
<1>2. OneModel'
  BY DEF SubjectInv, OneModel, Model
<1>3. Matched' /\ Collected' /\ Followed' /\ Exported'
  BY DEF Matched, Collected, Followed, Exported, NoRequest, Indexed, ErasurePhases
<1>4. Recorded'
  BY DEF Recorded, NoRequest, SubjectInv
<1>5. SubjectServed'
  <2>1. CASE audit = NoAuditEntry
    BY <2>1 DEF SubjectServed, ErasureComplete, ExportComplete, NoAuditEntry
  <2>2. CASE bundle' = bundle
    BY <2>2 DEF SubjectInv, SubjectServed, ErasureComplete, ExportComplete, PresentRecords, Models, OfModel, Model,
       Plaintext
  <2> QED
    BY <2>1, <2>2
<1> QED
  BY <1>1, <1>2, <1>3, <1>4, <1>5 DEF SubjectInv

LEMMA SubjectQuiet ==
  ASSUME SubjectInv, UNCHANGED subjectVars
  PROVE  SubjectInv'
<1> USE DEF subjectVars
<1>1. SubjectTypes' /\ OneModel'
  BY DEF SubjectInv, SubjectTypes, OneModel, Model
<1>2. Matched' /\ Collected'
  BY DEF SubjectInv, Matched, Collected, PresentRecords, Indexed, Doomed
<1>3. Followed'
  BY DEF SubjectInv, Followed, Pending, Spared, PresentRecords
<1>4. Exported' /\ ExportComplete'
  BY DEF SubjectInv, SubjectServed, ExportComplete, Exported, Models, OfModel, Model, Plaintext, Bundled, PresentRecords
<1>5. Recorded' /\ ErasureComplete'
  BY DEF SubjectInv, Recorded, SubjectServed, ErasureComplete, PresentRecords
<1> QED
  BY <1>1, <1>2, <1>3, <1>4, <1>5 DEF SubjectInv, SubjectServed

\* Rows that come, or adopt a file, while the command runs.
LEMMA ApplicationStep ==
  ASSUME SubjectInv, NEW k \in Records, Add(k) \/ \E j \in Records : Adopt(k, j)
  PROVE  SubjectInv'
<1> USE SubjectAssumption
<1> DEFINE new == records'[k]
<1>1. /\ records' = [records EXCEPT ![k] = new]
      /\ records[k] \in {NotYet, NoFile}
      /\ \/ new = NoFile
         \/ \E j \in Records : new = records[j] /\ new \in Uploads /\ Model(j) = Model(k)
      /\ new \in Uploads \cup {NoFile} /\ new \notin {NotYet, Gone}
      /\ UNCHANGED <<kind, storage, request, bundle, audit>>
  BY DEF SubjectInv, SubjectTypes, Add, Adopt, NoFile, NotYet, Gone
<1>1a. records[k] # Gone /\ records[k] \notin Uploads
  BY <1>1 DEF NoFile, NotYet, Gone
<1>2. /\ \A j \in Records \ {k} : records'[j] = records[j]
      /\ SubjectTypes
  BY <1>1 DEF SubjectInv, SubjectTypes
<1> HIDE DEF new
<1>3. SubjectTypes'
  BY <1>1, <1>2 DEF SubjectTypes
<1>4. OneModel'
  BY <1>1, <1>2 DEF SubjectInv, OneModel, Model, NoFile
<1>5. PresentRecords \subseteq PresentRecords' /\ PresentRecords' \subseteq PresentRecords \cup {k} /\ new = records'[k]
  BY <1>1, <1>2 DEF PresentRecords, new
<1>6. \A j \in Records : records[j] = Gone => records'[j] = Gone
  BY <1>1a, <1>2
<1>7. \A name \in Uploads, j \in Records : records[j] = name => records'[j] = name
  BY <1>1a, <1>2
<1>8. Matched'
  BY <1>1, <1>5, <1>6 DEF SubjectInv, SubjectTypes, Requests, Matched, Indexed
<1>9. Collected'
  <2>1. ASSUME request.phase \in ErasurePhases, NEW j \in Records, kind[j] \in {"index", "fast"}
        PROVE  records'[j] \notin request.names
    <3>1. CASE j = k
      <4>1. request.names \subseteq Uploads
        BY <1>2 DEF SubjectTypes, Requests
      <4>2. CASE new = NoFile
        BY <3>1, <4>1, <4>2, <1>5 
      <4>3. CASE new # NoFile
        <5>1. PICK i \in Records : new = records[i] /\ Model(i) = Model(k)
          BY <4>3, <1>1
        <5>2. kind[i] \in {"index", "fast"}
          BY <5>1, <3>1, <2>1, SubjectAssumption, <1>2 DEF Model, SubjectTypes
        <5> QED
          BY <5>1, <5>2, <2>1, <3>1, <1>5 DEF SubjectInv, Collected
      <4> QED
        BY <4>2, <4>3
    <3>2. CASE j # k
      BY <3>2, <2>1, <1>2 DEF SubjectInv, Collected
    <3> QED
      BY <3>1, <3>2
  <2> QED
    BY <2>1, <1>1 DEF SubjectInv, Collected, Doomed
<1>10. Followed'
  <2>1. \A name \in Uploads : Spared(name) => Spared(name)'
    BY <1>1, <1>5, <1>7 DEF Spared, PresentRecords
  <2>2. \A name \in Uploads : Pending(name)' <=> Pending(name)
    BY <1>1 DEF Pending
  <2>3. \A name \in Uploads : (\E j \in PresentRecords \ request.data : records[j] = name)
           => \E j \in PresentRecords' \ request.data : records'[j] = name
    BY <1>5, <1>7 DEF PresentRecords
  <2>4. request.names \subseteq Uploads /\ request.data \subseteq Records
    BY <1>2 DEF SubjectTypes, Requests
  <2> QED
    BY <2>1, <2>2, <2>3, <2>4, <1>1, <1>6 DEF SubjectInv, Followed
<1>n. k \in PresentRecords \/ records[k] = NotYet
  BY <1>1 DEF PresentRecords, NoFile, NotYet, Gone
<1>11. Exported'
  <2>1. request.matched \cap PresentRecords' \subseteq PresentRecords
    BY <1>5, <1>n DEF SubjectInv, Matched
  <2>2. \A m : OfModel(request.matched, m)' \cap PresentRecords' \subseteq OfModel(request.matched, m) \cap PresentRecords
    BY <2>1, <1>1 DEF OfModel, Model
  <2>3. \A m : Bundled(m, request.matched) => Bundled(m, request.matched)'
    BY <2>2, <1>1 DEF Bundled
  <2>4. \A ks : Models(ks)' = Models(ks)
    BY <1>1 DEF Models, Model
  <2> QED
    BY <2>2, <2>3, <2>4, <1>1 DEF SubjectInv, Exported, Plaintext, Models
<1>12. Recorded'
  <2>1. CASE audit.action \in {"delete", "export"}
    BY <2>1, <1>1, <1>2, <1>1a DEF SubjectInv, Recorded
  <2> QED
    BY <2>1, <1>1 DEF SubjectInv, Recorded
<1>13. SubjectServed'
  <2>1. ErasureComplete'
    <3>1. SUFFICES ASSUME audit.action = "delete" PROVE ErasureComplete'
      BY <1>1 DEF ErasureComplete
    <3>2. audit.rows \cap PresentRecords' = {}
      BY <3>1, <1>12, <1>1 DEF Recorded, PresentRecords
    <3>3. storage \subseteq Uploads
      BY <1>2 DEF SubjectTypes
    <3>4. \A name \in audit.names \cap storage : 
            name \in audit.failed \/ \E j \in PresentRecords' : records'[j] = name
      BY <3>1, <3>3, <1>5, <1>7 DEF SubjectInv, SubjectServed, ErasureComplete, PresentRecords
    <3> QED
      BY <3>1, <3>2, <3>4, <1>1 DEF SubjectInv, SubjectServed, ErasureComplete
  <2>2. ExportComplete'
    <3>1. SUFFICES ASSUME audit.action = "export" PROVE ExportComplete'
      BY <1>1 DEF ExportComplete
    <3>2. audit.rows \cap PresentRecords' \subseteq PresentRecords
      BY <3>1, <1>5, <1>n DEF SubjectInv, Recorded
    <3>3. \A m : OfModel(audit.rows, m)' \cap PresentRecords' \subseteq OfModel(audit.rows, m) \cap PresentRecords
      BY <3>2, <1>1 DEF OfModel, Model
    <3>4. Models(audit.rows)' = Models(audit.rows)
      BY <1>1 DEF Models, Model
    <3> QED
      BY <3>1, <3>3, <3>4, <1>1 DEF SubjectInv, SubjectServed, ExportComplete, Plaintext
  <2> QED
    BY <2>1, <2>2 DEF SubjectServed
<1> QED
  BY <1>3, <1>4, <1>8, <1>9, <1>10, <1>11, <1>12, <1>13 DEF SubjectInv

\* Rows that go while no erasure runs: they name no file, and no export misses them.
LEMMA RowRemoved ==
  ASSUME SubjectInv, NEW k \in Records, RemoveRecord(k)
  PROVE  SubjectInv'
<1>1. /\ records' = [records EXCEPT ![k] = Gone] /\ records[k] = NoFile
      /\ request.phase \notin {"walk", "dry"} \cup ErasurePhases
      /\ UNCHANGED <<kind, storage, request, bundle, audit>>
  BY DEF RemoveRecord, ErasurePhases
<1>2. SubjectTypes /\ records' \in [Records -> Uploads \cup {NoFile, NotYet, Gone}]
  BY <1>1 DEF SubjectInv, SubjectTypes
<1>3. records'[k] = Gone /\ \A j \in Records \ {k} : records'[j] = records[j]
  BY <1>1, <1>2 DEF SubjectTypes
<1>4. SubjectTypes'
  BY <1>1, <1>2 DEF SubjectTypes
<1>5. OneModel'
  BY <1>1, <1>3, SubjectAssumption DEF SubjectInv, OneModel, Model
<1>6. PresentRecords' \subseteq PresentRecords /\ PresentRecords \ {k} \subseteq PresentRecords'
  BY <1>3 DEF PresentRecords
<1>7. Matched' /\ Collected' /\ Followed'
  BY <1>1, <1>2, <1>3 DEF SubjectInv, SubjectTypes, Requests, Matched, Collected, Followed, ErasurePhases, NotYet, Gone
<1>8. /\ \A m, ks : OfModel(ks, m)' = OfModel(ks, m)
      /\ \A ks : Models(ks)' = Models(ks)
  BY <1>1 DEF OfModel, Models, Model
<1>9. Exported'
  <2>1. \A m : Bundled(m, request.matched) => Bundled(m, request.matched)'
    BY <1>1, <1>6, <1>8 DEF Bundled, OfModel
  <2>2. OfModel(request.matched, request.model)' = OfModel(request.matched, request.model)
    BY <1>1 DEF OfModel, Model
  <2> QED
    BY <2>1, <2>2, <1>1, <1>6, <1>8 DEF SubjectInv, Exported, Plaintext, Models
<1>10. Recorded'
  BY <1>1, <1>2, <1>3 DEF SubjectInv, Recorded, NotYet, Gone
<1>11. ErasureComplete'
  <2>1. SUFFICES ASSUME audit.action = "delete" PROVE ErasureComplete'
    BY <1>1 DEF ErasureComplete
  <2>2. storage \subseteq Uploads /\ NoFile \notin Uploads
    BY <1>2, SubjectAssumption DEF SubjectTypes
  <2>3. \A name \in audit.names \cap storage :
          name \in audit.failed \/ \E j \in PresentRecords' : records'[j] = name
    BY <2>1, <2>2, <1>1, <1>3, <1>6 DEF SubjectInv, SubjectServed, ErasureComplete, PresentRecords
  <2> QED
    BY <2>1, <2>3, <1>1, <1>6 DEF SubjectInv, SubjectServed, ErasureComplete
<1>12. ExportComplete'
  <2>1. \A m : OfModel(audit.rows, m)' = OfModel(audit.rows, m)
    BY <1>1 DEF OfModel, Model
  <2> QED
    BY <2>1, <1>1, <1>6, <1>8 DEF SubjectInv, SubjectServed, ExportComplete, Plaintext, Models
<1> QED
  BY <1>4, <1>5, <1>7, <1>9, <1>10, <1>11, <1>12 DEF SubjectInv, SubjectServed

\* While a command runs there is no entry a step could falsify.
LEMMA RecordKept ==
  ASSUME SubjectInv, request.phase # "idle", audit' = audit
  PROVE  SubjectServed' /\ Recorded'
BY DEF SubjectInv, Recorded, SubjectServed, ErasureComplete, ExportComplete, NoAuditEntry

\* A step that leaves the rows alone leaves what is said of them.
LEMMA RowsKept ==
  ASSUME SubjectInv, kind' = kind, records' = records
  PROVE  OneModel' /\ PresentRecords' = PresentRecords /\ \A k : Model(k)' = Model(k)
BY DEF SubjectInv, OneModel, Model, PresentRecords

LEMMA RequestBegins ==
  ASSUME SubjectInv, NEW action \in {"delete", "export"}, NEW confirm \in BOOLEAN, NEW seal \in BOOLEAN,
         BeginRequest(action, confirm, seal)
  PROVE  SubjectInv'
<1> DEFINE matched == Found
           new == [NoRequest EXCEPT !.action = action, !.confirm = confirm, !.seal = seal,
                                    !.matched = matched, !.left = matched,
                                    !.phase = IF action = "delete" THEN "walk" ELSE "export"]
<1>1. /\ UNCHANGED <<kind, records, storage>> /\ bundle' = {} /\ audit' = NoAuditEntry
      /\ request' = request \/ request' = new
      /\ request.phase = "idle"
  BY DEF BeginRequest
<1>2. SubjectTypes'
  <2>1. matched \subseteq Records
    BY DEF Found, Of, PresentRecords
  <2>2. new \in Requests
    BY <2>1 DEF NoRequest, Requests
  <2> QED
    BY <1>1, <2>2 DEF SubjectInv, SubjectTypes
<1>3. SubjectServed'
  BY <1>1 DEF SubjectServed, ErasureComplete, ExportComplete, NoAuditEntry
<1>4. OneModel' /\ PresentRecords' = PresentRecords /\ \A k : Model(k)' = Model(k)
  BY <1>1, RowsKept
<1>5. CASE request' = request
  BY <1>1, <1>2, <1>3, <1>4, <1>5 DEF SubjectInv, Matched, Collected, Followed, Exported, Recorded, ErasurePhases, NoAuditEntry
<1>6. CASE request' = new
  <2>1. /\ new.phase \in {"walk", "export"} /\ new.matched = matched /\ new.left = matched
        /\ matched \subseteq PresentRecords /\ \A k \in matched : kind[k] \in {"path", "index"} /\ records[k] # NotYet
    BY DEF NoRequest, Found, Of, PresentRecords
  <2> HIDE DEF new, matched
  <2>2. Matched'
    BY <1>1, <1>4, <1>6, <2>1 DEF Matched, Indexed, ErasurePhases
  <2>3. Collected' /\ Followed' /\ Recorded'
    BY <1>1, <1>6, <2>1 DEF Collected, Followed, Recorded, ErasurePhases, NoAuditEntry
  <2>4. Exported'
    BY <1>1, <1>4, <1>6, <2>1 DEF Exported, Models
  <2> QED
    BY <1>2, <1>3, <1>4, <2>2, <2>3, <2>4 DEF SubjectInv
<1> QED
  BY <1>1, <1>5, <1>6

\* The walk: each file it lists is named by no row beyond the ones it collected.
LEMMA WalkInv ==
  ASSUME SubjectInv, Walk
  PROVE  SubjectInv'
<1> DEFINE data == (Doomed \intersect PresentRecords) \union (IF Doomed # {} THEN Of({"cascade"}) ELSE {})
           named == { k \in data : records[k] \in Uploads /\ ~NamedBeyond(k, data) }
           names == { records[k] : k \in data } \intersect Uploads
           files == { <<Model(k), records[k]>> : k \in named }
           report == Cardinality(data) + Cardinality(request.matched \ Doomed)
           phase == IF request.confirm THEN "erase" ELSE "dry"
           new == [request EXCEPT !.data = data, !.names = names, !.files = files, !.report = report, !.phase = phase]
<1>1. UNCHANGED <<kind, records, storage, bundle, audit>> /\ request.phase = "walk"
  BY DEF Walk
<1>2. CASE request' = NoRequest
  BY <1>1, <1>2, RequestOver DEF SubjectInv, SubjectTypes
<1>3. CASE request' = new
  <2>1. SubjectTypes
    BY DEF SubjectInv
  <2>2. data \subseteq Records /\ \A k \in Records : kind[k] \in Kinds /\ Model(k) \in Kinds
    BY SubjectAssumption, <2>1 DEF SubjectTypes, PresentRecords, Of, Model, Kinds
  <2>3. report \in Nat
    <3>1. IsFiniteSet(data) /\ IsFiniteSet(request.matched \ Doomed)
      BY <2>1, <2>2, SubjectAssumption, FS_Subset DEF SubjectTypes, Requests
    <3> QED
      BY <3>1, FS_CardinalityType
  <2>4. new \in Requests
    <3>1. files \in SUBSET (Kinds \X Uploads)
      <4>1. \A k \in named : records[k] \in Uploads /\ Model(k) \in Kinds
        BY <2>2
      <4> HIDE DEF named
      <4>2. \A f \in files : f \in Kinds \X Uploads
        BY <4>1
      <4> QED
        BY <4>2
    <3>2. names \in SUBSET Uploads /\ data \in SUBSET Records
      BY <2>2
    <3>3. request \in Requests
      BY <2>1 DEF SubjectTypes
    <3>4. phase \in {"erase", "dry"}
      OBVIOUS
    <3> HIDE DEF files, names, data, report, phase
    <3> QED
      BY <3>1, <3>2, <3>3, <3>4, <2>3 DEF Requests
  <2>5. /\ new.phase = phase /\ phase \in {"erase", "dry"} /\ new.data = data /\ new.names = names
        /\ new.files = files /\ new.report = report
        /\ new.matched = request.matched /\ new.left = request.left
    BY <2>1 DEF SubjectTypes, Requests
  <2>6. Doomed' = Doomed
    BY <1>1, <1>3, <2>5 DEF Doomed
  <2>7. OneModel' /\ PresentRecords' = PresentRecords /\ \A k : Model(k)' = Model(k)
    BY <1>1, RowsKept
  <2>8. SubjectTypes'
    BY <1>1, <1>3, <2>1, <2>4 DEF SubjectTypes
  <2>9. Matched'
    BY <1>1, <1>3, <2>5 DEF SubjectInv, Matched, Indexed, ErasurePhases
  <2>10. Collected'
    <3>1. \A k \in data : kind[k] \in {"path", "cascade"}
      BY <2>1, <1>1 DEF SubjectInv, Matched, Doomed, Of, SubjectTypes, Requests
    <3>2. Doomed \subseteq data
      BY <1>1 DEF SubjectInv, Matched, Doomed
    <3>3. \A k \in Records : kind[k] \in {"index", "fast"} => records[k] \notin names
      <4>1. SUFFICES ASSUME NEW k \in Records, kind[k] \in {"index", "fast"}, NEW j \in data,
                            records[j] = records[k], records[k] \in Uploads
                     PROVE  FALSE
        OBVIOUS
      <4>2. Model(j) = Model(k)
        BY <4>1, <2>2 DEF SubjectInv, OneModel
      <4> QED
        BY <4>1, <4>2, <3>1 DEF Model
    <3> HIDE DEF data, names, report, files
    <3> QED
      BY <3>1, <3>2, <3>3, <1>1, <1>3, <2>5, <2>6 DEF Collected, report
  <2>11. Followed'
    <3>1. ASSUME NEW name \in names PROVE (\E m \in Kinds : <<m, name>> \in files)
              \/ \E k \in PresentRecords \ data : records[k] = name
      <4>1. PICK k \in data : records[k] = name /\ name \in Uploads
        OBVIOUS
      <4>2. CASE NamedBeyond(k, data)
        BY <4>1, <4>2 DEF NamedBeyond
      <4>3. CASE ~NamedBeyond(k, data)
        <5>1. k \in named
          BY <4>1, <4>3
        <5>2. <<Model(k), records[k]>> \in files /\ Model(k) \in Kinds
          BY <5>1, <2>2
        <5> QED
          BY <5>2, <4>1
      <4> QED
        BY <4>2, <4>3
    <3> HIDE DEF data, names, files, report, new
    <3> QED
      BY <3>1, <1>1, <1>3, <2>5, <2>7 DEF Followed, Pending
  <2>12. Exported' /\ SubjectServed' /\ Recorded'
    <3>1. SubjectServed' /\ Recorded'
      BY <1>1, RecordKept
    <3> HIDE DEF data, names, files, report
    <3> QED
      BY <3>1, <1>1, <1>3, <2>5 DEF Exported
  <2> QED
    BY <2>7, <2>8, <2>9, <2>10, <2>11, <2>12 DEF SubjectInv
<1> QED
  BY <1>2, <1>3 DEF Walk

\* The transaction of the erasure, with the fast deletes Django did not collect.
LEMMA EraseInv ==
  ASSUME SubjectInv, Erase
  PROVE  SubjectInv'
<1>1. UNCHANGED <<kind, storage, bundle, audit>> /\ request.phase = "erase"
  BY DEF Erase
<1>2. CASE request' = NoRequest /\ records' = records
  BY <1>1, <1>2, RequestOver DEF SubjectInv, SubjectTypes
<1>3. ASSUME request' = [request EXCEPT !.phase = "files"],
             records' = [k \in Records |->
               IF k \in request.data \union (IF request.data # {} THEN Of({"fast"}) ELSE {})
               THEN Gone ELSE records[k]]
      PROVE  SubjectInv'
  <2> DEFINE dead == request.data \union (IF request.data # {} THEN Of({"fast"}) ELSE {})
  <2>1. SubjectTypes /\ request \in Requests
    BY DEF SubjectInv, SubjectTypes
  <2>2. /\ request'.phase = "files" /\ request'.data = request.data /\ request'.names = request.names
        /\ request'.files = request.files /\ request'.report = request.report /\ request'.failed = request.failed
        /\ request'.matched = request.matched /\ request'.left = request.left
        /\ request' \in Requests
    BY <2>1, <1>3 DEF Requests
  <2>3. /\ \A k \in dead \cap Records : records'[k] = Gone
        /\ \A k \in Records \ dead : records'[k] = records[k]
        /\ records' \in [Records -> Uploads \cup {NoFile, NotYet, Gone}]
    BY <1>3, <2>1 DEF SubjectTypes
  <2>4. request.data \subseteq Records /\ request.names \subseteq Uploads /\ request.matched \subseteq Records
    BY <2>1 DEF Requests
  <2>5. \A k \in dead \ request.data : kind[k] = "fast"
    BY DEF Of
  <2>6. request.data \subseteq dead
    OBVIOUS
  <2> HIDE DEF dead
  <2>7. SubjectTypes'
    BY <1>1, <2>1, <2>2, <2>3 DEF SubjectTypes
  <2>8. OneModel'
    BY <1>1, <2>3, SubjectAssumption DEF SubjectInv, OneModel, Model
  <2>9. Matched'
    BY <1>1, <2>2, <2>3, <2>4, SubjectAssumption DEF SubjectInv, Matched, Indexed, ErasurePhases, NotYet, Gone
  <2>10. Collected'
    <3>1. Gone \notin request.names
      BY <2>4, SubjectAssumption
    <3>2. \A k \in Records : kind[k] \in {"index", "fast"} => records'[k] \notin request.names
      BY <1>1, <2>3, <3>1 DEF SubjectInv, Collected, ErasurePhases
    <3>3. Doomed' = Doomed
      BY <1>1, <2>2 DEF Doomed
    <3> QED
      BY <1>1, <2>2, <3>2, <3>3 DEF SubjectInv, Collected, ErasurePhases
  <2>11. Followed'
    <3>1. \A k \in request.data : records'[k] = Gone
      BY <2>3, <2>4, <2>6
    <3>2. ASSUME NEW name \in request.names \cap storage, NEW k \in PresentRecords \ request.data, records[k] = name
          PROVE  \E j \in PresentRecords' : records'[j] = name
      <4>1. kind[k] # "fast"
        BY <3>2, <1>1 DEF SubjectInv, Collected, PresentRecords, ErasurePhases
      <4>2. k \in Records \ dead
        BY <4>1, <2>5 DEF PresentRecords
      <4> QED
        BY <4>2, <2>3, <3>2 DEF PresentRecords
    <3> QED
      BY <1>1, <2>2, <3>1, <3>2 DEF SubjectInv, Followed, Pending, Spared
  <2>12. SubjectServed' /\ Recorded'
    BY <1>1, RecordKept
  <2>13. Exported'
    BY <2>2 DEF Exported
  <2> QED
    BY <2>7, <2>8, <2>9, <2>10, <2>11, <2>12, <2>13 DEF SubjectInv
<1> QED
  BY <1>2, <1>3 DEF Erase, Go
\* One listed file is looked up once more and removed, or its removal fails.
LEMMA Removes ==
  ASSUME SubjectInv, NEW entry \in request.files, RemoveUpload(entry) \/ RemoveUploadFails(entry)
  PROVE  SubjectInv'
<1>1. UNCHANGED <<kind, records, bundle, audit>> /\ request.phase = "files"
  BY DEF RemoveUpload, RemoveUploadFails
<1>2. SubjectTypes /\ request \in Requests
  BY DEF SubjectInv, SubjectTypes
<1>3. PICK m \in Kinds, n \in Uploads : entry = <<m, n>>
  BY <1>2 DEF Requests
<1>4. /\ request'.phase = "files" /\ request'.data = request.data /\ request'.names = request.names
      /\ request'.files = request.files \ {entry} /\ request'.report = request.report
      /\ request.failed \subseteq request'.failed
      /\ request'.matched = request.matched /\ request'.left = request.left
      /\ request' \in Requests
  <2>1. entry[2] = n
    BY <1>3
  <2> DEFINE files == request.files \ {entry}
             failed == request.failed \cup {n}
  <2>2. files \in SUBSET (Kinds \X Uploads) /\ failed \in SUBSET Uploads /\ request.failed \subseteq failed
    BY <1>2 DEF Requests
  <2>3. \/ request' = [request EXCEPT !.files = files]
        \/ request' = [request EXCEPT !.files = files, !.failed = failed]
    BY <2>1 DEF RemoveUpload, RemoveUploadFails
  <2>4. files = request.files \ {entry}
    OBVIOUS
  <2> HIDE DEF files, failed
  <2>5. CASE request' = [request EXCEPT !.files = files]
    BY <1>1, <1>2, <2>2, <2>4, <2>5 DEF Requests
  <2>6. CASE request' = [request EXCEPT !.files = files, !.failed = failed]
    BY <1>1, <1>2, <2>2, <2>4, <2>6 DEF Requests
  <2> QED
    BY <2>3, <2>5, <2>6
<1>5. /\ storage' \subseteq storage
      /\ n \in storage' => n \in request'.failed \/ \E j \in PresentRecords : records[j] = n
  <2>1. CASE RemoveUpload(entry)
    BY <2>1, <1>3 DEF RemoveUpload
  <2>2. CASE RemoveUploadFails(entry)
    <3>1. request' = [request EXCEPT !.files = @ \ {entry}, !.failed = @ \union {n}] /\ storage' = storage
      BY <2>2, <1>3 DEF RemoveUploadFails
    <3>2. request'.failed = request.failed \cup {n}
      BY <3>1, <1>2 DEF Requests
    <3> QED
      BY <3>1, <3>2
  <2> QED
    BY <2>1, <2>2
<1>6. OneModel' /\ PresentRecords' = PresentRecords /\ \A k : Model(k)' = Model(k)
  BY <1>1, RowsKept
<1>7. SubjectTypes'
  BY <1>1, <1>2, <1>4, <1>5 DEF SubjectTypes
<1>8. Matched' /\ Collected'
  BY <1>1, <1>4, <1>6 DEF SubjectInv, Matched, Collected, Indexed, Doomed, ErasurePhases
<1>9. Followed'
  <2>1. ASSUME NEW name \in request'.names \cap storage' PROVE Pending(name)' \/ Spared(name)'
    <3>1. CASE name = n
      BY <3>1, <2>1, <1>1, <1>5, <1>6 DEF Spared
    <3>2. CASE name # n
      <4>1. Pending(name) \/ Spared(name)
        BY <2>1, <1>1, <1>4, <1>5 DEF SubjectInv, Followed
      <4>2. Pending(name) => Pending(name)'
        BY <3>2, <1>3, <1>4 DEF Pending
      <4>3. Spared(name) => Spared(name)'
        BY <1>1, <1>4, <1>6 DEF Spared
      <4> QED
        BY <4>1, <4>2, <4>3
    <3> QED
      BY <3>1, <3>2
  <2> QED
    BY <2>1, <1>1, <1>4 DEF SubjectInv, Followed
<1>10. SubjectServed' /\ Recorded' /\ Exported'
  BY <1>1, <1>4, RecordKept DEF Exported
<1> QED
  BY <1>6, <1>7, <1>8, <1>9, <1>10 DEF SubjectInv

LEMMA FilesAreDone ==
  ASSUME SubjectInv, FilesDone
  PROVE  SubjectInv'
<1>1. UNCHANGED <<kind, records, storage, bundle, audit>> /\ request.phase = "files" /\ request.files = {}
  BY DEF FilesDone
<1>2. SubjectTypes /\ request \in Requests
  BY DEF SubjectInv, SubjectTypes
<1>3. /\ request'.phase = "index" /\ request'.data = request.data /\ request'.names = request.names
      /\ request'.files = request.files /\ request'.report = request.report /\ request'.failed = request.failed
      /\ request'.matched = request.matched /\ request'.left = request.left
      /\ request' \in Requests
  BY <1>2 DEF FilesDone, Go, Requests
<1>4. OneModel' /\ PresentRecords' = PresentRecords /\ \A k : Model(k)' = Model(k)
  BY <1>1, RowsKept
<1>5. SubjectTypes'
  BY <1>1, <1>2, <1>3 DEF SubjectTypes
<1>6. Matched' /\ Collected'
  BY <1>1, <1>3, <1>4 DEF SubjectInv, Matched, Collected, Indexed, Doomed, ErasurePhases
<1>7. Followed'
  BY <1>1, <1>3, <1>4 DEF SubjectInv, Followed, Pending, Spared
<1>8. SubjectServed' /\ Recorded' /\ Exported'
  BY <1>1, <1>3, RecordKept DEF Exported
<1> QED
  BY <1>4, <1>5, <1>6, <1>7, <1>8 DEF SubjectInv

LEMMA ErasesDocument ==
  ASSUME SubjectInv, NEW k \in Records, EraseDocument(k)
  PROVE  SubjectInv'
<1>1. /\ UNCHANGED <<kind, storage, bundle, audit>> /\ request.phase = "index"
      /\ k \in request.left /\ kind[k] = "index" /\ records' = [records EXCEPT ![k] = Gone]
      /\ request' = [request EXCEPT !.left = request.left \ {k}]
  BY DEF EraseDocument
<1>2. SubjectTypes /\ request \in Requests
  BY DEF SubjectInv, SubjectTypes
<1>3. /\ request'.phase = "index" /\ request'.data = request.data /\ request'.names = request.names
      /\ request'.files = request.files /\ request'.report = request.report /\ request'.failed = request.failed
      /\ request'.matched = request.matched /\ request'.left = request.left \ {k}
      /\ request' \in Requests
  BY <1>1, <1>2 DEF Requests
<1>4. /\ records'[k] = Gone /\ \A j \in Records \ {k} : records'[j] = records[j]
      /\ records' \in [Records -> Uploads \cup {NoFile, NotYet, Gone}]
  BY <1>1, <1>2 DEF SubjectTypes
<1>5. SubjectTypes'
  BY <1>1, <1>2, <1>3, <1>4 DEF SubjectTypes
<1>6. OneModel'
  BY <1>1, <1>4, SubjectAssumption DEF SubjectInv, OneModel, Model
<1>7. Matched'
  BY <1>1, <1>2, <1>3, <1>4 DEF SubjectInv, Matched, Indexed, ErasurePhases, Requests, NotYet, Gone
<1>8. Collected'
  <2>1. Gone \notin request.names
    BY <1>2, SubjectAssumption DEF Requests
  <2>2. \A j \in Records : kind[j] \in {"index", "fast"} => records'[j] \notin request.names
    BY <1>1, <1>4, <2>1 DEF SubjectInv, Collected, ErasurePhases
  <2>3. Doomed' = Doomed
    BY <1>1, <1>3 DEF Doomed
  <2> QED
    BY <1>1, <1>3, <2>2, <2>3 DEF SubjectInv, Collected, ErasurePhases
<1>9. Followed'
  <2>1. ASSUME NEW name \in request.names, Spared(name) PROVE Spared(name)'
    <3>1. records[k] \notin request.names
      BY <1>1 DEF SubjectInv, Collected, ErasurePhases
    <3> QED
      BY <2>1, <3>1, <1>3, <1>4 DEF Spared, PresentRecords
  <2>2. \A j \in request.data : records'[j] = Gone
    BY <1>1, <1>2, <1>4 DEF SubjectInv, Followed, Requests
  <2> QED
    BY <1>1, <1>3, <2>1, <2>2 DEF SubjectInv, Followed, Pending
<1>10. SubjectServed' /\ Recorded' /\ Exported'
  BY <1>1, <1>3, RecordKept DEF Exported
<1> QED
  BY <1>5, <1>6, <1>7, <1>8, <1>9, <1>10 DEF SubjectInv

\* The entry of an erasure: rows and documents are apart, so the report adds up.
LEMMA RecordsDeletion ==
  ASSUME SubjectInv, RecordDeletion
  PROVE  SubjectInv'
<1> DEFINE rows == request.data \union request.matched
           entry == [action |-> "delete", rows |-> rows,
                     report |-> request.report, names |-> request.names, failed |-> request.failed]
<1>1. /\ UNCHANGED <<kind, records, storage, bundle>> /\ request.phase = "index" /\ request' = NoRequest
      /\ \A k \in request.left : kind[k] # "index"
  BY DEF RecordDeletion
<1>2. SubjectTypes /\ request \in Requests
  BY DEF SubjectInv, SubjectTypes
<1>3. OneModel' /\ PresentRecords' = PresentRecords /\ \A k : Model(k)' = Model(k)
  BY <1>1, RowsKept
<1>4. request.data \subseteq Records /\ request.matched \subseteq Records /\ request.names \subseteq Uploads
  BY <1>2 DEF Requests
<1>5. \A k \in rows : records[k] = Gone
  <2>1. \A k \in Indexed : records[k] = Gone
    BY <1>1 DEF SubjectInv, Matched, Indexed, ErasurePhases
  <2>2. request.matched \subseteq request.data \cup Indexed
    BY <1>1, <1>4 DEF SubjectInv, Collected, Doomed, Indexed, ErasurePhases
  <2> QED
    BY <2>1, <2>2, <1>1 DEF SubjectInv, Followed
<1>6. request.report = Cardinality(rows)
  <2>1. request.matched \ Doomed = Indexed
    BY <1>4 DEF Doomed, Indexed
  <2>2. request.data \cap Indexed = {}
    BY <1>1 DEF SubjectInv, Collected, Indexed, ErasurePhases
  <2>3. IsFiniteSet(request.data) /\ IsFiniteSet(Indexed)
    BY <1>4, SubjectAssumption, FS_Subset DEF Indexed
  <2>4. rows = request.data \cup Indexed
    BY <1>1, <1>4 DEF SubjectInv, Collected, Doomed, Indexed, ErasurePhases
  <2>5. Cardinality(rows) = Cardinality(request.data) + Cardinality(Indexed) - Cardinality({})
    BY <2>2, <2>3, <2>4, FS_Union
  <2>6. Cardinality(request.data) \in Nat /\ Cardinality(Indexed) \in Nat /\ Cardinality({}) = 0
    BY <2>3, FS_CardinalityType, FS_EmptySet
  <2>7. request.report = Cardinality(request.data) + Cardinality(Indexed)
    BY <1>1, <2>1 DEF SubjectInv, Collected, ErasurePhases
  <2> QED
    BY <2>5, <2>6, <2>7
<1>7. \A name \in request.names \cap storage : Spared(name)
  BY <1>1 DEF SubjectInv, Followed, Pending
<1>8. /\ audit'.action = "delete" /\ audit'.rows = rows /\ audit'.report = request.report
      /\ audit'.names = request.names /\ audit'.failed = request.failed
  <2>1. audit' = entry
    BY DEF RecordDeletion
  <2> HIDE DEF rows
  <2> QED
    BY <2>1
<1> HIDE DEF entry, rows
<1>9. ErasureComplete'
  <2>1. rows \cap PresentRecords = {}
    BY <1>5 DEF PresentRecords
  <2> QED
    BY <1>1, <1>3, <1>6, <1>7, <1>8, <2>1 DEF ErasureComplete, Spared
<1>10. ExportComplete'
  BY <1>8 DEF ExportComplete
<1>11. Recorded'
  BY <1>1, <1>5, <1>8 DEF Recorded, NoRequest
<1>12. SubjectTypes'
  <2>1. NoRequest \in Requests
    BY DEF Requests, NoRequest
  <2> QED
    BY <1>1, <1>2, <2>1 DEF SubjectTypes
<1>13. Matched' /\ Collected' /\ Followed' /\ Exported'
  BY <1>1 DEF Matched, Collected, Followed, Exported, NoRequest, Indexed, ErasurePhases
<1> QED
  BY <1>3, <1>9, <1>10, <1>11, <1>12, <1>13 DEF SubjectInv, SubjectServed

\* A step of an export, which only adds or seals files.
LEMMA Exports ==
  ASSUME SubjectInv, request.phase \in {"export", "rows", "seal"}, UNCHANGED <<kind, records, storage, audit>>,
         request' \in Requests, request'.phase \in {"export", "rows", "seal", "record"},
         request'.matched = request.matched, request'.left \subseteq request.left,
         bundle' \subseteq ExportFiles, Exported'
  PROVE  SubjectInv'
<1>1. OneModel'
  BY RowsKept
<1>2. SubjectTypes'
  BY DEF SubjectInv, SubjectTypes
<1>3. Matched' /\ Collected' /\ Followed'
  BY DEF SubjectInv, Matched, Collected, Followed, Indexed, ErasurePhases
<1>4. SubjectServed' /\ Recorded'
  BY RecordKept
<1> QED
  BY <1>1, <1>2, <1>3, <1>4 DEF SubjectInv

LEMMA CountsRows ==
  ASSUME SubjectInv, NEW m \in Kinds, CountRows(m)
  PROVE  SubjectInv'
<1> DEFINE rest == { k \in Records : Model(k) = m /\ kind[k] \in {"path", "index"} }
           counted == Cardinality(OfModel(Found, m))
<1>1. /\ UNCHANGED <<kind, records, storage, bundle, audit>> /\ request.phase = "export"
      /\ request' = [request EXCEPT !.phase = "rows", !.model = m, !.counted = counted, !.rest = rest]
  BY DEF CountRows
<1>2. request \in Requests /\ bundle \subseteq ExportFiles
  BY DEF SubjectInv, SubjectTypes
<1>3. counted \in Nat
  <2>1. OfModel(Found, m) \subseteq Records
    BY DEF OfModel, Found, Of, PresentRecords
  <2> QED
    BY <2>1, SubjectAssumption, FS_Subset, FS_CardinalityType
<1>r. rest \subseteq Records
  OBVIOUS
<1>k. \A k \in OfModel(request.matched, m) : k \in rest
  BY <1>2 DEF SubjectInv, Matched, OfModel, Requests
<1> HIDE DEF counted, rest
<1>4. /\ request'.phase = "rows" /\ request'.model = m /\ request'.rest = rest /\ request'.matched = request.matched
      /\ request'.left = request.left /\ request' \in Requests
  BY <1>1, <1>2, <1>3, <1>r DEF Requests
<1>5. Exported'
  <2>1. \A k : Model(k)' = Model(k)
    BY <1>1 DEF Model
  <2>2. PresentRecords' = PresentRecords
    BY <1>1 DEF PresentRecords
  <2> QED
    BY <1>1, <1>4, <1>k, <2>1, <2>2 DEF SubjectInv, Exported, Models, OfModel, Bundled
<1> QED
  BY <1>1, <1>2, <1>4, <1>5, Exports

LEMMA ReadsRow ==
  ASSUME SubjectInv, NEW k \in Records, ReadRow(k)
  PROVE  SubjectInv'
<1> DEFINE rows == request.rows \cup ({k} \cap PresentRecords)
<1>1. /\ UNCHANGED <<kind, records, storage, bundle, audit>> /\ request.phase = "rows"
      /\ request' = [request EXCEPT !.rest = request.rest \ {k}, !.rows = rows]
  BY DEF ReadRow
<1>2. request \in Requests /\ bundle \subseteq ExportFiles
  BY DEF SubjectInv, SubjectTypes
<1>3. rows \subseteq Records /\ request.rows \subseteq rows /\ (k \in PresentRecords => k \in rows)
  BY <1>2 DEF Requests
<1> HIDE DEF rows
<1>4. /\ request'.phase = "rows" /\ request'.model = request.model /\ request'.rest = request.rest \ {k}
      /\ request'.rows = rows /\ request'.matched = request.matched
      /\ request'.left = request.left /\ request' \in Requests
  BY <1>1, <1>2, <1>3 DEF Requests
<1>5. Exported'
  <2>1. \A j : Model(j)' = Model(j)
    BY <1>1 DEF Model
  <2>2. PresentRecords' = PresentRecords
    BY <1>1 DEF PresentRecords
  <2>3. \A m : OfModel(request.matched, m)' = OfModel(request.matched, m)
    BY <1>4, <2>1 DEF OfModel
  <2>4. OfModel(request.matched, request.model)' = OfModel(request.matched, request.model)
    BY <1>4, <2>1 DEF OfModel
  <2> QED
    BY <1>1, <1>3, <1>4, <2>1, <2>2, <2>3, <2>4 DEF SubjectInv, Exported, Models, OfModel, Bundled
<1> QED
  BY <1>1, <1>2, <1>4, <1>5, Exports

LEMMA EndsModel ==
  ASSUME SubjectInv, EndModel
  PROVE  SubjectInv'
<1> DEFINE m == request.model
           found == OfModel(request.matched, m)
           f == [model |-> m, rows |-> request.rows, sealed |-> FALSE]
           next == [request EXCEPT !.phase = "export", !.left = request.left \ found, !.model = "none",
                                   !.counted = 0, !.rows = {}]
<1>1. /\ UNCHANGED <<kind, records, storage, audit>> /\ request.phase = "rows" /\ bundle' = bundle \cup {f}
      /\ request.rest = {} /\ (request' = NoRequest \/ request' = next)
  BY DEF EndModel
<1>2. SubjectTypes /\ request \in Requests /\ bundle \subseteq ExportFiles
  BY DEF SubjectInv, SubjectTypes
<1>m. m \in Kinds /\ found \cap PresentRecords \subseteq request.rows
  BY <1>1 DEF SubjectInv, Exported
<1>3. bundle' \subseteq ExportFiles
  <2>1. f \in ExportFiles
    BY <1>2, <1>m DEF ExportFiles, Requests
  <2> QED
    BY <1>1, <1>2, <2>1
<1>4. CASE request' = NoRequest
  <2>1. audit = NoAuditEntry
    BY <1>1 DEF SubjectInv, Recorded
  <2> QED
    BY <1>1, <1>3, <1>4, <2>1, RequestOver
<1>5. CASE request' = next
  <2>1. /\ request'.phase = "export" /\ request'.matched = request.matched
        /\ request'.left = request.left \ found /\ request' \in Requests
    BY <1>1, <1>2, <1>5 DEF Requests
  <2>2. (\A k : Model(k)' = Model(k)) /\ PresentRecords' = PresentRecords
    BY <1>1 DEF Model, PresentRecords
  <2>3. ASSUME NEW n \in Models(request.matched)
        PROVE  n \in Models(request.left \ found) \/ \E g \in bundle' : g.model = n
                  /\ OfModel(request.matched, n) \cap PresentRecords \subseteq g.rows
    <3>1. CASE n = m
      <4>1. f.model = m /\ f.rows = request.rows /\ f \in bundle'
        BY <1>1
      <4> HIDE DEF f
      <4> QED
        BY <3>1, <4>1, <1>m
    <3>2. CASE n # m
      <4>1. n \in Models(request.left) \/ Bundled(n, request.matched)
        BY <1>1 DEF SubjectInv, Exported
      <4>2. n \in Models(request.left) => n \in Models(request.left \ found)
        BY <3>2 DEF Models, OfModel
      <4> HIDE DEF f, found
      <4> QED
        BY <4>1, <4>2, <1>1 DEF Bundled
    <3> QED
      BY <3>1, <3>2
  <2>4. Exported'
    <3> HIDE DEF f, found, next
    <3> QED
      BY <2>1, <2>2, <2>3 DEF Exported, Models, OfModel, Bundled
  <2> QED
    BY <1>1, <1>3, <2>1, <2>4, Exports
<1> QED
  BY <1>1, <1>4, <1>5

LEMMA SavesManifest ==
  ASSUME SubjectInv, SaveManifest
  PROVE  SubjectInv'
<1> DEFINE f == [model |-> "manifest", rows |-> {}, sealed |-> FALSE]
<1>1. /\ UNCHANGED <<kind, records, storage, audit>> /\ request.phase = "export" /\ bundle' = bundle \cup {f}
      /\ request.left = {}
  BY DEF SaveManifest
<1>2. request \in Requests /\ bundle \subseteq ExportFiles
  BY DEF SubjectInv, SubjectTypes
<1>3. bundle' \subseteq ExportFiles
  <2>1. f \in ExportFiles
    BY DEF ExportFiles
  <2> QED
    BY <1>1, <1>2, <2>1
<1>4. /\ request'.phase \in {"seal", "record"} /\ (request'.phase = "record" => ~request'.seal)
      /\ request'.matched = request.matched /\ request'.left = request.left /\ request' \in Requests
  BY <1>2 DEF SaveManifest, Go, Requests
<1> HIDE DEF f
<1>5. Exported'
  <2>1. \A m \in Models(request.matched) : Bundled(m, request.matched)
    BY <1>1 DEF SubjectInv, Exported, Models
  <2>2. \A k : Model(k)' = Model(k)
    BY <1>1 DEF Model
  <2>3. \A m \in Models(request.matched) : \E g \in bundle' : g.model = m
           /\ OfModel(request.matched, m) \cap PresentRecords \subseteq g.rows
    BY <2>1, <1>1 DEF Bundled
  <2>4. PresentRecords' = PresentRecords
    BY <1>1 DEF PresentRecords
  <2> QED
    BY <1>4, <2>2, <2>3, <2>4 DEF Exported, Models, OfModel, Bundled
<1> QED
  BY <1>1, <1>3, <1>4, <1>5, Exports

LEMMA SealsFile ==
  ASSUME SubjectInv, NEW f \in bundle, SealFile(f)
  PROVE  SubjectInv'
<1> DEFINE g == [f EXCEPT !.sealed = TRUE]
<1>1. /\ UNCHANGED <<kind, records, storage, audit, request>> /\ request.phase = "seal"
      /\ bundle' = (bundle \ {f}) \cup {g}
  BY DEF SealFile
<1>2. request \in Requests /\ bundle \subseteq ExportFiles
  BY DEF SubjectInv, SubjectTypes
<1>3. g \in ExportFiles /\ g.model = f.model /\ g.rows = f.rows /\ g \in bundle'
  BY <1>1, <1>2 DEF ExportFiles
<1> HIDE DEF g
<1>4. Exported'
  <2>1. \A k : Model(k)' = Model(k)
    BY <1>1 DEF Model
  <2>2. \A m \in Models(request.matched) : \E h \in bundle' : h.model = m
           /\ OfModel(request.matched, m) \cap PresentRecords \subseteq h.rows
    BY <1>1, <1>3 DEF SubjectInv, Exported, Bundled
  <2>3. PresentRecords' = PresentRecords
    BY <1>1 DEF PresentRecords
  <2> QED
    BY <1>1, <2>1, <2>2, <2>3 DEF Exported, Models, OfModel, Bundled
<1> QED
  BY <1>1, <1>2, <1>3, <1>4, Exports

LEMMA BundleIsSealed ==
  ASSUME SubjectInv, BundleSealed
  PROVE  SubjectInv'
<1>1. /\ UNCHANGED <<kind, records, storage, bundle, audit>> /\ request.phase = "seal" /\ Plaintext = {}
  BY DEF BundleSealed
<1>2. request \in Requests /\ bundle \subseteq ExportFiles
  BY DEF SubjectInv, SubjectTypes
<1>3. /\ request'.phase = "record" /\ request'.seal = request.seal
      /\ request'.matched = request.matched /\ request'.left = request.left /\ request' \in Requests
  BY <1>2 DEF BundleSealed, Go, Requests
<1>4. Exported'
  <2>1. \A k : Model(k)' = Model(k)
    BY <1>1 DEF Model
  <2> QED
    BY <1>1, <1>3, <2>1 DEF SubjectInv, Exported, Models, OfModel, Bundled, Plaintext, PresentRecords
<1> QED
  BY <1>1, <1>2, <1>3, <1>4, Exports

LEMMA RecordsExport ==
  ASSUME SubjectInv, RecordExport
  PROVE  SubjectInv'
<1>1. /\ UNCHANGED <<kind, records, storage, bundle>> /\ request.phase = "record" /\ request' = NoRequest
      /\ audit' = [action |-> "export", rows |-> request.matched, seal |-> request.seal]
  BY DEF RecordExport
<1>2. OneModel' /\ PresentRecords' = PresentRecords /\ \A k : Model(k)' = Model(k)
  BY <1>1, RowsKept
<1>3. audit'.action = "export" /\ audit'.rows = request.matched /\ audit'.seal = request.seal
  BY <1>1
<1>4. ErasureComplete'
  BY <1>3 DEF ErasureComplete
<1>5. ExportComplete'
  BY <1>1, <1>2, <1>3 DEF SubjectInv, Exported, ExportComplete, Bundled, Models, OfModel, Plaintext
<1>6. Recorded'
  BY <1>1, <1>3 DEF Recorded, NoRequest, SubjectInv, Matched
<1>7. SubjectTypes'
  <2>1. NoRequest \in Requests
    BY DEF Requests, NoRequest
  <2> QED
    BY <1>1, <2>1 DEF SubjectInv, SubjectTypes
<1>8. Matched' /\ Collected' /\ Followed' /\ Exported'
  BY <1>1 DEF Matched, Collected, Followed, Exported, NoRequest, Indexed, ErasurePhases
<1> QED
  BY <1>2, <1>4, <1>5, <1>6, <1>7, <1>8 DEF SubjectInv, SubjectServed

\* A subject request that is recorded as served was served (_run_delete and
\* _run_export): for any rows, files and layouts, any number of requests, of
\* changes the application makes while one runs, and of failures and kills, an
\* erasure on record took all it counted and left no file but the reported and
\* the shared, and an export on record is whole and, if asked for, sealed.
THEOREM SubjectServedHolds == SubjectSpec => []SubjectServed
<1>1. SubjectInit => SubjectInv
  <2> SUFFICES ASSUME SubjectInit PROVE SubjectInv
    OBVIOUS
  <2>1. SubjectTypes
    <3>1. NoRequest \in Requests
      BY DEF Requests, NoRequest
    <3> QED
      BY <3>1 DEF SubjectInit, SubjectTypes
  <2>2. OneModel
    BY DEF SubjectInit, OneModel
  <2>3. Matched /\ Collected /\ Followed /\ Exported /\ Recorded
    BY DEF SubjectInit, Matched, Collected, Followed, Exported, Recorded, NoRequest, NoAuditEntry, Indexed, ErasurePhases
  <2>4. SubjectServed
    BY DEF SubjectInit, SubjectServed, ErasureComplete, ExportComplete, NoAuditEntry
  <2> QED
    BY <2>1, <2>2, <2>3, <2>4 DEF SubjectInv
<1>2. SubjectInv /\ [SubjectNext]_subjectVars => SubjectInv'
  <2> SUFFICES ASSUME SubjectInv, [SubjectNext]_subjectVars PROVE SubjectInv'
    OBVIOUS
  <2>1. CASE \E k \in Records : Add(k) \/ RemoveRecord(k) \/ \E j \in Records : Adopt(k, j)
    BY <2>1, ApplicationStep, RowRemoved
  <2>2. CASE \E confirm \in BOOLEAN : BeginRequest("delete", confirm, FALSE)
    BY <2>2, RequestBegins
  <2>3. CASE \E seal \in Recipients : BeginRequest("export", FALSE, seal)
    BY <2>3, RequestBegins, SubjectAssumption
  <2>4. CASE RequestKilled \/ EraseFails \/ DryRun
    BY <2>4, RequestOver DEF RequestKilled, EraseFails, DryRun, Abort, SubjectInv, SubjectTypes
  <2>5. CASE Walk \/ Erase \/ FilesDone \/ RecordDeletion
    BY <2>5, WalkInv, EraseInv, FilesAreDone, RecordsDeletion
  <2>6. CASE \E entry \in request.files : RemoveUpload(entry) \/ RemoveUploadFails(entry)
    BY <2>6, Removes
  <2>7. CASE \E k \in Records : EraseDocument(k) \/ ReadRow(k)
    BY <2>7, ErasesDocument, ReadsRow
  <2>8. CASE EndModel \/ \E m \in Kinds : CountRows(m)
    BY <2>8, CountsRows, EndsModel
  <2>9. CASE SaveManifest \/ BundleSealed \/ RecordExport
    BY <2>9, SavesManifest, BundleIsSealed, RecordsExport
  <2>10. CASE \E f \in bundle : SealFile(f)
    BY <2>10, SealsFile
  <2>11. CASE UNCHANGED subjectVars
    BY <2>11, SubjectQuiet
  <2> QED
    BY <2>1, <2>2, <2>3, <2>4, <2>5, <2>6, <2>7, <2>8, <2>9, <2>10, <2>11 DEF SubjectNext
<1>3. SubjectInv => SubjectServed
  BY DEF SubjectInv
<1> QED
  BY <1>1, <1>2, <1>3, PTL DEF SubjectSpec
===============================================================================
