-------------------------- MODULE BackupRunsProofs --------------------------
(***************************************************************************)
(* Scheduled backups for any destinations, overlapping passes, bundle size *)
(* and retention policy: what a destination reported stored stays whole    *)
(* until KeepLast later runs have reached it, and no window is skipped     *)
(* (BackupRuns). A dump of any length through pipes of any size never      *)
(* stops with everyone waiting, and only a whole one is published          *)
(* (StreamedDump).                                                         *)
(***************************************************************************)
EXTENDS BackupRuns, StreamedDump, FiniteSetTheorems, WellFoundedInduction, TLAPS

Files == [stamp : Stamps, part : 1..Parts]
Reports == [stamp : Stamps, at : Times]
Entries == [last : Times \cup {-1}, planned : Int]
States == [Dests -> Entries]
Steps == {"idle", "dump", "copy", "prune", "save", "write"}
PassTypes == [step : Steps, stamp : 0..MaxBackups, todo : SUBSET Dests, part : 0..Parts, state : States]

TypeInv ==
  /\ now \in Times /\ aligned \in Alignments /\ runs \in 0..MaxBackups
  /\ entry \in States
  /\ files \in [Dests -> SUBSET Files] /\ torn \in [Dests -> SUBSET Files]
  /\ \A d \in Dests : torn[d] \subseteq files[d]
  /\ pass \in [Passes -> PassTypes]
  /\ done \in [Dests -> SUBSET Reports]

Busy(p) == pass[p].step # "idle"
Uploading(p) == pass[p].step \in {"copy", "prune"}

\* Where a pass is. Its stamp is no other pass's.
PlaceAt(e, n) ==
  /\ e.step = "idle" => e = IdlePass
  /\ e.step # "idle" => e.stamp \in 1..n
  /\ e.step \in {"dump", "copy", "prune"} => e.todo # {}
  /\ e.step \in {"save", "write"} => e.todo = {}
  /\ e.step \in {"copy", "prune"} => e.part \in 1..Parts
Place == \A p \in Passes : PlaceAt(pass[p], runs)
Distinct == \A p, q \in Passes : Busy(p) /\ Busy(q) /\ p # q => pass[p].stamp # pass[q].stamp

\* A destination has nothing of a run to come, and of a run that has still to
\* reach it neither a broken file nor a report.
Begun == \A d \in Dests : (\A f \in files[d] : f.stamp <= runs) /\ (\A b \in done[d] : b.stamp <= runs)
Clean(T, D, r) == (\A f \in T : f.stamp # r) /\ (\A b \in D : b.stamp # r)
Ahead == \A p \in Passes : \A d \in pass[p].todo : Clean(torn[d], done[d], pass[p].stamp)

\* A part of a run is there unbroken, or KeepLast later runs are.
LaterIn(F, r) == {f.stamp : f \in {g \in F : g.stamp > r}}
Safe(F, T, r, i) == File(r, i) \in F \ T \/ Cardinality(LaterIn(F, r)) >= KeepLast
Past(e, i) == i < e.part \/ (i = e.part /\ e.step = "prune")
Reported == \A d \in Dests : \A b \in done[d] : \A i \in 1..Parts : Safe(files[d], torn[d], b.stamp, i)
CopiedBy(p) ==
  Uploading(p) => \A i \in 1..Parts :
    Past(pass[p], i) => Safe(files[Dest(p)], torn[Dest(p)], pass[p].stamp, i)
Copied == \A p \in Passes : CopiedBy(p)

IInv == TypeInv /\ Place /\ Distinct /\ Begun /\ Ahead /\ Reported /\ Copied

-----------------------------------------------------------------------------
\* With aligned slots, passes begin when they are due and do not overlap.
Setting == Disciplined \/ TRUE \notin Alignments

\* An entry is that of a bundle its destination reported.
Backed(e, D) ==
  /\ e.last # -1 => \E b \in D : e.last = b.at
  /\ e.planned # -1 => \E b \in D : e.planned <= b.at + Grace
AllBacked ==
  \A d \in Dests : Backed(entry[d], done[d]) /\ \A p \in Passes : Backed(pass[p].state[d], done[d])

\* An aligned pass is alone, and what it has still to do is due.
OnlyOne == aligned => \A p, q \in Passes : Busy(p) /\ Busy(q) => p = q
DueAt(t, e) == e.planned = -1 \/ t >= e.planned + Interval - Grace
ToDoDue(e, known, t) ==
  \A d \in e.todo : /\ e.step = "dump" => DueAt(t, known[d])
                    /\ e.step \in {"copy", "prune"} => DueAt(t, e.state[d])
StillDue == aligned => \A p \in Passes : ToDoDue(pass[p], entry, now)

FreshInv == AllBacked /\ OnlyOne /\ StillDue

-----------------------------------------------------------------------------
(* The constants, parts and values.                                        *)

LEMMA Assumed ==
  /\ Dests \subseteq Nat \ {0} /\ Alignments \subseteq BOOLEAN
  /\ Parts \in Nat \ {0} /\ Interval \in Nat \ {0} /\ DayLength \in Nat \ {0}
  /\ KeepLast \in Nat /\ MaxTime \in Nat /\ MaxBackups \in Nat
  /\ Grace \in Nat /\ Grace < Interval
  BY BackupAssumption

LEMMA IdleType ==
  /\ IdlePass \in PassTypes /\ IdlePass.step = "idle" /\ IdlePass.todo = {}
  /\ IdlePass.state = [d \in Dests |-> NoEntry] /\ NoEntry \in Entries
  BY Assumed DEF IdlePass, PassTypes, Steps, States, Entries, NoEntry

LEMMA LeastIn ==
  ASSUME NEW S \in SUBSET Nat, S # {}
  PROVE  Least(S) \in S
  <1>1. PICK x \in S : \A y \in S : <<y, x>> \notin OpToRel(<, Nat)
    BY NatLessThanWellFounded, WFMin
  <1>2. ASSUME NEW y \in S PROVE x <= y
    <2>1. x \in Nat /\ y \in Nat
      OBVIOUS
    <2>2. ~(y < x)
      BY <1>1, <2>1 DEF OpToRel
    <2> QED BY <2>1, <2>2
  <1> QED BY <1>2 DEF Least

LEMMA DestIn ==
  ASSUME TypeInv, Place, NEW p \in Passes, Uploading(p)
  PROVE  Dest(p) \in pass[p].todo /\ Dest(p) \in Dests
  <1>1. pass[p].todo # {} /\ pass[p].todo \subseteq Dests
    BY DEF TypeInv, PassTypes, Place, PlaceAt, Uploading
  <1> QED BY <1>1, LeastIn, Assumed DEF Dest

LEMMA InitInv == BackupInit => IInv
  <1> SUFFICES ASSUME BackupInit PROVE IInv
    OBVIOUS
  <1>1. TypeInv
    BY IdleType, Assumed DEF BackupInit, TypeInv, Times, States
  <1>2. Place /\ Distinct /\ Copied
    BY IdleType, Assumed DEF BackupInit, Place, PlaceAt, Distinct, Busy, Copied, CopiedBy, Uploading
  <1>3. Begun /\ Reported
    BY DEF BackupInit, Begun, Reported
  <1>4. Ahead
    BY IdleType DEF BackupInit, Ahead
  <1> QED BY <1>1, <1>2, <1>3, <1>4 DEF IInv

-----------------------------------------------------------------------------
(* What retention leaves.                                                  *)

LEMMA Finite ==
  /\ \A S \in SUBSET Stamps : IsFiniteSet(S) /\ Cardinality(S) \in Nat
  /\ \A S \in SUBSET Stamps : \A T \in SUBSET S : Cardinality(T) <= Cardinality(S)
  <1>1. IsFiniteSet(Stamps)
    BY FS_Interval, Assumed DEF Stamps
  <1> QED BY <1>1, FS_Subset, FS_CardinalityType

\* A set of stamps has a newest.
LEMMA Greatest ==
  ASSUME NEW S \in SUBSET Stamps, S # {}
  PROVE  \E m \in S : \A x \in S : x <= m
  <1> DEFINE T == {MaxBackups - x : x \in S}
  <1>1. S \subseteq 1..MaxBackups /\ MaxBackups \in Nat
    BY Assumed DEF Stamps
  <1>2. T \in SUBSET Nat /\ T # {}
    <2>1. \A x \in S : MaxBackups - x \in Nat
      BY <1>1
    <2>2. PICK x \in S : MaxBackups - x \in T
      OBVIOUS
    <2> QED BY <2>1, <2>2
  <1>3. PICK t \in T : \A u \in T : <<u, t>> \notin OpToRel(<, Nat)
    <2> HIDE DEF T
    <2> QED BY <1>2, NatLessThanWellFounded, WFMin
  <1>4. PICK m \in S : t = MaxBackups - m
    BY <1>3
  <1>5. ASSUME NEW x \in S PROVE x <= m
    <2>1. MaxBackups - x \in T
      OBVIOUS
    <2>3. MaxBackups - x \in Nat /\ t \in Nat
      <3> HIDE DEF T
      <3> QED BY <1>1, <1>2, <1>3, <2>1
    <2>2. ~(MaxBackups - x < t)
      BY <1>3, <2>1, <2>3 DEF OpToRel
    <2> QED BY <1>1, <1>4, <2>2, <2>3
  <1> QED BY <1>5

\* What the newest n leave out is older than n of them.
LEMMA ManyKept ==
  ASSUME NEW S \in SUBSET Stamps, NEW n \in Nat, NEW x \in S, x \notin NewestStamps(S, n)
  PROVE  \E M \in SUBSET NewestStamps(S, n) : Cardinality(M) >= n /\ \A y \in M : y > x
  <1> DEFINE Out == S \ NewestStamps(S, n)
  <1>1. PICK m \in Out : \A y \in Out : y <= m
    <2>1. Out \in SUBSET Stamps /\ Out # {}
      OBVIOUS
    <2> HIDE DEF Out
    <2> QED BY <2>1, Greatest
  <1> DEFINE M == {y \in S : y > m}
  <1>2. \A y \in S : y \in Nat
    BY DEF Stamps
  <1>3. M \subseteq NewestStamps(S, n) /\ \A y \in M : y > x
    BY <1>1, <1>2
  <1>4. Cardinality(M) >= n
    <2>1. ~(Cardinality(M) < n)
      BY <1>1 DEF NewestStamps
    <2>2. M \in SUBSET Stamps
      OBVIOUS
    <2>3. Cardinality(M) \in Nat
      BY <2>2, Finite
    <2> HIDE DEF M
    <2> QED BY <2>1, <2>3
  <1> QED BY <1>3, <1>4

LEMMA Laters ==
  ASSUME NEW F \in SUBSET Files, NEW r
  PROVE  /\ LaterIn(F, r) \in SUBSET Stamps
         /\ Cardinality(LaterIn(F, r)) \in Nat
         /\ \A G \in SUBSET Files : F \subseteq G =>
              Cardinality(LaterIn(F, r)) <= Cardinality(LaterIn(G, r))
  <1>1. \A G \in SUBSET Files : LaterIn(G, r) \in SUBSET Stamps
    BY DEF LaterIn, Files
  <1>2. \A G \in SUBSET Files : F \subseteq G => LaterIn(F, r) \subseteq LaterIn(G, r)
    BY DEF LaterIn
  <1> QED BY <1>1, <1>2, Finite

\* A file that retention lets go is older than KeepLast runs it keeps.
LEMMA StaleOld ==
  ASSUME NEW F \in SUBSET Files, NEW i \in 1..Parts, NEW gone \in SUBSET StaleFiles(F, i),
         NEW f \in gone, NEW r \in Nat, f.stamp >= r
  PROVE  Cardinality(LaterIn(F \ gone, r)) >= KeepLast
  <1> DEFINE own == OfPart(F, i)
             S == {g.stamp : g \in own}
             n == IF KeepLast > 1 THEN KeepLast ELSE 1
  <1>1. n \in Nat /\ n >= KeepLast
    BY Assumed
  <1>2. own \subseteq F /\ S \in SUBSET Stamps
    BY DEF OfPart, Files
  <1>3. f \in own /\ f.stamp \notin Kept(S)
    BY DEF StaleFiles
  <1>4. f.stamp \in S /\ f.stamp \notin NewestStamps(S, n)
    BY <1>3 DEF Kept
  <1>5. PICK M \in SUBSET NewestStamps(S, n) : Cardinality(M) >= n /\ \A y \in M : y > f.stamp
    <2> HIDE DEF S, n
    <2> QED BY <1>1, <1>2, <1>4, ManyKept
  <1>6. M \subseteq LaterIn(F \ gone, r)
    <2> SUFFICES ASSUME NEW y \in M PROVE y \in LaterIn(F \ gone, r)
      OBVIOUS
    <2>1. y \in S /\ y \in Kept(S)
      BY DEF NewestStamps, Kept
    <2>2. PICK g \in own : g.stamp = y
      BY <2>1
    <2>3. g \in F \ gone
      BY <1>2, <2>1, <2>2 DEF StaleFiles
    <2>4. y > f.stamp
      BY <1>5
    <2>5. f.stamp \in Stamps /\ y \in Stamps /\ g.stamp = y
      BY <1>2, <1>4, <2>1, <2>2
    <2> HIDE DEF S, n, own
    <2>6. g.stamp > r
      BY <2>4, <2>5 DEF Stamps
    <2> QED BY <2>2, <2>3, <2>6 DEF LaterIn
  <1>7. LaterIn(F \ gone, r) \in SUBSET Stamps
    BY Laters
  <1>8. Cardinality(M) <= Cardinality(LaterIn(F \ gone, r))
    BY <1>6, <1>7, Finite
  <1>9. Cardinality(M) \in Nat /\ Cardinality(LaterIn(F \ gone, r)) \in Nat
    <2>1. M \in SUBSET Stamps
      BY <1>6, <1>7
    <2> QED BY <2>1, <1>7, Finite
  <1> HIDE DEF n
  <1> QED BY <1>1, <1>5, <1>8, <1>9, Assumed

\* Retention by part keeps what is safe safe.
LEMMA SafePruned ==
  ASSUME NEW F \in SUBSET Files, NEW T \in SUBSET Files, NEW i \in 1..Parts,
         NEW gone \in SUBSET StaleFiles(F, i), NEW r \in Stamps, NEW j \in 1..Parts, Safe(F, T, r, j)
  PROVE  Safe(F \ gone, T \ gone, r, j)
  <1>1. CASE \E f \in gone : f.stamp >= r
    <2>1. r \in Nat
      BY DEF Stamps
    <2> QED BY <1>1, <2>1, StaleOld DEF Safe
  <1>2. CASE \A f \in gone : ~(f.stamp >= r)
    <2>1. \A f \in F : f.stamp \in Nat
      BY DEF Files, Stamps
    <2>2. gone \subseteq F /\ r \in Nat
      <3>1. StaleFiles(F, i) \subseteq F
        BY DEF StaleFiles, OfPart
      <3> QED BY <3>1 DEF Stamps
    <2>3. File(r, j) \notin gone
      BY <1>2, <2>2 DEF File
    <2>4. LaterIn(F \ gone, r) = LaterIn(F, r)
      BY <1>2, <2>1, <2>2 DEF LaterIn
    <2> QED BY <2>3, <2>4 DEF Safe
  <1> QED BY <1>1, <1>2

LEMMA SafeGrown ==
  ASSUME NEW F \in SUBSET Files, NEW G \in SUBSET Files, NEW T, NEW U, F \subseteq G,
         NEW r, NEW i, Safe(F, T, r, i), \A f \in U : f \in T \/ f.stamp # r
  PROVE  Safe(G, U, r, i)
  <1>1. File(r, i) \in F \ T => File(r, i) \in G \ U
    BY DEF File
  <1>2. Cardinality(LaterIn(F, r)) >= KeepLast => Cardinality(LaterIn(G, r)) >= KeepLast
    <2>1. Cardinality(LaterIn(F, r)) <= Cardinality(LaterIn(G, r))
      BY Laters
    <2>2. Cardinality(LaterIn(F, r)) \in Nat /\ Cardinality(LaterIn(G, r)) \in Nat
      BY Laters
    <2> QED BY <2>1, <2>2, Assumed
  <1> QED BY <1>1, <1>2 DEF Safe

-----------------------------------------------------------------------------
(* One pass moves.                                                         *)

LEMMA Moves ==
  ASSUME IInv, NEW p \in Passes, NEW e \in PassTypes, Set(p, e),
         runs' \in 0..MaxBackups, runs' >= runs, PlaceAt(e, runs'),
         e.step # "idle" => (Busy(p) /\ e.stamp = pass[p].stamp) \/ e.stamp > runs
  PROVE  /\ pass' \in [Passes -> PassTypes] /\ pass'[p] = e
         /\ \A q \in Passes \ {p} : pass'[q] = pass[q]
         /\ Place' /\ Distinct'
  <1> USE DEF IInv
  <1>1. pass \in [Passes -> PassTypes] /\ pass' = [pass EXCEPT ![p] = e]
    BY DEF TypeInv, Set
  <1>2. pass' \in [Passes -> PassTypes] /\ pass'[p] = e /\ \A q \in Passes \ {p} : pass'[q] = pass[q]
    BY <1>1
  <1>3. runs \in Nat /\ runs' \in Nat /\ 1..runs \subseteq 1..runs'
    BY Assumed DEF TypeInv
  <1>4. Place'
    <2> SUFFICES ASSUME NEW q \in Passes PROVE PlaceAt(pass'[q], runs')
      BY DEF Place
    <2>1. CASE q = p
      BY <1>2, <2>1
    <2>2. CASE q # p
      <3>1. pass'[q] = pass[q] /\ PlaceAt(pass[q], runs)
        BY <1>2, <2>2 DEF Place
      <3> QED BY <1>3, <3>1 DEF PlaceAt
    <2> QED BY <2>1, <2>2
  <1>5. \A q \in Passes \ {p} : Busy(q) /\ e.step # "idle" => e.stamp # pass[q].stamp
    <2> SUFFICES ASSUME NEW q \in Passes \ {p}, Busy(q), e.step # "idle" PROVE e.stamp # pass[q].stamp
      OBVIOUS
    <2>1. pass[q].stamp \in 1..runs
      BY DEF Place, PlaceAt, Busy
    <2>2. CASE Busy(p) /\ e.stamp = pass[p].stamp
      BY <2>2 DEF Distinct
    <2>3. CASE e.stamp > runs
      BY <1>3, <2>1, <2>3
    <2> QED BY <2>2, <2>3
  <1>6. Distinct'
    <2>1. \A q, r \in Passes : pass'[q].step # "idle" /\ pass'[r].step # "idle" /\ q # r
                                => pass'[q].stamp # pass'[r].stamp
      BY <1>2, <1>5 DEF Distinct, Busy
    <2> QED BY <2>1 DEF Distinct, Busy
  <1> QED BY <1>2, <1>4, <1>6

\* A move that touches no destination.
LEMMA Quiet ==
  ASSUME IInv, TypeInv', NEW p \in Passes, NEW e \in PassTypes, Set(p, e), UNCHANGED <<files, torn, done>>,
         runs' >= runs, PlaceAt(e, runs'),
         e.step # "idle" => (Busy(p) /\ e.stamp = pass[p].stamp) \/ e.stamp > runs,
         e.todo \subseteq pass[p].todo \/ e.stamp > runs,
         e.step \in {"copy", "prune"} => \A i \in 1..Parts : ~Past(e, i)
  PROVE  IInv'
  <1> USE DEF IInv
  <1>1. /\ pass'[p] = e /\ \A q \in Passes \ {p} : pass'[q] = pass[q]
        /\ Place' /\ Distinct'
    <2>1. runs' \in 0..MaxBackups
      BY DEF TypeInv
    <2> QED BY <2>1, Moves
  <1>2. runs \in Nat /\ runs' \in Nat
    BY Assumed DEF TypeInv
  <1>3. \A d \in Dests : (\A f \in files[d] : f.stamp \in Nat) /\ (\A b \in done[d] : b.stamp \in Nat)
    BY DEF TypeInv, Files, Reports, Stamps
  <1>4. Begun'
    <2>1. \A d \in Dests : (\A f \in files[d] : f.stamp <= runs') /\ (\A b \in done[d] : b.stamp <= runs')
      BY <1>2, <1>3 DEF Begun
    <2> QED BY <2>1 DEF Begun
  <1>5. Ahead'
    <2> SUFFICES ASSUME NEW q \in Passes, NEW d \in pass'[q].todo
                 PROVE  Clean(torn'[d], done'[d], pass'[q].stamp)
      BY DEF Ahead
    <2>0. d \in Dests
      BY DEF TypeInv, PassTypes
    <2>1. Clean(torn[d], done[d], pass'[q].stamp)
      <3>1. CASE q # p
        BY <1>1, <3>1 DEF Ahead
      <3>2. CASE q = p /\ e.stamp > runs
        <4>1. \A f \in torn[d] : f.stamp \in Nat /\ f.stamp <= runs
          BY <1>3, <2>0 DEF TypeInv, Begun
        <4>2. \A b \in done[d] : b.stamp \in Nat /\ b.stamp <= runs
          BY <1>3, <2>0 DEF Begun
        <4>3. e.stamp \in Nat /\ pass'[q] = e
          BY <1>1, <3>2 DEF PassTypes
        <4> QED BY <1>2, <3>2, <4>1, <4>2, <4>3 DEF Clean
      <3>3. CASE q = p /\ ~(e.stamp > runs)
        <4>1. pass'[q] = e /\ d \in pass[p].todo
          BY <1>1, <3>3
        <4>2. e.step # "idle"
          BY <4>1, IdleType, <1>1, <3>3 DEF PlaceAt
        <4>3. e.stamp = pass[p].stamp
          BY <3>3, <4>2
        <4> QED BY <3>3, <4>1, <4>3 DEF Ahead
      <3> QED BY <3>1, <3>2, <3>3
    <2> QED BY <2>1
  <1>6. Reported'
    BY DEF Reported
  <1>7. Copied'
    <2> SUFFICES ASSUME NEW q \in Passes PROVE CopiedBy(q)'
      BY DEF Copied
    <2>1. CASE q = p
      BY <1>1, <2>1 DEF CopiedBy, Uploading
    <2>2. CASE q # p
      <3>1. pass'[q] = pass[q] /\ CopiedBy(q)
        BY <1>1, <2>2 DEF Copied
      <3> QED BY <3>1 DEF CopiedBy, Uploading, Dest
    <2> QED BY <2>1, <2>2
  <1> QED BY <1>1, <1>4, <1>5, <1>6, <1>7

\* A move at a destination: its files become G, of which U are broken, and it
\* reports R. Only the moving run's own parts may become less safe.
StoreStep(p, e, d, G, U, R) ==
  /\ Uploading(p) /\ d = Dest(p) /\ Set(p, e) /\ UNCHANGED runs
  /\ PlaceAt(e, runs) /\ e.step # "idle" /\ e.stamp = pass[p].stamp /\ e.todo \subseteq pass[p].todo
  /\ files' = [files EXCEPT ![d] = G] /\ torn' = [torn EXCEPT ![d] = U]
  /\ done' = [done EXCEPT ![d] = @ \cup R]
  /\ \A f \in G : f \in files[d] \/ f.stamp = e.stamp
  /\ \A f \in U : f \in torn[d] \/ (f.stamp = e.stamp /\ d \notin e.todo)
  /\ \A b \in R : b.stamp = e.stamp /\ d \notin e.todo /\ \A i \in 1..Parts : Safe(G, U, e.stamp, i)
  /\ \A r \in Stamps \ {e.stamp}, i \in 1..Parts : Safe(files[d], torn[d], r, i) => Safe(G, U, r, i)
  /\ e.step \in {"copy", "prune"} =>
       \A i \in 1..Parts : Past(e, i) => Safe(G, U, e.stamp, i) /\ e.todo = pass[p].todo

LEMMA Stores ==
  ASSUME IInv, TypeInv', NEW p \in Passes, NEW e \in PassTypes, NEW d, NEW G \in SUBSET Files,
         NEW U \in SUBSET Files, NEW R \in SUBSET Reports, StoreStep(p, e, d, G, U, R)
  PROVE  IInv'
  <1> USE DEF IInv, StoreStep
  <1>1. /\ pass'[p] = e /\ \A q \in Passes \ {p} : pass'[q] = pass[q]
        /\ Place' /\ Distinct'
    <2>1. runs' \in 0..MaxBackups /\ runs' >= runs
      BY Assumed DEF TypeInv
    <2>2. PlaceAt(e, runs') /\ Busy(p)
      BY DEF Uploading, Busy
    <2> QED BY <2>1, <2>2, Moves
  <1>2. d \in Dests /\ d \in pass[p].todo
    BY DestIn
  <1>3. files'[d] = G /\ torn'[d] = U /\ done'[d] = done[d] \cup R
    BY <1>2 DEF TypeInv
  <1>4. \A c \in Dests \ {d} : files'[c] = files[c] /\ torn'[c] = torn[c] /\ done'[c] = done[c]
    BY <1>2 DEF TypeInv
  <1>5. e.stamp \in 1..runs /\ e.stamp \in Nat /\ runs \in Nat
    BY Assumed DEF PlaceAt, TypeInv
  <1>6. Begun'
    <2>1. \A c \in Dests : (\A f \in files'[c] : f.stamp <= runs) /\ (\A b \in done'[c] : b.stamp <= runs)
      BY <1>2, <1>3, <1>4, <1>5 DEF Begun
    <2> QED BY <2>1 DEF Begun
  <1>7. Ahead'
    <2> SUFFICES ASSUME NEW q \in Passes, NEW c \in pass'[q].todo
                 PROVE  Clean(torn'[c], done'[c], pass'[q].stamp)
      BY DEF Ahead
    <2>1. /\ c \in pass[q].todo /\ c \in Dests /\ pass'[q].stamp = pass[q].stamp
          /\ Clean(torn[c], done[c], pass[q].stamp)
      BY <1>1 DEF Ahead, TypeInv, PassTypes
    <2>2. CASE c # d
      BY <1>4, <2>1, <2>2 DEF Clean
    <2>3. CASE c = d /\ q # p
      <3>1. Busy(q)
        BY <2>1, IdleType DEF Place, PlaceAt, Busy
      <3>2. pass[q].stamp # e.stamp
        BY <2>3, <3>1 DEF Distinct, Busy, Uploading
      <3> QED BY <1>3, <2>1, <2>3, <3>2 DEF Clean
    <2>4. CASE c = d /\ q = p
      BY <1>1, <1>3, <2>1, <2>4 DEF Clean
    <2> QED BY <2>2, <2>3, <2>4
  <1>8. Reported'
    <2> SUFFICES ASSUME NEW c \in Dests, NEW b \in done'[c], NEW i \in 1..Parts
                 PROVE  Safe(files'[c], torn'[c], b.stamp, i)
      BY DEF Reported
    <2>1. CASE c # d
      <3>1. b \in done[c]
        BY <1>4, <2>1
      <3> QED BY <1>4, <2>1, <3>1 DEF Reported
    <2>2. CASE c = d /\ b \in R
      BY <1>3, <2>2
    <2>3. CASE c = d /\ b \in done[d]
      <3>1. b.stamp \in Stamps /\ b.stamp # e.stamp
        BY <1>2, <2>3 DEF TypeInv, Reports, Ahead, Clean
      <3>2. Safe(files[d], torn[d], b.stamp, i)
        BY <2>3 DEF Reported
      <3> QED BY <1>3, <2>3, <3>1, <3>2
    <2> QED BY <1>3, <2>1, <2>2, <2>3
  <1>9. Copied'
    <2> SUFFICES ASSUME NEW q \in Passes, Uploading(q)', NEW i \in 1..Parts, Past(pass'[q], i)
                 PROVE  Safe(files'[Dest(q)'], torn'[Dest(q)'], pass'[q].stamp, i)
      BY DEF Copied, CopiedBy
    <2>1. CASE q = p
      <3>1. pass'[q] = e /\ e.step \in {"copy", "prune"}
        BY <1>1, <2>1 DEF Uploading
      <3>2. Safe(G, U, e.stamp, i) /\ e.todo = pass[p].todo
        BY <3>1
      <3>3. Dest(q)' = d
        BY <2>1, <3>1, <3>2 DEF Dest
      <3> QED BY <1>3, <3>1, <3>2, <3>3
    <2>2. CASE q # p
      <3>1. pass'[q] = pass[q]
        BY <1>1, <2>2
      <3>2. Uploading(q) /\ Dest(q)' = Dest(q)
        BY <3>1 DEF Uploading, Dest
      <3> DEFINE c == Dest(q)
                 r == pass[q].stamp
      <3>3. Safe(files[c], torn[c], r, i) /\ c \in Dests
        BY <3>1, <3>2, DestIn DEF Copied, CopiedBy
      <3>4. CASE c # d
        <4>1. files'[c] = files[c] /\ torn'[c] = torn[c]
          BY <1>4, <3>3, <3>4
        <4> QED BY <3>1, <3>2, <3>3, <4>1
      <3>5. CASE c = d
        <4>1. r # e.stamp
          BY <2>2, <3>2 DEF Distinct, Busy, Uploading
        <4>2. r \in Stamps
          <5>1. r \in 1..runs
            BY <3>2 DEF Place, PlaceAt, Uploading
          <5>2. 1..runs \subseteq Stamps
            BY Assumed DEF TypeInv, Stamps
          <5> QED BY <5>1, <5>2
        <4>3. Safe(G, U, r, i)
          BY <3>3, <3>5, <4>1, <4>2
        <4> QED BY <1>3, <3>1, <3>2, <3>5, <4>3
      <3> QED BY <3>4, <3>5
    <2> QED BY <2>1, <2>2
  <1> QED BY <1>1, <1>6, <1>7, <1>8, <1>9

-----------------------------------------------------------------------------
(* Type correctness.                                                       *)

\* What Leave makes of a pass.
Left(p, st) ==
  LET rest == pass[p].todo \ {Dest(p)}
  IN [pass[p] EXCEPT !.step = IF rest = {} THEN "save" ELSE "copy", !.todo = rest, !.part = 1, !.state = st]

LEMMA LeftType ==
  ASSUME TypeInv, NEW p \in Passes, NEW st \in States
  PROVE  /\ Left(p, st) \in PassTypes
         /\ Left(p, st).stamp = pass[p].stamp /\ Left(p, st).todo = pass[p].todo \ {Dest(p)}
         /\ Left(p, st).part = 1 /\ Left(p, st).state = st
         /\ Left(p, st).step = IF pass[p].todo \ {Dest(p)} = {} THEN "save" ELSE "copy"
  <1> DEFINE rest == pass[p].todo \ {Dest(p)}
             s == IF rest = {} THEN "save" ELSE "copy"
             e == [pass[p] EXCEPT !.step = s, !.todo = rest, !.part = 1, !.state = st]
  <1>1. pass[p] \in PassTypes /\ rest \in SUBSET Dests /\ 1 \in 0..Parts /\ s \in Steps
    BY Assumed DEF TypeInv, PassTypes, Steps
  <1>2. Left(p, st) = e
    BY DEF Left
  <1> HIDE DEF rest, s
  <1>3. /\ e \in PassTypes /\ e.stamp = pass[p].stamp /\ e.todo = rest /\ e.part = 1
        /\ e.state = st /\ e.step = s
    BY <1>1 DEF PassTypes
  <1> HIDE DEF e
  <1> QED BY <1>2, <1>3 DEF rest, s

LEMMA NextEntryType ==
  ASSUME NEW e \in Entries, now \in Times
  PROVE  NextEntry(e) \in Entries
  <1>1. now \in Int /\ Times \subseteq Int
    BY Assumed DEF Times
  <1>2. e.planned \in Int /\ Grace \in Int /\ Interval \in Int
    BY Assumed DEF Entries
  <1>3. AdvanceSlot(e.planned) \in Int
    <2>1. (now + Grace - e.planned) \div Interval \in Int
      BY <1>1, <1>2, Assumed
    <2> QED BY <1>2, <2>1 DEF AdvanceSlot
  <1> QED BY <1>1, <1>3 DEF NextEntry, Entries

LEMMA StateType ==
  ASSUME TypeInv, NEW p \in Passes, NEW d \in Dests
  PROVE  [pass[p].state EXCEPT ![d] = NextEntry(@)] \in States
  <1>1. pass[p].state \in States /\ pass[p].state[d] \in Entries
    BY DEF TypeInv, PassTypes, States
  <1>2. NextEntry(pass[p].state[d]) \in Entries
    BY <1>1, NextEntryType DEF TypeInv
  <1> QED BY <1>1, <1>2 DEF States

LEMMA BeginType ==
  ASSUME TypeInv, NEW p \in Passes, NEW targets \in SUBSET Dests, Begin(p, targets)
  PROVE  TypeInv'
  <1>1. runs + 1 \in 0..MaxBackups
    BY Assumed DEF TypeInv, Begin
  <1>2. [IdlePass EXCEPT !.step = "dump", !.stamp = runs + 1, !.todo = targets] \in PassTypes
    BY <1>1, IdleType DEF PassTypes, Steps
  <1>3. pass' \in [Passes -> PassTypes]
    BY <1>2 DEF TypeInv, Begin, Set
  <1> QED BY <1>1, <1>3 DEF TypeInv, Begin

LEMMA Targets ==
  ASSUME NEW p \in Passes, RunDue(p) \/ Forced(p)
  PROVE  \E targets \in SUBSET Dests : Begin(p, targets)
  BY DEF RunDue, Forced

LEMMA StepPartType ==
  ASSUME TypeInv, NEW p \in Passes, NEW s \in Steps, NEW i \in 0..Parts
  PROVE  /\ [pass[p] EXCEPT !.step = s] \in PassTypes
         /\ [pass[p] EXCEPT !.step = s, !.part = i] \in PassTypes
         /\ [pass[p] EXCEPT !.step = s, !.part = i, !.state = entry] \in PassTypes
  <1>1. pass[p] \in PassTypes /\ entry \in States
    BY DEF TypeInv
  <1> QED BY <1>1 DEF PassTypes

LEMMA PassesType ==
  ASSUME TypeInv, NEW p \in Passes, NEW e \in PassTypes, Set(p, e)
  PROVE  pass' \in [Passes -> PassTypes]
  BY DEF TypeInv, Set

LEMMA FileType ==
  ASSUME TypeInv, Place, NEW p \in Passes, Uploading(p)
  PROVE  /\ File(pass[p].stamp, pass[p].part) \in Files /\ pass[p].stamp \in Stamps
         /\ pass[p].part \in 1..Parts /\ pass[p].stamp \in 1..runs
  <1>1. pass[p].stamp \in 1..runs /\ pass[p].part \in 1..Parts
    BY DEF Place, PlaceAt, Uploading
  <1>2. 1..runs \subseteq Stamps
    BY Assumed DEF TypeInv, Stamps
  <1> QED BY <1>1, <1>2 DEF File, Files

LEMMA StoresType ==
  ASSUME TypeInv, NEW p \in Passes, NEW e \in PassTypes, Set(p, e), UNCHANGED <<now, aligned, runs, entry>>,
         NEW d \in Dests, NEW G \in SUBSET Files, NEW U \in SUBSET G, NEW R \in SUBSET Reports,
         files' = [files EXCEPT ![d] = G], torn' = [torn EXCEPT ![d] = U], done' = [done EXCEPT ![d] = @ \cup R]
  PROVE  TypeInv'
  <1>1. files' \in [Dests -> SUBSET Files] /\ torn' \in [Dests -> SUBSET Files]
    BY DEF TypeInv
  <1>2. \A c \in Dests : torn'[c] \subseteq files'[c]
    BY DEF TypeInv
  <1>3. done' \in [Dests -> SUBSET Reports]
    BY DEF TypeInv
  <1>4. pass' \in [Passes -> PassTypes]
    BY PassesType
  <1> QED BY <1>1, <1>2, <1>3, <1>4 DEF TypeInv

-----------------------------------------------------------------------------
(* Each step keeps the invariant.                                          *)

LEMMA BeginKeeps ==
  ASSUME IInv, NEW p \in Passes, RunDue(p) \/ Forced(p)
  PROVE  IInv'
  <1>1. PICK targets \in SUBSET Dests : Begin(p, targets)
    BY Targets
  <1> DEFINE e == [IdlePass EXCEPT !.step = "dump", !.stamp = runs + 1, !.todo = targets]
  <1>2. TypeInv'
    BY <1>1, BeginType DEF IInv
  <1>3. runs \in Nat /\ runs' = runs + 1 /\ targets # {} /\ runs + 1 \in 0..MaxBackups
    BY <1>1, Assumed DEF Begin, IInv, TypeInv
  <1>4. e \in PassTypes /\ e.step = "dump" /\ e.stamp = runs + 1 /\ e.todo = targets
    BY <1>3, IdleType DEF PassTypes, Steps
  <1>5. Set(p, e) /\ UNCHANGED <<files, torn, done>>
    BY <1>1 DEF Begin
  <1> HIDE DEF e
  <1>6. PlaceAt(e, runs') /\ e.stamp > runs /\ runs' >= runs
    BY <1>3, <1>4 DEF PlaceAt
  <1> QED BY <1>2, <1>4, <1>5, <1>6, Quiet

\* DumpFails, WriteState and Die end a pass.
LEMMA EndKeeps ==
  ASSUME IInv, TypeInv', NEW p \in Passes, Set(p, IdlePass), UNCHANGED <<files, torn, done, runs>>
  PROVE  IInv'
  <1>1. PlaceAt(IdlePass, runs') /\ runs' >= runs
    BY IdleType, Assumed DEF PlaceAt, IInv, TypeInv
  <1> QED BY <1>1, IdleType, Quiet

LEMMA LoadStateKeeps ==
  ASSUME IInv, NEW p \in Passes, LoadState(p)
  PROVE  IInv'
  <1> DEFINE e == [pass[p] EXCEPT !.step = "copy", !.part = 1, !.state = entry]
  <1> USE DEF IInv
  <1>1. pass[p] \in PassTypes /\ pass[p].step = "dump" /\ 1 \in 1..Parts /\ 1 \in 0..Parts /\ "copy" \in Steps
    BY Assumed DEF TypeInv, LoadState, Steps
  <1>2. e \in PassTypes
    BY <1>1, StepPartType
  <1>3. e.step = "copy" /\ e.part = 1 /\ e.stamp = pass[p].stamp /\ e.todo = pass[p].todo
    BY <1>1 DEF PassTypes
  <1>4. Set(p, e) /\ UNCHANGED <<now, aligned, runs, entry, files, torn, done, failures>>
    BY DEF LoadState
  <1> HIDE DEF e
  <1>5. TypeInv'
    BY <1>2, <1>4, PassesType DEF TypeInv
  <1>6. PlaceAt(e, runs') /\ runs' >= runs /\ Busy(p)
    BY <1>1, <1>3, <1>4, Assumed DEF Place, PlaceAt, TypeInv, Busy
  <1>7. \A i \in 1..Parts : ~Past(e, i)
    BY <1>3, Assumed DEF Past
  <1> QED BY <1>2, <1>3, <1>4, <1>5, <1>6, <1>7, Quiet

LEMMA TruncateKeeps ==
  ASSUME IInv, NEW p \in Passes, TruncateState(p)
  PROVE  IInv'
  <1> DEFINE e == [pass[p] EXCEPT !.step = "write"]
  <1> USE DEF IInv
  <1>1. pass[p] \in PassTypes /\ pass[p].step = "save" /\ "write" \in Steps /\ 0 \in 0..Parts
    BY Assumed DEF TypeInv, TruncateState, Steps
  <1>2. e \in PassTypes
    BY <1>1, StepPartType
  <1>3. e.step = "write" /\ e.stamp = pass[p].stamp /\ e.todo = pass[p].todo
    BY <1>1 DEF PassTypes
  <1>4. Set(p, e) /\ UNCHANGED <<now, aligned, runs, files, torn, done, failures>>
    BY DEF TruncateState
  <1> HIDE DEF e
  <1>5. TypeInv'
    <2>1. entry' \in States
      BY IdleType DEF TruncateState, States
    <2> QED BY <1>2, <1>4, <2>1, PassesType DEF TypeInv
  <1>6. PlaceAt(e, runs') /\ runs' >= runs /\ Busy(p)
    BY <1>1, <1>3, <1>4, Assumed DEF Place, PlaceAt, TypeInv, Busy
  <1> QED BY <1>2, <1>3, <1>4, <1>5, <1>6, Quiet

LEMMA EndsKeep ==
  ASSUME IInv, NEW p \in Passes, DumpFails(p) \/ WriteState(p) \/ Die(p)
  PROVE  IInv'
  <1>1. Set(p, IdlePass) /\ UNCHANGED <<now, aligned, runs, files, torn, done>> /\ entry' \in States
    BY DEF DumpFails, WriteState, Die, IInv, TypeInv, PassTypes
  <1>2. TypeInv'
    BY <1>1, IdleType, PassesType DEF IInv, TypeInv
  <1> QED BY <1>1, <1>2, EndKeeps

LEMMA CopyKeeps ==
  ASSUME IInv, NEW p \in Passes, Copy(p)
  PROVE  IInv'
  <1> DEFINE e == [pass[p] EXCEPT !.step = "prune"]
             d == Dest(p)
             f == File(pass[p].stamp, pass[p].part)
             G == files[d] \cup {f}
  <1> USE DEF IInv
  <1>1. Uploading(p) /\ pass[p].step = "copy" /\ pass[p] \in PassTypes
    BY DEF Copy, Uploading, TypeInv
  <1>2. e \in PassTypes
    <2>1. "prune" \in Steps /\ 0 \in 0..Parts
      BY Assumed DEF Steps
    <2> QED BY <2>1, StepPartType
  <1>3. e.step = "prune" /\ e.stamp = pass[p].stamp /\ e.todo = pass[p].todo /\ e.part = pass[p].part
    BY <1>1 DEF PassTypes
  <1>4. d \in Dests /\ d \in pass[p].todo /\ f \in Files /\ e.stamp \in Stamps /\ e.part \in 1..Parts
    BY <1>1, <1>3, DestIn, FileType
  <1>5. /\ Set(p, e) /\ UNCHANGED <<now, aligned, runs, entry>> /\ files' = [files EXCEPT ![d] = G]
        /\ torn' = [torn EXCEPT ![d] = torn[d]] /\ done' = [done EXCEPT ![d] = @ \cup {}]
    BY DEF Copy, TypeInv
  <1>6. files[d] \in SUBSET Files /\ torn[d] \in SUBSET files[d]
    BY <1>4 DEF TypeInv
  <1>7. PlaceAt(e, runs)
    BY <1>1, <1>3, <1>4 DEF Place, PlaceAt
  <1>8. f.stamp = e.stamp /\ f = File(e.stamp, e.part)
    BY <1>3 DEF File
  <1> HIDE DEF e, d, f
  <1>9. TypeInv'
    <2>1. G \in SUBSET Files /\ torn[d] \in SUBSET G /\ {} \in SUBSET Reports
      BY <1>4, <1>6
    <2> QED BY <1>2, <1>4, <1>5, <2>1, StoresType
  <1>10. \A r, i : Safe(files[d], torn[d], r, i) => Safe(G, torn[d], r, i)
    BY <1>4, <1>6, SafeGrown
  <1>11. ASSUME NEW i \in 1..Parts, Past(e, i) PROVE Safe(G, torn[d], e.stamp, i)
    <2>1. CASE i = e.part
      <3>1. f \notin torn[d]
        BY <1>3, <1>4, <1>8 DEF Ahead, Clean
      <3> QED BY <1>8, <2>1, <3>1 DEF Safe
    <2>2. CASE i # e.part
      <3>1. Past(pass[p], i)
        BY <1>3, <1>11, <2>2 DEF Past
      <3>2. Safe(files[d], torn[d], pass[p].stamp, i)
        BY <1>1, <3>1 DEF Copied, CopiedBy, d
      <3> QED BY <1>3, <1>10, <3>2
    <2> QED BY <2>1, <2>2
  <1>12. G \in SUBSET Files /\ torn[d] \in SUBSET Files /\ \A g \in G : g \in files[d] \/ g.stamp = e.stamp
    BY <1>4, <1>6, <1>8
  <1>13. StoreStep(p, e, d, G, torn[d], {})
    <2>1. /\ \A g \in torn[d] : g \in torn[d] \/ (g.stamp = e.stamp /\ d \notin e.todo)
          /\ \A b \in {} : /\ b.stamp = e.stamp /\ d \notin e.todo
                          /\ \A i \in 1..Parts : Safe(G, torn[d], e.stamp, i)
      OBVIOUS
    <2>2. e.step \in {"copy", "prune"} =>
            \A i \in 1..Parts : Past(e, i) => Safe(G, torn[d], e.stamp, i) /\ e.todo = pass[p].todo
      BY <1>3, <1>11
    <2>3. d = Dest(p) /\ e.step # "idle" /\ e.todo \subseteq pass[p].todo /\ UNCHANGED runs
      BY <1>3, <1>5 DEF d
    <2> HIDE DEF G
    <2> QED BY <1>1, <1>3, <1>5, <1>7, <1>10, <1>12, <2>1, <2>2, <2>3 DEF StoreStep
  <1> HIDE DEF IInv, G
  <1> QED BY <1>2, <1>9, <1>12, <1>13, Stores

\* Leaving a destination: what is left to show of the step.
LeaveStep(p, st, d, G, U, R) ==
  /\ Uploading(p) /\ d = Dest(p) /\ Leave(p, st) /\ UNCHANGED <<now, aligned, runs, entry>>
  /\ files' = [files EXCEPT ![d] = G] /\ torn' = [torn EXCEPT ![d] = U]
  /\ done' = [done EXCEPT ![d] = @ \cup R]
  /\ \A f \in G : f \in files[d] \/ f.stamp = pass[p].stamp
  /\ \A f \in U : f \in torn[d] \/ f.stamp = pass[p].stamp
  /\ \A b \in R : b.stamp = pass[p].stamp /\ \A i \in 1..Parts : Safe(G, U, pass[p].stamp, i)
  /\ \A r \in Stamps \ {pass[p].stamp}, i \in 1..Parts : Safe(files[d], torn[d], r, i) => Safe(G, U, r, i)

LEMMA LeaveStore ==
  ASSUME IInv, NEW p \in Passes, NEW st \in States, NEW d,
         NEW G \in SUBSET Files, NEW U \in SUBSET G, NEW R \in SUBSET Reports, LeaveStep(p, st, d, G, U, R)
  PROVE  IInv'
  <1> DEFINE e == Left(p, st)
  <1> USE DEF LeaveStep
  <1>0. e = Left(p, st)
    OBVIOUS
  <1> HIDE DEF e
  <1>1. /\ e \in PassTypes /\ e.stamp = pass[p].stamp /\ e.todo = pass[p].todo \ {d} /\ e.part = 1
        /\ e.step = IF e.todo = {} THEN "save" ELSE "copy"
    BY <1>0, LeftType DEF IInv
  <1>2. Set(p, e)
    BY <1>0 DEF Leave, Left, Set
  <1>3. d \in Dests /\ pass[p].stamp \in 1..runs
    BY DestIn, FileType DEF IInv
  <1>4. TypeInv'
    BY <1>1, <1>2, <1>3, StoresType DEF IInv
  <1>5. PlaceAt(e, runs) /\ e.step # "idle" /\ d \notin e.todo /\ e.todo \subseteq pass[p].todo
    BY <1>1, <1>3, Assumed DEF PlaceAt
  <1>6. e.step \in {"copy", "prune"} => \A i \in 1..Parts : ~Past(e, i)
    BY <1>1, Assumed DEF Past
  <1>7. StoreStep(p, e, d, G, U, R)
    BY <1>1, <1>2, <1>5, <1>6 DEF StoreStep
  <1>8. U \in SUBSET Files
    OBVIOUS
  <1> QED BY <1>1, <1>4, <1>7, <1>8, Stores

LEMMA UploadFailsKeeps ==
  ASSUME IInv, NEW p \in Passes, UploadFails(p)
  PROVE  IInv'
  <1> DEFINE d == Dest(p)
             f == File(pass[p].stamp, pass[p].part)
             st == pass[p].state
  <1>1. Uploading(p)
    BY DEF UploadFails, Uploading
  <1>2. PICK landed \in {{}, {f}} :
          files' = [files EXCEPT ![d] = @ \cup landed] /\ torn' = [torn EXCEPT ![d] = @ \cup landed]
    BY DEF UploadFails
  <1>3. Leave(p, st) /\ UNCHANGED <<now, aligned, runs, entry, done>>
    BY DEF UploadFails
  <1>4. d \in Dests /\ f \in Files /\ st \in States
    BY <1>1, DestIn, FileType DEF IInv, TypeInv, PassTypes
  <1>5. f.stamp = pass[p].stamp
    BY DEF File
  <1> DEFINE G == files[d] \cup landed
             U == torn[d] \cup landed
  <1>6. files[d] \in SUBSET Files /\ torn[d] \in SUBSET files[d]
    BY <1>4 DEF IInv, TypeInv
  <1>7. G \in SUBSET Files /\ U \in SUBSET G /\ {} \in SUBSET Reports
    BY <1>2, <1>4, <1>6
  <1>8. \A g \in landed : g.stamp = pass[p].stamp
    BY <1>2, <1>5
  <1>9. done' = [done EXCEPT ![d] = @ \cup {}]
    BY <1>3 DEF IInv, TypeInv
  <1> HIDE DEF d, f, st
  <1>10. \A r \in Stamps \ {pass[p].stamp}, i \in 1..Parts : Safe(files[d], torn[d], r, i) => Safe(G, U, r, i)
    BY <1>6, <1>7, <1>8, SafeGrown
  <1>11. /\ \A g \in G : g \in files[d] \/ g.stamp = pass[p].stamp
         /\ \A g \in U : g \in torn[d] \/ g.stamp = pass[p].stamp
    BY <1>8
  <1>12. files' = [files EXCEPT ![d] = G] /\ torn' = [torn EXCEPT ![d] = U]
    BY <1>2
  <1>13. d = Dest(p)
    BY DEF d
  <1> HIDE DEF G, U
  <1>14. LeaveStep(p, st, d, G, U, {})
    BY <1>1, <1>3, <1>9, <1>10, <1>11, <1>12, <1>13 DEF LeaveStep
  <1> QED BY <1>4, <1>7, <1>14, LeaveStore

\* What a prune of a part lets go, all of it or some.
LEMMA Pruning ==
  ASSUME IInv, NEW p \in Passes, Uploading(p), NEW d, d = Dest(p),
         NEW gone \in SUBSET StaleFiles(files[d], pass[p].part)
  PROVE  /\ d \in Dests /\ d \in pass[p].todo
         /\ files[d] \ gone \in SUBSET Files /\ torn[d] \ gone \in SUBSET (files[d] \ gone)
         /\ \A r \in Stamps, i \in 1..Parts :
              Safe(files[d], torn[d], r, i) => Safe(files[d] \ gone, torn[d] \ gone, r, i)
  <1>1. d \in Dests /\ d \in pass[p].todo /\ pass[p].part \in 1..Parts
    BY DestIn, FileType DEF IInv
  <1>2. files[d] \in SUBSET Files /\ torn[d] \in SUBSET files[d]
    BY <1>1 DEF IInv, TypeInv
  <1>3. torn[d] \in SUBSET Files
    BY <1>2
  <1> QED BY <1>1, <1>2, <1>3, SafePruned

LEMMA PruneFailsKeeps ==
  ASSUME IInv, NEW p \in Passes, PruneFails(p)
  PROVE  IInv'
  <1> DEFINE d == Dest(p)
             st == pass[p].state
  <1>1. Uploading(p)
    BY DEF PruneFails, Uploading
  <1>2. PICK gone \in SUBSET StaleFiles(files[d], pass[p].part) :
          files' = [files EXCEPT ![d] = @ \ gone] /\ torn' = [torn EXCEPT ![d] = @ \ gone]
    BY DEF PruneFails
  <1>3. Leave(p, st) /\ UNCHANGED <<now, aligned, runs, entry, done>>
    BY DEF PruneFails
  <1>4. st \in States /\ {} \in SUBSET Reports
    BY DEF IInv, TypeInv, PassTypes
  <1>5. done' = [done EXCEPT ![d] = @ \cup {}]
    <2> HIDE DEF d
    <2>1. done' = done /\ done \in [Dests -> SUBSET Reports]
      BY <1>3 DEF IInv, TypeInv
    <2> QED BY <2>1
  <1>6. d = Dest(p)
    OBVIOUS
  <1> DEFINE G == files[d] \ gone
             U == torn[d] \ gone
  <1> HIDE DEF d, st
  <1>7. /\ G \in SUBSET Files /\ U \in SUBSET G
        /\ \A r \in Stamps, i \in 1..Parts : Safe(files[d], torn[d], r, i) => Safe(G, U, r, i)
    <2>1. Uploading(p)
      BY <1>1
    <2>2. /\ files[d] \ gone \in SUBSET Files /\ torn[d] \ gone \in SUBSET (files[d] \ gone)
          /\ \A r \in Stamps, i \in 1..Parts :
               Safe(files[d], torn[d], r, i) => Safe(files[d] \ gone, torn[d] \ gone, r, i)
      BY <1>6, <2>1, Pruning, ZenonT(60)
    <2> QED BY <2>2
  <1>8. (\A f \in G : f \in files[d]) /\ (\A f \in U : f \in torn[d])
    OBVIOUS
  <1>9. files' = [files EXCEPT ![d] = G] /\ torn' = [torn EXCEPT ![d] = U]
    BY <1>2
  <1> HIDE DEF G, U
  <1>10. LeaveStep(p, st, d, G, U, {})
    BY <1>1, <1>3, <1>5, <1>6, <1>7, <1>8, <1>9 DEF LeaveStep
  <1> QED BY <1>4, <1>7, <1>10, LeaveStore

LEMMA PruneKeeps ==
  ASSUME IInv, NEW p \in Passes, Prune(p)
  PROVE  IInv'
  <1> DEFINE d == Dest(p)
  <1>1. Uploading(p) /\ pass[p].step = "prune"
    BY DEF Prune, Uploading
  <1>2. d = Dest(p)
    OBVIOUS
  <1>3. PICK gone \in SUBSET StaleFiles(files[d], pass[p].part) :
          files' = [files EXCEPT ![d] = @ \ gone] /\ torn' = [torn EXCEPT ![d] = @ \ gone]
    BY DEF Prune
  <1> DEFINE G == files[d] \ gone
             U == torn[d] \ gone
  <1> HIDE DEF d
  <1>4. /\ files' = [files EXCEPT ![d] = G] /\ torn' = [torn EXCEPT ![d] = U]
        /\ UNCHANGED <<now, aligned, runs, entry>>
    BY <1>3 DEF Prune
  <1>5. d \in Dests /\ d \in pass[p].todo
    BY <1>1, <1>2, DestIn DEF IInv
  <1>6. /\ G \in SUBSET Files /\ U \in SUBSET G
        /\ \A r \in Stamps, i \in 1..Parts : Safe(files[d], torn[d], r, i) => Safe(G, U, r, i)
    <2>1. Uploading(p)
      BY <1>1
    <2>2. /\ files[d] \ gone \in SUBSET Files /\ torn[d] \ gone \in SUBSET (files[d] \ gone)
          /\ \A r \in Stamps, i \in 1..Parts :
               Safe(files[d], torn[d], r, i) => Safe(files[d] \ gone, torn[d] \ gone, r, i)
      BY <1>2, <2>1, Pruning, ZenonT(60)
    <2> QED BY <2>2
  <1>7. (\A f \in G : f \in files[d]) /\ (\A f \in U : f \in torn[d])
    OBVIOUS
  <1>8. pass[p].part \in 1..Parts /\ pass[p].stamp \in Stamps /\ pass[p].stamp \in 1..runs
    BY <1>1, <1>2, FileType DEF IInv
  <1> HIDE DEF G, U
  <1>9. \A i \in 1..Parts : i <= pass[p].part => Safe(G, U, pass[p].stamp, i)
    <2> SUFFICES ASSUME NEW i \in 1..Parts, i <= pass[p].part PROVE Safe(G, U, pass[p].stamp, i)
      OBVIOUS
    <2>1. Past(pass[p], i)
      BY <1>1, <1>2, <1>8, Assumed DEF Past
    <2>2. Safe(files[d], torn[d], pass[p].stamp, i)
      BY <1>1, <1>2, <2>1 DEF IInv, Copied, CopiedBy
    <2> QED BY <1>5, <1>6, <1>8, <2>2
  <1>10. CASE pass[p].part < Parts
    <2> DEFINE e == [pass[p] EXCEPT !.step = "copy", !.part = @ + 1]
    <2>1. Set(p, e) /\ UNCHANGED done
      BY <1>10 DEF Prune
    <2>2. pass[p].part + 1 \in 1..Parts /\ "copy" \in Steps /\ pass[p].part + 1 \in 0..Parts
      BY <1>8, <1>10, Assumed DEF Steps
    <2>3. pass[p] \in PassTypes
      BY DEF IInv, TypeInv
    <2>4. /\ e \in PassTypes /\ e.step = "copy" /\ e.part = pass[p].part + 1 /\ e.todo = pass[p].todo
          /\ e.stamp = pass[p].stamp
      BY <2>2, <2>3 DEF PassTypes
    <2> HIDE DEF e
    <2>5. done' = [done EXCEPT ![d] = @ \cup {}] /\ {} \in SUBSET Reports
      BY <2>1 DEF IInv, TypeInv
    <2>6. TypeInv'
      BY <1>4, <1>5, <1>6, <2>1, <2>4, <2>5, StoresType DEF IInv
    <2>7. PlaceAt(e, runs)
      BY <1>5, <1>6, <1>8, <2>2, <2>4 DEF PlaceAt
    <2>8. \A i \in 1..Parts : Past(e, i) => Safe(G, U, e.stamp, i) /\ e.todo = pass[p].todo
      <3>1. \A i \in 1..Parts : Past(e, i) => i <= pass[p].part
        BY <1>8, <2>4, Assumed DEF Past
      <3> QED BY <1>9, <2>4, <3>1
    <2>9. StoreStep(p, e, d, G, U, {})
      BY <1>1, <1>2, <1>4, <1>5, <1>6, <1>7, <2>1, <2>4, <2>5, <2>7, <2>8 DEF StoreStep
    <2>10. U \in SUBSET Files
      BY <1>6
    <2> QED BY <1>5, <1>6, <2>4, <2>5, <2>6, <2>9, <2>10, Stores
  <1>11. CASE ~(pass[p].part < Parts)
    <2> DEFINE st == [pass[p].state EXCEPT ![d] = NextEntry(@)]
               R == {[stamp |-> pass[p].stamp, at |-> now]}
    <2>1. Leave(p, st) /\ done' = [done EXCEPT ![d] = @ \cup R]
      BY <1>1, <1>2, <1>11 DEF Prune
    <2>2. st \in States
      BY <1>5, <1>6, StateType DEF IInv
    <2> HIDE DEF st
    <2>5. R \in SUBSET Reports
      BY <1>8 DEF IInv, TypeInv, Reports
    <2>6. \A i \in 1..Parts : i <= pass[p].part
      BY <1>8, <1>11, Assumed
    <2>7. \A b \in R : b.stamp = pass[p].stamp /\ \A i \in 1..Parts : Safe(G, U, pass[p].stamp, i)
      BY <1>9, <2>6
    <2> HIDE DEF R
    <2>8. LeaveStep(p, st, d, G, U, R)
      BY <1>1, <1>2, <1>4, <1>5, <1>6, <1>7, <2>1, <2>7 DEF LeaveStep
    <2> QED BY <1>5, <1>6, <2>2, <2>5, <2>8, LeaveStore
  <1> QED BY <1>10, <1>11

LEMMA TickKeeps ==
  ASSUME IInv, Tick
  PROVE  IInv'
  <1>1. now' \in Times
    BY Assumed DEF Tick, IInv, TypeInv, Times
  <1>2. TypeInv'
    BY <1>1 DEF Tick, IInv, TypeInv
  <1>3. UNCHANGED <<runs, files, torn, pass, done>>
    BY DEF Tick
  <1>4. Place' /\ Distinct' /\ Begun' /\ Ahead'
    BY <1>3 DEF IInv, Place, Distinct, Busy, Begun, Ahead
  <1>5. Reported' /\ Copied'
    BY <1>3 DEF IInv, Reported, Copied, CopiedBy, Uploading, Dest
  <1> QED BY <1>2, <1>4, <1>5 DEF IInv

LEMMA StutterKeeps ==
  ASSUME IInv, UNCHANGED backupVars
  PROVE  IInv'
  <1> USE DEF backupVars
  <1>1. TypeInv' /\ Place' /\ Distinct' /\ Begun' /\ Ahead'
    BY DEF IInv, TypeInv, Place, Distinct, Busy, Begun, Ahead
  <1>2. Reported' /\ Copied'
    BY DEF IInv, Reported, Copied, CopiedBy, Uploading, Dest
  <1> QED BY <1>1, <1>2 DEF IInv

LEMMA NextKeeps ==
  ASSUME IInv, [BackupNext]_backupVars
  PROVE  IInv'
  <1>1. ASSUME NEW p \in Passes, Run(p) PROVE IInv'
    <2>1. CASE RunDue(p) \/ Forced(p)
      BY <2>1, BeginKeeps
    <2>2. CASE LoadState(p)
      BY <2>2, LoadStateKeeps
    <2>3. CASE DumpFails(p) \/ WriteState(p) \/ Die(p)
      BY <2>3, EndsKeep
    <2>4. CASE Copy(p)
      BY <2>4, CopyKeeps
    <2>5. CASE Prune(p)
      BY <2>5, PruneKeeps
    <2>6. CASE UploadFails(p)
      BY <2>6, UploadFailsKeeps
    <2>7. CASE PruneFails(p)
      BY <2>7, PruneFailsKeeps
    <2>8. CASE TruncateState(p)
      BY <2>8, TruncateKeeps
    <2> QED BY <1>1, <2>1, <2>2, <2>3, <2>4, <2>5, <2>6, <2>7, <2>8 DEF Run
  <1>2. CASE Tick
    BY <1>2, TickKeeps
  <1>3. CASE UNCHANGED backupVars
    BY <1>3, StutterKeeps
  <1> QED BY <1>1, <1>2, <1>3 DEF BackupNext

\* The state and the history of a run of scheduled backups have their types, for
\* any destinations, passes and bounds.
THEOREM TypeCorrect == BackupSpec => []BackupTypeOK
  <1>1. IInv => BackupTypeOK
    <2> SUFFICES ASSUME IInv PROVE BackupTypeOK
      OBVIOUS
    <2>1. now \in Times /\ aligned \in BOOLEAN /\ runs \in 0..MaxBackups
      BY Assumed DEF IInv, TypeInv
    <2>2. \A d \in Dests : torn[d] \subseteq files[d] /\ files[d] \subseteq [stamp : Stamps, part : 1..Parts]
      BY DEF IInv, TypeInv, Files
    <2>3. \A p \in Passes : pass[p].todo \subseteq Dests /\ pass[p].part \in 0..Parts
      BY DEF IInv, TypeInv, PassTypes
    <2> QED BY <2>1, <2>2, <2>3 DEF BackupTypeOK
  <1> QED BY <1>1, InitInv, NextKeeps, PTL DEF BackupSpec

\* run_backup: however passes overlap, fail and die, and whatever retention takes
\* part by part, a bundle reported stored stays whole until KeepLast later runs
\* have reached its destination.
THEOREM StoredStaysWholeHolds == BackupSpec => []StoredStaysWhole
  <1>1. IInv => StoredStaysWhole
    <2> SUFFICES ASSUME IInv, NEW d \in Dests, NEW b \in done[d], ~(Cardinality(Later(d, b.stamp)) >= KeepLast)
                 PROVE  Whole(d, b.stamp)
      BY DEF StoredStaysWhole
    <2>1. \A i \in 1..Parts : Safe(files[d], torn[d], b.stamp, i)
      BY DEF IInv, Reported
    <2>2. LaterIn(files[d], b.stamp) = Later(d, b.stamp)
      BY DEF LaterIn, Later
    <2> QED BY <2>1, <2>2 DEF Safe, Whole
  <1> QED BY <1>1, InitInv, NextKeeps, PTL DEF BackupSpec

-----------------------------------------------------------------------------
(* No window is skipped.                                                   *)

LEMMA Slots ==
  ASSUME NEW a \in Int, NEW n \in Nat \ {0}
  PROVE  n * (a \div n) <= a /\ a \div n \in Int
  OBVIOUS

\* A slot that was due is advanced to one that is not beyond the grace.
LEMMA SlotReached ==
  ASSUME now \in Nat, NEW planned \in Int, now >= planned + Interval - Grace
  PROVE  AdvanceSlot(planned) <= now + Grace
  <1> DEFINE a == now + Grace - planned
             missed == a \div Interval
             slots == IF missed > 1 THEN missed ELSE 1
  <1>1. a \in Int /\ a >= Interval /\ Interval \in Nat \ {0} /\ Grace \in Nat
    BY Assumed
  <1>2. Interval * missed <= a /\ missed \in Int
    <2> HIDE DEF a
    <2> QED BY <1>1, Slots
  <1> HIDE DEF missed
  <1>3. Interval * slots <= a
    <2>1. CASE missed > 1
      BY <1>2, <2>1
    <2>2. CASE ~(missed > 1)
      BY <1>1, <2>2
    <2> QED BY <2>1, <2>2
  <1>4. Interval * slots \in Int
    BY <1>1, <1>2
  <1>5. AdvanceSlot(planned) = planned + Interval * slots
    BY DEF AdvanceSlot, missed
  <1> HIDE DEF slots
  <1> QED BY <1>1, <1>3, <1>4, <1>5

LEMMA BackedMore ==
  ASSUME NEW e, NEW D, NEW E, D \subseteq E, Backed(e, D)
  PROVE  Backed(e, E)
  BY DEF Backed

\* The entry of a bundle just reported.
LEMMA BackedNext ==
  ASSUME now \in Nat, NEW e \in Entries, NEW D, NEW b \in D, b.at = now,
         aligned => DueAt(now, e)
  PROVE  Backed(NextEntry(e), D)
  <1>1. NextEntry(e).last = b.at
    BY DEF NextEntry
  <1>2. CASE aligned /\ e.planned # -1
    <2>1. now >= e.planned + Interval - Grace /\ e.planned \in Int
      BY <1>2 DEF DueAt, Entries
    <2>2. AdvanceSlot(e.planned) <= b.at + Grace
      BY <2>1, SlotReached
    <2>3. NextEntry(e).planned = AdvanceSlot(e.planned)
      BY <1>2 DEF NextEntry
    <2> QED BY <1>1, <2>2, <2>3 DEF Backed
  <1>3. CASE ~(aligned /\ e.planned # -1)
    <2>1. NextEntry(e).planned = b.at /\ b.at <= b.at + Grace
      BY <1>3, Assumed DEF NextEntry
    <2> QED BY <1>1, <2>1 DEF Backed
  <1> QED BY <1>2, <1>3

\* A pass moves, and what it knows or writes stays backed and due.
FreshStep(p, e) ==
  /\ Set(p, e) /\ UNCHANGED <<now, aligned>>
  /\ \A d \in Dests : /\ done[d] \subseteq done'[d]
                       /\ Backed(entry'[d], done'[d]) /\ Backed(e.state[d], done'[d])
  /\ entry' = entry \/ Busy(p)
  /\ e.step # "idle" => Busy(p) \/ (aligned => Alone)
  /\ aligned => ToDoDue(e, entry', now)

LEMMA FreshMove ==
  ASSUME IInv, FreshInv, NEW p \in Passes, NEW e \in PassTypes, FreshStep(p, e)
  PROVE  FreshInv'
  <1> USE DEF FreshStep, FreshInv
  <1>1. pass'[p] = e /\ \A q \in Passes \ {p} : pass'[q] = pass[q]
    BY DEF Set, IInv, TypeInv
  <1>2. AllBacked'
    <2> SUFFICES ASSUME NEW d \in Dests, NEW q \in Passes
                 PROVE  Backed(entry'[d], done'[d]) /\ Backed(pass'[q].state[d], done'[d])
      BY DEF AllBacked
    <2>1. CASE q = p
      BY <1>1, <2>1
    <2>2. CASE q # p
      <3>1. Backed(pass[q].state[d], done[d])
        BY DEF AllBacked
      <3>2. done[d] \subseteq done'[d]
        OBVIOUS
      <3> QED BY <1>1, <2>2, <3>1, <3>2, BackedMore
    <2> QED BY <2>1, <2>2
  <1>3. ASSUME aligned, e.step # "idle", NEW q \in Passes \ {p} PROVE ~Busy(q)
    <2>1. CASE Busy(p)
      BY <1>3, <2>1 DEF OnlyOne
    <2>2. CASE Alone
      BY <2>2, IdleType DEF Alone, Busy
    <2> QED BY <1>3, <2>1, <2>2
  <1>4. OnlyOne'
    <2>1. ASSUME aligned, NEW q \in Passes, NEW r \in Passes, pass'[q].step # "idle", pass'[r].step # "idle"
          PROVE  q = r
      <3>1. CASE q = p \/ r = p
        <4>1. e.step # "idle"
          BY <1>1, <2>1, <3>1
        <4>2. \A x \in Passes \ {p} : pass'[x].step = "idle"
          BY <1>1, <1>3, <2>1, <4>1 DEF Busy
        <4> QED BY <2>1, <4>2
      <3>2. CASE q # p /\ r # p
        BY <1>1, <2>1, <3>2 DEF OnlyOne, Busy
      <3> QED BY <3>1, <3>2
    <2> QED BY <2>1 DEF OnlyOne, Busy
  <1>5. StillDue'
    <2>1. ASSUME aligned, NEW q \in Passes PROVE ToDoDue(pass'[q], entry', now)
      <3>1. CASE q = p
        BY <1>1, <2>1, <3>1
      <3>2. CASE q # p /\ entry' = entry
        BY <1>1, <2>1, <3>2 DEF StillDue
      <3>3. CASE q # p /\ Busy(p)
        <4>1. ~Busy(q)
          BY <2>1, <3>3 DEF OnlyOne
        <4>2. pass'[q] = pass[q] /\ pass[q].todo = {}
          BY <1>1, <3>3, <4>1, IdleType DEF IInv, Place, PlaceAt, Busy
        <4> QED BY <4>2 DEF ToDoDue
      <3> QED BY <3>1, <3>2, <3>3
    <2>2. aligned' = aligned /\ now' = now
      OBVIOUS
    <2> QED BY <2>1, <2>2 DEF StillDue
  <1> QED BY <1>2, <1>4, <1>5

LEMMA NowNat == IInv => now \in Nat
  BY Assumed DEF IInv, TypeInv, Times

LEMMA NoneBacked == \A D : Backed(NoEntry, D)
  BY DEF Backed, NoEntry

LEMMA FreshInit == BackupInit => FreshInv
  <1> SUFFICES ASSUME BackupInit PROVE FreshInv
    OBVIOUS
  <1>1. \A d \in Dests : entry[d] = NoEntry /\ \A p \in Passes : pass[p].state[d] = NoEntry
    BY IdleType DEF BackupInit
  <1>2. AllBacked
    BY <1>1, NoneBacked DEF AllBacked
  <1>3. \A p \in Passes : ~Busy(p) /\ pass[p].todo = {}
    BY IdleType DEF BackupInit, Busy
  <1> QED BY <1>2, <1>3 DEF FreshInv, OnlyOne, StillDue, ToDoDue

LEMMA FreshBegin ==
  ASSUME Setting, IInv, FreshInv, NEW p \in Passes, RunDue(p) \/ Forced(p)
  PROVE  FreshInv'
  <1>1. PICK targets \in SUBSET Dests :
          Begin(p, targets) /\ ((RunDue(p) /\ targets = {d \in Dests : Due(d)}) \/ Forced(p))
    BY DEF RunDue, Forced
  <1> DEFINE e == [IdlePass EXCEPT !.step = "dump", !.stamp = runs + 1, !.todo = targets]
  <1>2. aligned => Disciplined
    BY DEF Setting, IInv, TypeInv
  <1>3. runs + 1 \in 0..MaxBackups
    BY <1>1, Assumed DEF Begin, IInv, TypeInv
  <1>4. e \in PassTypes /\ e.step = "dump" /\ e.todo = targets /\ e.state = [d \in Dests |-> NoEntry]
    BY <1>3, IdleType DEF PassTypes, Steps
  <1>5. Set(p, e) /\ UNCHANGED <<now, aligned, entry, done>> /\ (aligned => Alone)
    BY <1>1, <1>2 DEF Begin
  <1> HIDE DEF e
  <1>6. ASSUME aligned PROVE ToDoDue(e, entry', now)
    <2>1. RunDue(p) /\ targets = {d \in Dests : Due(d)}
      BY <1>1, <1>2, <1>6 DEF Forced
    <2>2. \A d \in targets : DueAt(now, entry[d])
      BY <1>6, <2>1 DEF Due, IsDueAligned, DueAt
    <2> QED BY <1>4, <1>5, <2>2 DEF ToDoDue
  <1>7. \A d \in Dests : /\ done[d] \subseteq done'[d]
                         /\ Backed(entry'[d], done'[d]) /\ Backed(e.state[d], done'[d])
    BY <1>4, <1>5, NoneBacked DEF FreshInv, AllBacked
  <1>8. FreshStep(p, e)
    BY <1>5, <1>6, <1>7 DEF FreshStep
  <1> QED BY <1>4, <1>8, FreshMove

LEMMA FreshLoad ==
  ASSUME IInv, FreshInv, NEW p \in Passes, LoadState(p)
  PROVE  FreshInv'
  <1> DEFINE e == [pass[p] EXCEPT !.step = "copy", !.part = 1, !.state = entry]
  <1>1. pass[p] \in PassTypes /\ pass[p].step = "dump" /\ 1 \in 0..Parts /\ "copy" \in Steps
    BY Assumed DEF IInv, TypeInv, LoadState, Steps
  <1>2. e \in PassTypes
    BY <1>1, StepPartType DEF IInv
  <1>3. e.step = "copy" /\ e.todo = pass[p].todo /\ e.state = entry
    BY <1>1 DEF PassTypes
  <1>4. Set(p, e) /\ UNCHANGED <<now, aligned, entry, done>> /\ Busy(p)
    BY <1>1 DEF LoadState, Busy
  <1> HIDE DEF e
  <1>5. ASSUME aligned PROVE ToDoDue(e, entry', now)
    <2>1. ToDoDue(pass[p], entry, now)
      BY <1>5 DEF FreshInv, StillDue
    <2> QED BY <1>1, <1>3, <2>1 DEF ToDoDue
  <1>6. \A d \in Dests : /\ done[d] \subseteq done'[d]
                         /\ Backed(entry'[d], done'[d]) /\ Backed(e.state[d], done'[d])
    BY <1>3, <1>4 DEF FreshInv, AllBacked
  <1>7. FreshStep(p, e)
    BY <1>4, <1>5, <1>6 DEF FreshStep
  <1> QED BY <1>2, <1>7, FreshMove

\* Steps after which a pass has the same entries and no more to do.
LEMMA FreshOn ==
  ASSUME IInv, FreshInv, NEW p \in Passes, Uploading(p), NEW e \in PassTypes, Set(p, e),
         UNCHANGED <<now, aligned, entry, done>>,
         e.state = pass[p].state, e.todo \subseteq pass[p].todo, e.step # "dump"
  PROVE  FreshInv'
  <1>1. Busy(p)
    BY DEF Busy, Uploading
  <1>2. ASSUME aligned PROVE ToDoDue(e, entry', now)
    <2>1. ToDoDue(pass[p], entry, now)
      BY <1>2 DEF FreshInv, StillDue
    <2> QED BY <2>1 DEF ToDoDue, Uploading
  <1>3. \A d \in Dests : /\ done[d] \subseteq done'[d]
                         /\ Backed(entry'[d], done'[d]) /\ Backed(e.state[d], done'[d])
    BY DEF FreshInv, AllBacked
  <1>4. FreshStep(p, e)
    BY <1>1, <1>2, <1>3 DEF FreshStep
  <1> QED BY <1>4, FreshMove

LEMMA FreshPrune ==
  ASSUME IInv, FreshInv, NEW p \in Passes, Prune(p)
  PROVE  FreshInv'
  <1>1. Uploading(p) /\ pass[p].step = "prune" /\ pass[p] \in PassTypes
    BY DEF Prune, Uploading, IInv, TypeInv
  <1>2. UNCHANGED <<now, aligned, entry>>
    BY DEF Prune
  <1>3. CASE pass[p].part < Parts
    <2> DEFINE e == [pass[p] EXCEPT !.step = "copy", !.part = @ + 1]
    <2>1. Set(p, e) /\ UNCHANGED done
      BY <1>3 DEF Prune
    <2>2. pass[p].part + 1 \in 0..Parts /\ "copy" \in Steps
      BY <1>1, <1>3, Assumed DEF Steps, PassTypes
    <2>3. e \in PassTypes /\ e.step = "copy" /\ e.todo = pass[p].todo /\ e.state = pass[p].state
      BY <1>1, <2>2 DEF PassTypes
    <2> HIDE DEF e
    <2> QED BY <1>1, <1>2, <2>1, <2>3, FreshOn
  <1>4. CASE ~(pass[p].part < Parts)
    <2> DEFINE d == Dest(p)
               st == [pass[p].state EXCEPT ![d] = NextEntry(@)]
               e == Left(p, st)
               b == [stamp |-> pass[p].stamp, at |-> now]
    <2>1. Set(p, e) /\ done' = [done EXCEPT ![d] = @ \cup {b}]
      BY <1>4 DEF Prune, Leave, Left, Set
    <2>2. d \in Dests /\ d \in pass[p].todo /\ st \in States
      BY <1>1, DestIn, StateType DEF IInv
    <2>3. e \in PassTypes /\ e.todo = pass[p].todo \ {d} /\ e.state = st /\ e.step \in {"save", "copy"}
      BY <2>2, LeftType DEF IInv
    <2>4. pass[p].state \in States /\ pass[p].state[d] \in Entries /\ Busy(p)
      BY <1>1, <2>2 DEF PassTypes, States, Busy
    <2>5. st[d] = NextEntry(pass[p].state[d]) /\ \A c \in Dests \ {d} : st[c] = pass[p].state[c]
      BY <2>2, <2>4 DEF States
    <2>6. \A c \in Dests : done[c] \subseteq done'[c]
      BY <2>1 DEF IInv, TypeInv
    <2>7. b \in done'[d] /\ b.at = now
      BY <2>1, <2>2 DEF IInv, TypeInv
    <2> HIDE DEF e, d, st, b
    <2>8. aligned => ToDoDue(pass[p], entry, now)
      BY DEF FreshInv, StillDue
    <2>9. Backed(st[d], done'[d])
      <3>1. aligned => DueAt(now, pass[p].state[d])
        BY <1>1, <2>2, <2>8 DEF ToDoDue
      <3> QED BY <2>4, <2>5, <2>7, <3>1, NowNat, BackedNext
    <2>10. \A c \in Dests : Backed(entry'[c], done'[c]) /\ Backed(e.state[c], done'[c])
      <3> SUFFICES ASSUME NEW c \in Dests PROVE Backed(entry[c], done'[c]) /\ Backed(st[c], done'[c])
        BY <1>2, <2>3
      <3>1. Backed(entry[c], done[c]) /\ Backed(pass[p].state[c], done[c]) /\ done[c] \subseteq done'[c]
        BY <2>6 DEF FreshInv, AllBacked
      <3>2. Backed(entry[c], done'[c]) /\ Backed(pass[p].state[c], done'[c])
        BY <3>1, BackedMore
      <3> QED BY <2>5, <2>9, <3>2
    <2>11. aligned => ToDoDue(e, entry', now)
      <3>1. \A c \in e.todo : c \in pass[p].todo /\ c \in Dests \ {d}
        BY <1>1, <2>3 DEF PassTypes
      <3>2. \A c \in e.todo : e.state[c] = pass[p].state[c]
        BY <2>3, <2>5, <3>1
      <3> QED BY <1>1, <2>3, <2>8, <3>1, <3>2 DEF ToDoDue
    <2>12. FreshStep(p, e)
      BY <1>2, <2>1, <2>4, <2>6, <2>10, <2>11 DEF FreshStep
    <2> QED BY <2>3, <2>12, FreshMove
  <1> QED BY <1>3, <1>4

LEMMA FreshUpload ==
  ASSUME IInv, FreshInv, NEW p \in Passes, Copy(p) \/ UploadFails(p) \/ PruneFails(p)
  PROVE  FreshInv'
  <1>1. Uploading(p) /\ UNCHANGED <<now, aligned, entry, done>> /\ pass[p] \in PassTypes
    BY DEF Copy, UploadFails, PruneFails, Uploading, IInv, TypeInv
  <1>2. CASE Copy(p)
    <2> DEFINE e == [pass[p] EXCEPT !.step = "prune"]
    <2>1. Set(p, e)
      BY <1>2 DEF Copy
    <2>2. e \in PassTypes /\ e.step = "prune" /\ e.todo = pass[p].todo /\ e.state = pass[p].state
      BY <1>1 DEF PassTypes, Steps
    <2> HIDE DEF e
    <2> QED BY <1>1, <2>1, <2>2, FreshOn
  <1>3. CASE UploadFails(p) \/ PruneFails(p)
    <2> DEFINE st == pass[p].state
               e == Left(p, st)
    <2>1. Set(p, e)
      BY <1>3 DEF UploadFails, PruneFails, Leave, Left, Set
    <2>2. st \in States
      BY <1>1 DEF PassTypes
    <2>3. e \in PassTypes /\ e.todo \subseteq pass[p].todo /\ e.state = st /\ e.step # "dump"
      BY <2>2, LeftType DEF IInv
    <2> HIDE DEF e
    <2> QED BY <1>1, <2>1, <2>3, FreshOn
  <1> QED BY <1>2, <1>3

LEMMA FreshTruncate ==
  ASSUME IInv, FreshInv, NEW p \in Passes, TruncateState(p)
  PROVE  FreshInv'
  <1> DEFINE e == [pass[p] EXCEPT !.step = "write"]
  <1>1. pass[p] \in PassTypes /\ pass[p].step = "save" /\ Busy(p)
    BY DEF IInv, TypeInv, TruncateState, Busy
  <1>2. e \in PassTypes /\ e.step = "write" /\ e.todo = pass[p].todo /\ e.state = pass[p].state
    BY <1>1 DEF PassTypes, Steps
  <1>3. Set(p, e) /\ UNCHANGED <<now, aligned, done>> /\ \A d \in Dests : entry'[d] = NoEntry
    BY DEF TruncateState
  <1> HIDE DEF e
  <1>4. ToDoDue(e, entry', now)
    BY <1>2 DEF ToDoDue
  <1>5. FreshStep(p, e)
    BY <1>1, <1>2, <1>3, <1>4, NoneBacked DEF FreshStep, FreshInv, AllBacked
  <1> QED BY <1>2, <1>5, FreshMove

LEMMA FreshEnd ==
  ASSUME IInv, FreshInv, NEW p \in Passes, DumpFails(p) \/ WriteState(p) \/ Die(p)
  PROVE  FreshInv'
  <1>1. Set(p, IdlePass) /\ UNCHANGED <<now, aligned, done>>
    BY DEF DumpFails, WriteState, Die
  <1>2. /\ entry' = entry \/ Busy(p)
        /\ \A d \in Dests : Backed(entry'[d], done'[d])
    <2>1. CASE WriteState(p)
      <3>1. entry' = pass[p].state /\ Busy(p) /\ UNCHANGED done
        BY <2>1 DEF WriteState, Busy
      <3> QED BY <3>1 DEF FreshInv, AllBacked
    <2>2. CASE DumpFails(p) \/ Die(p)
      <3>1. UNCHANGED <<entry, done>>
        BY <2>2 DEF DumpFails, Die
      <3> QED BY <3>1 DEF FreshInv, AllBacked
    <2> QED BY <2>1, <2>2
  <1>3. ToDoDue(IdlePass, entry', now)
    BY IdleType DEF ToDoDue
  <1>4. \A d \in Dests : Backed(IdlePass.state[d], done'[d])
    BY IdleType, NoneBacked
  <1>5. FreshStep(p, IdlePass)
    BY <1>1, <1>2, <1>3, <1>4, IdleType DEF FreshStep
  <1> QED BY <1>5, IdleType, FreshMove

LEMMA FreshTick ==
  ASSUME IInv, FreshInv, Tick
  PROVE  FreshInv'
  <1>1. now' = now + 1 /\ now \in Nat /\ UNCHANGED <<aligned, entry, pass, done>>
    BY NowNat DEF Tick
  <1>2. AllBacked' /\ OnlyOne'
    BY <1>1 DEF FreshInv, AllBacked, OnlyOne, Busy
  <1>3. \A e \in Entries : DueAt(now, e) => DueAt(now', e)
    BY <1>1, Assumed DEF DueAt, Entries
  <1>4. \A d \in Dests : entry[d] \in Entries /\ \A p \in Passes : pass[p].state[d] \in Entries
    BY DEF IInv, TypeInv, States, PassTypes
  <1>5. StillDue'
    <2> SUFFICES ASSUME aligned, NEW p \in Passes PROVE ToDoDue(pass[p], entry, now')
      BY <1>1 DEF StillDue
    <2>1. ToDoDue(pass[p], entry, now) /\ pass[p].todo \subseteq Dests
      BY DEF FreshInv, StillDue, IInv, TypeInv, PassTypes
    <2> QED BY <1>3, <1>4, <2>1 DEF ToDoDue
  <1> QED BY <1>2, <1>5 DEF FreshInv

LEMMA FreshNext ==
  ASSUME Setting, IInv, FreshInv, [BackupNext]_backupVars
  PROVE  FreshInv'
  <1>1. ASSUME NEW p \in Passes, Run(p) PROVE FreshInv'
    <2>1. CASE RunDue(p) \/ Forced(p)
      BY <2>1, FreshBegin
    <2>2. CASE LoadState(p)
      BY <2>2, FreshLoad
    <2>3. CASE DumpFails(p) \/ WriteState(p) \/ Die(p)
      BY <2>3, FreshEnd
    <2>4. CASE Copy(p) \/ UploadFails(p) \/ PruneFails(p)
      BY <2>4, FreshUpload
    <2>5. CASE Prune(p)
      BY <2>5, FreshPrune
    <2>6. CASE TruncateState(p)
      BY <2>6, FreshTruncate
    <2> QED BY <1>1, <2>1, <2>2, <2>3, <2>4, <2>5, <2>6 DEF Run
  <1>2. CASE Tick
    BY <1>2, FreshTick
  <1>3. CASE UNCHANGED backupVars
    BY <1>3 DEF backupVars, FreshInv, AllBacked, OnlyOne, StillDue, Busy
  <1> QED BY <1>1, <1>2, <1>3 DEF BackupNext

\* run_due_backups: whatever passes fail, die or lose each other's entries, a
\* destination that is not due has reported a bundle within one interval. With
\* aligned slots that takes passes that do not overlap.
THEOREM NotDueMeansFreshHolds ==
  ASSUME Setting
  PROVE  BackupSpec => []NotDueMeansFresh
  <1>1. IInv /\ FreshInv => NotDueMeansFresh
    <2> SUFFICES ASSUME IInv, FreshInv, NEW d \in Dests, ~Due(d)
                 PROVE  \E b \in done[d] : now - b.at < Interval
      BY DEF NotDueMeansFresh
    <2>1. entry[d] \in Entries /\ now \in Nat /\ Backed(entry[d], done[d]) /\ \A b \in done[d] : b.at \in Nat
      BY NowNat, Assumed DEF IInv, TypeInv, States, Reports, Times, FreshInv, AllBacked
    <2>2. CASE aligned
      <3>1. entry[d].planned # -1 /\ ~(now >= entry[d].planned + Interval - Grace)
        BY <2>2 DEF Due, IsDueAligned
      <3>2. PICK b \in done[d] : entry[d].planned <= b.at + Grace
        BY <2>1, <3>1 DEF Backed
      <3>3. now - b.at < Interval
        BY <2>1, <3>1, <3>2, Assumed DEF Entries
      <3> QED BY <3>3
    <2>3. CASE ~aligned
      <3>1. entry[d].last # -1 /\ ~(now - entry[d].last >= Interval - Grace)
        BY <2>3 DEF Due, IsDue
      <3>2. PICK b \in done[d] : entry[d].last = b.at
        BY <2>1, <3>1 DEF Backed
      <3>3. now - b.at < Interval
        BY <2>1, <3>1, <3>2, Assumed
      <3> QED BY <3>3
    <2> QED BY <2>2, <2>3
  <1>2. BackupInit => IInv /\ FreshInv
    BY InitInv, FreshInit
  <1>3. IInv /\ FreshInv /\ [BackupNext]_backupVars => (IInv /\ FreshInv)'
    BY NextKeeps, FreshNext
  <1> QED BY <1>1, <1>2, <1>3, PTL DEF BackupSpec

-----------------------------------------------------------------------------
(* StreamedDump: where the blocks of the dump are, and which of the child, *)
(* the copier and the caller is through.                                   *)

DumpTypes ==
  /\ age \in BOOLEAN
  /\ child \in [left : Nat, noise : Nat, running : BOOLEAN, failed : BOOLEAN]
  /\ {stdout, stderr, pipe} \subseteq 0..PipeSize
  /\ writing \in [step : {"copy", "stderr", "done"}, error : {"none", "dump", "other"}]
  /\ reading \in [step : {"encrypt", "check", "replace", "cleanup", "raised", "stored", "failed", "dead"},
                  open : BOOLEAN]
  /\ tmp \in Nat \cup {NoDump} /\ out \in Nat \cup {NoDump}

\* A child that succeeded has written everything, and while it runs what it has
\* written to stderr is there.
ChildTrue ==
  /\ child.running => stderr + child.noise = Noise
  /\ ~child.running /\ ~child.failed => child.left = 0

\* The copier is past stdout only when the child has exited and stdout is empty, and
\* it ends without an exception only after a child that succeeded.
CopierTrue ==
  /\ writing.step = "stderr" => ~child.running /\ stdout = 0
  /\ writing.error # "none" => writing.step = "done"
  /\ writing.step = "done" /\ writing.error = "none" => ~child.running /\ ~child.failed /\ stdout = 0

\* The caller checks an encrypted dump when the copier is through and the pipe is
\* empty, and keeps the read end open until it has ended. A plain dump is in place
\* before the check, and is removed by the caller or by the owner of its directory.
CallerTrue ==
  /\ reading.step \in {"encrypt", "replace"} => age
  /\ reading.open <=> age /\ reading.step \notin {"stored", "failed", "dead"}
  /\ age /\ reading.step \in {"check", "replace", "stored"} => pipe = 0 /\ writing.step = "done"
  /\ ~age => pipe = 0 /\ tmp = NoDump
  /\ reading.step \in {"replace", "stored"} => writing.step = "done" /\ writing.error = "none"
  /\ reading.step = "raised" => ~age /\ writing.step = "done"
  /\ ~age /\ reading.step \in {"cleanup", "failed"} => writing.step = "done"

\* Until the caller has ended, every block is somewhere, unless the child has failed.
BlocksTrue ==
  /\ age /\ reading.step \in {"encrypt", "check", "replace"} =>
       tmp \in Nat /\ (~child.failed => child.left + stdout + pipe + tmp = Blocks)
  /\ ~age /\ reading.step \in {"check", "stored"} =>
       out \in Nat /\ (~child.failed => child.left + stdout + out = Blocks)
  /\ age /\ reading.step # "stored" => out = NoDump
  /\ age /\ reading.step = "stored" => out = Blocks
  /\ reading.step = "failed" => tmp = NoDump /\ out = NoDump

DumpInv == DumpTypes /\ ChildTrue /\ CopierTrue /\ CallerTrue /\ BlocksTrue

\* backup.py and crypto.py, for dumps of every length and pipes of every size: what is
\* handed on to be stored is whole, an encrypted dump is never in part under its final
\* name, a failed one leaves no file, and as long as what pg_dump says on stderr fits a
\* pipe somebody can go on until one or the other.
THEOREM DumpEndsWholeHolds == Noise =< PipeSize => (DumpSpec => []DumpEndsWhole)
<1> SUFFICES ASSUME Noise =< PipeSize PROVE DumpSpec => []DumpEndsWhole
  OBVIOUS
<1> USE DumpAssumption
<1>1. DumpInit => DumpInv
  BY DEF DumpInit, DumpInv, DumpTypes, ChildTrue, CopierTrue, CallerTrue, BlocksTrue, NoDump
<1>2. DumpInv /\ [DumpNext]_dumpVars => DumpInv'
  <2> SUFFICES ASSUME DumpInv, [DumpNext]_dumpVars PROVE DumpInv'
    OBVIOUS
  <2> USE DEF DumpInv, DumpTypes, ChildTrue, CopierTrue, CallerTrue, BlocksTrue, NoDump
  <2>1. CASE ChildWrites
    BY <2>1 DEF ChildWrites, CanWrite
  <2>2. CASE ChildWarns
    BY <2>2 DEF ChildWarns, CanWarn
  <2>3. CASE ChildExits
    BY <2>3 DEF ChildExits, CanExit
  <2>4. CASE ChildKilled
    BY <2>4 DEF ChildKilled, Unread
  <2>5. CASE CopyBlock
    BY <2>5 DEF CopyBlock, CanCopy
  <2>6. CASE BrokenPipe
    BY <2>6 DEF BrokenPipe, Refused
  <2>7. CASE CopyEnds
    BY <2>7 DEF CopyEnds, Drained
  <2>8. CASE WaitChild
    BY <2>8 DEF WaitChild, Exited, Outcome
  <2>9. CASE EncryptBlock
    BY <2>9 DEF EncryptBlock, CanEncrypt
  <2>10. CASE EncryptEnds
    BY <2>10 DEF EncryptEnds, AtEnd, Closed
  <2>11. CASE Check
    BY <2>11 DEF Check, Joined, AfterCopy
  <2>12. CASE Cleanup
    BY <2>12 DEF Cleanup
  <2>13. CASE ReplaceDump
    BY <2>13 DEF ReplaceDump
  <2>14. CASE ChildFails
    BY <2>14 DEF ChildFails, DumpFault
  <2>15. CASE EncryptFails
    BY <2>15 DEF EncryptFails, DumpFault
  <2>16. CASE CopyFails
    BY <2>16 DEF CopyFails, DumpFault
  <2>17. CASE DiscardDump
    BY <2>17 DEF DiscardDump
  <2>18. CASE DumpDies
    BY <2>18 DEF DumpDies, DumpFault, Ended
  <2>19. CASE UNCHANGED dumpVars
    BY <2>19 DEF dumpVars
  <2> QED BY <2>1, <2>2, <2>3, <2>4, <2>5, <2>6, <2>7, <2>8, <2>9, <2>10, <2>11, <2>12, <2>13, <2>14, <2>15, <2>16,
        <2>17, <2>18, <2>19
     DEF DumpNext, Work
<1>3. DumpInv => PublishedWhole
  BY DEF DumpInv, DumpTypes, ChildTrue, CopierTrue, CallerTrue, BlocksTrue, NoDump, PublishedWhole
<1>4. DumpInv => NeverStuck
  <2> SUFFICES ASSUME DumpInv, ~Ended PROVE SomebodyCan
    BY DEF NeverStuck
  <2> USE DEF DumpInv, DumpTypes
  <2>1. CASE reading.step \in {"cleanup", "replace", "raised"}
    BY <2>1 DEF SomebodyCan
  <2>2. CASE reading.step \in {"encrypt", "check"} /\ writing.step = "done"
    BY <2>2 DEF SomebodyCan, Joined, CanEncrypt, AtEnd, Closed
  <2>3. CASE reading.step \in {"encrypt", "check"} /\ writing.step = "stderr"
    BY <2>3 DEF SomebodyCan, Exited, CopierTrue
  <2>4. CASE reading.step \in {"encrypt", "check"} /\ writing.step = "copy"
    <3>1. CASE stdout > 0
      <4>1. age => reading.open
        BY <2>4 DEF CallerTrue
      <4>2. age /\ pipe > 0 => CanEncrypt
        BY <2>4 DEF CallerTrue, CanEncrypt
      <4>3. age /\ pipe = 0 => CanCopy
        BY <2>4, <3>1, <4>1 DEF CanCopy
      <4>4. ~age => CanCopy
        BY <2>4, <3>1 DEF CanCopy
      <4> QED BY <4>2, <4>3, <4>4 DEF SomebodyCan
    <3>2. CASE stdout = 0 /\ ~child.running
      BY <2>4, <3>2 DEF SomebodyCan, Drained
    <3>3. CASE stdout = 0 /\ child.running
      <4>1. child.left > 0 => CanWrite
        BY <3>3 DEF CanWrite
      <4>2. child.noise > 0 => CanWarn
        BY <3>3 DEF CanWarn, ChildTrue
      <4>3. child.left = 0 /\ child.noise = 0 => CanExit
        BY <3>3 DEF CanExit
      <4> QED BY <4>1, <4>2, <4>3 DEF SomebodyCan
    <3> QED BY <3>1, <3>2, <3>3
  <2> QED BY <2>1, <2>2, <2>3, <2>4 DEF Ended
<1> QED BY <1>1, <1>2, <1>3, <1>4, PTL DEF DumpSpec, DumpEndsWhole
=============================================================================
