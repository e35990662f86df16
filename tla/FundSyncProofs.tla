---------------------------- MODULE FundSyncProofs ----------------------------
(***************************************************************************)
(* The synchronisation of the universe, and the composition it imports.    *)
(*                                                                         *)
(* For any universe, listing, batch size, flags and number of pipelines    *)
(* and scheduled runs: a pipeline that exits 0 has accounted for every     *)
(* fund it found without prices, a metadata sweep that is resumed misses   *)
(* none, and the batches are one pass over the list.  The inductive        *)
(* invariant says what a child that is at a symbol has still before it,    *)
(* what the sweep has still before it, and, for a sweep that was stopped,  *)
(* how many funds come before each one it owes: that number only grows,    *)
(* so the batch it is resumed at is not beyond it.  A variant in five      *)
(* figures shows that no pipeline goes round in circles.                   *)
(*                                                                         *)
(* For any number of overlapping imports, dates, ranks, labels and readers *)
(* a snapshot is never a blend of imports, and a list that was read is the *)
(* whole list of one.  The inductive invariant follows what a transaction  *)
(* has deleted: either nothing of the first statement's table, or all of   *)
(* it, and then all of the date.  Rank 1, which every import writes, lets  *)
(* one transaction at a time past its first insert, and only over rows     *)
(* that it has deleted.                                                    *)
(* So what a commit shows is one import in the place of another: the four  *)
(* statements implement SnapshotStore, step by step.                       *)
(***************************************************************************)
EXTENDS FundSyncRuns, FundComposition, FiniteSetTheorems, SequenceTheorems,
        WellFoundedInduction, TLAPS

Child == runs["child"]

\* The symbols of a list from a batch on.
Part(list, from, to) == {list[i] : i \in {k \in 1..Len(list) : from < k /\ k <= to}}
Edge(n) == n * BatchSize
Rest(list, next) == Part(list, Edge(next - 1), Len(list))
Sorted(list) == \A i, j \in 1..Len(list) : i < j => list[i] < list[j]

\* The steps ahead of a run are steps it was asked for.
StepsAsked(run) == \A i \in DOMAIN run.pending : run.pending[i] \in run.request.steps

\* A child works on the batch at hand, and the last scoring follows the sweeps.
ProcessesFit ==
  /\ \A r \in Runners : StepsAsked(runs[r])
  /\ Child.at # "off" =>
       cli.at \in Sweeps /\ cli.next <= cli.last /\ Child.request = BatchRequest
  /\ runs["parent"].at # "off" => cli.at = "final"

\* A sweep of funds lists persisted ones in order, and stops with its last batch.
SweepFits ==
  /\ cli.at = "catalog" => args.entry = "catalog"
  /\ cli.at \in {"metadata", "prices"} =>
       /\ Sorted(cli.list) /\ ToSet(cli.list) \subseteq funds
       /\ cli.last <= BatchCount(Len(cli.list))
       /\ args.cap = NoCap => cli.last = BatchCount(Len(cli.list))

\* The run of a price batch has dealt with the due symbols it is past.
Accounted(due, run, prices) ==
  LET batch == due \cap ToSet(run.request.symbols)
      dealt == prices \cup run.failed \cup run.empty
  IN /\ run.at # "scoring"
     /\ run.at = "syncing" => batch \subseteq dealt \cup ToSet(run.todo)
     /\ run.at = "ended" /\ run.cut = "no" => batch \subseteq dealt

\* What is due of a whole price sweep has been dealt with or is still to come.
PricesAccounted ==
  /\ cli.at = "prices" /\ args.start["prices"] = 1 =>
       /\ trail.due \cap Foreign = {}
       /\ trail.due \subseteq priced \cup trail.reported \cup Rest(cli.list, cli.next)
       /\ Accounted(trail.due, Child, priced)
  /\ ( /\ \/ cli.at \in {"final"} \cup ToSet(PostProcessing)
          \/ cli.at = "exited" /\ cli.exit = "0"
       /\ args.entry = "production" /\ "skip-prices" \notin args.flags
       /\ args.cap = NoCap /\ args.start["prices"] = 1 )
     => trail.due \subseteq priced \cup trail.reported

\* What metadata owes is in the batches still to come, and stays there when
\* funds are added while the sweep is stopped.
Before(x) == Cardinality({f \in funds : f < x})
MetadataAccounted ==
  /\ cli.at = "metadata" => trail.owed \subseteq Rest(cli.list, cli.next)
  /\ cli.at = "exited" /\ cli.stopped = "metadata" =>
       /\ trail.owed \subseteq funds
       /\ \A x \in trail.owed : Before(x) >= Edge(cli.next - 1)
  /\ ResumedMetadataMissesNothing

SyncInv ==
  SyncTyped /\ ProcessesFit /\ SweepFits /\ PricesAccounted /\ MetadataAccounted

\* What a pipeline has still before it: stages, batches, where the process at work
\* is, its symbols and the steps of the first of them.
StagesLeft(at) ==
  CASE at = "metadata" -> 6 [] at \in {"prices", "catalog"} -> 5 [] at = "themes" -> 4
    [] at = "benchmarks" -> 3 [] at = "visibility" -> 2 [] at = "final" -> 1 [] OTHER -> 0
BatchesLeft == IF cli.next <= cli.last THEN cli.last + 1 - cli.next ELSE 0
PlacesLeft(at) ==
  CASE at = "off" -> 5 [] at = "booting" -> 4 [] at = "resolving" -> 3
    [] at = "syncing" -> 2 [] at = "scoring" -> 1 [] OTHER -> 0
Process == IF cli.at = "final" THEN runs["parent"] ELSE Child
WorkLeft ==
  <<StagesLeft(cli.at), BatchesLeft, PlacesLeft(Process.at), Len(Process.todo), Len(Process.pending)>>

\* The lexicographic order of such figures, which has no descending chain.
Smaller(a, b) == \E k \in 1..5 : a[k] < b[k] /\ \A i \in 1..(k - 1) : a[i] = b[i]

\* A step of a pipeline, or of a process of its, takes something from what it has
\* before it, and nobody else's step adds to that.
EachStepAdvances ==
  [][ \/ cli.at \notin {"idle", "exited"} /\ UNCHANGED <<cli, Child, runs["parent"]>>
      \/ cli.at \in {"idle", "exited"} \/ Smaller(WorkLeft', WorkLeft) ]_syncVars

-----------------------------------------------------------------------------
(* Numbers in order.                                                       *)

LEMMA Numbers ==
  /\ \A x, y \in Int : x < y \/ x = y \/ y < x
  /\ \A x, y, z \in Int : x < y /\ y < z => x < z
  /\ \A x, y \in Int : ~(x < x) /\ ~(x < y /\ y < x)
  /\ \A x, y \in Int : x <= y /\ x # y => x < y
OBVIOUS

LEMMA Firsts ==
  ASSUME NEW n \in Nat
  PROVE  /\ IsFiniteSet(0..(n - 1)) /\ Cardinality(0..(n - 1)) = n
         /\ IsFiniteSet(1..n) /\ Cardinality(1..n) = n
<1>1. 0 \in Int /\ 1 \in Int /\ n - 1 \in Int /\ n \in Int
  OBVIOUS
<1>2. /\ IsFiniteSet(0..(n - 1)) /\ Cardinality(0..(n - 1)) = IF 0 > n - 1 THEN 0 ELSE (n - 1) - 0 + 1
      /\ IsFiniteSet(1..n) /\ Cardinality(1..n) = IF 1 > n THEN 0 ELSE n - 1 + 1
  BY <1>1, FS_Interval
<1>3. (IF 0 > n - 1 THEN 0 ELSE (n - 1) - 0 + 1) = n /\ (IF 1 > n THEN 0 ELSE n - 1 + 1) = n
  OBVIOUS
<1>4. QED
  BY <1>2, <1>3

\* In a finite set a number has as many below it as its place says.
LEMMA Places ==
  ASSUME NEW S \in SUBSET Nat, IsFiniteSet(S)
  PROVE  /\ Cardinality(S) \in Nat
         /\ \A x \in S : Cardinality({y \in S : y < x}) \in 0..(Cardinality(S) - 1)
         /\ \A x, z \in S : x < z =>
              Cardinality({y \in S : y < x}) < Cardinality({y \in S : y < z})
         /\ \A n \in 1..Cardinality(S) :
              \E x \in S : Cardinality({y \in S : y < x}) = n - 1
<1> DEFINE Below(x) == {y \in S : y < x}
           rank == [x \in S |-> Cardinality(Below(x))]
           size == Cardinality(S)
<1>1. size \in Nat
  BY FS_CardinalityType
<1>2. ASSUME NEW x \in S
      PROVE  IsFiniteSet(Below(x)) /\ Cardinality(Below(x)) \in 0..(size - 1)
  <2>1. Below(x) \in SUBSET S /\ x \in S \ Below(x)
    BY DEF Below
  <2>2. IsFiniteSet(Below(x)) /\ Cardinality(Below(x)) <= size /\ Cardinality(Below(x)) # size
    BY <2>1, FS_Subset
  <2>3. Cardinality(Below(x)) \in Nat
    BY <2>2, FS_CardinalityType
  <2>4. QED
    BY <1>1, <2>2, <2>3
<1>3. ASSUME NEW x \in S, NEW z \in S, x < z
      PROVE  Cardinality(Below(x)) < Cardinality(Below(z))
  <2>1. Below(x) \in SUBSET Below(z) /\ x \in Below(z) \ Below(x)
    <3>1. \A y \in S : y \in Int
      OBVIOUS
    <3>2. \A y \in S : y < x => y < z
      BY <1>3, <3>1, Numbers
    <3>3. ~(x < x)
      BY <3>1, Numbers
    <3>4. QED
      BY <1>3, <3>2, <3>3 DEF Below
  <2>2. Cardinality(Below(x)) <= Cardinality(Below(z)) /\ Cardinality(Below(x)) # Cardinality(Below(z))
    BY <1>2, <2>1, FS_Subset
  <2>3. QED
    <3>1. Cardinality(Below(x)) \in Int /\ Cardinality(Below(z)) \in Int
      BY <1>1, <1>2
    <3> HIDE DEF Below
    <3>2. QED
      BY <2>2, <3>1, Numbers
<1>4. IsFiniteSet(0..(size - 1)) /\ Cardinality(0..(size - 1)) = size
  BY <1>1, Firsts
<1>5. rank \in Injection(S, 0..(size - 1))
  <2>1. rank \in [S -> 0..(size - 1)]
    BY <1>2
  <2>2. \A x, z \in S : rank[x] = rank[z] => x = z
    <3>1. TAKE x, z \in S
    <3>2. rank[x] \in Int /\ rank[z] \in Int
      BY <1>1, <1>2
    <3>3. x < z \/ x = z \/ z < x
      OBVIOUS
    <3>4. QED
      BY <1>3, <3>2, <3>3
  <2>3. QED
    BY <2>1, <2>2 DEF Injection, IsInjective
<1>6. rank \in Surjection(S, 0..(size - 1))
  BY <1>4, <1>5, FS_Injection
<1>7. ASSUME NEW n \in 1..size
      PROVE  \E x \in S : Cardinality(Below(x)) = n - 1
  <2>1. n - 1 \in 0..(size - 1)
    BY <1>1
  <2>2. QED
    BY <1>6, <2>1 DEF Surjection
<1>8. QED
  BY <1>1, <1>2, <1>3, <1>7

LEMMA AscendingIs ==
  ASSUME NEW S \in SUBSET Nat, IsFiniteSet(S)
  PROVE  /\ Ascending(S) \in Seq(S) /\ Len(Ascending(S)) = Cardinality(S)
         /\ \A n \in 1..Len(Ascending(S)) :
              /\ Ascending(S)[n] \in S
              /\ Cardinality({y \in S : y < Ascending(S)[n]}) = n - 1
         /\ Sorted(Ascending(S)) /\ ToSet(Ascending(S)) = S
         /\ \A x \in S : \E n \in 1..Len(Ascending(S)) : Ascending(S)[n] = x
<1> DEFINE Rank(x) == Cardinality({y \in S : y < x})
           list == Ascending(S)
           size == Cardinality(S)
<1>1. /\ size \in Nat /\ \A x \in S : Rank(x) \in 0..(size - 1)
      /\ \A x, z \in S : x < z => Rank(x) < Rank(z)
      /\ \A n \in 1..size : \E x \in S : Rank(x) = n - 1
  BY Places
<1>2. list = [n \in 1..size |-> CHOOSE x \in S : Rank(x) = n - 1]
  BY DEF Ascending
<1> HIDE DEF Rank, list, size
<1>3. \A n \in 1..size : list[n] \in S /\ Rank(list[n]) = n - 1
  BY <1>1, <1>2
<1>4. list \in Seq(S) /\ Len(list) = size
  <2>1. list \in [1..size -> S]
    BY <1>2, <1>3
  <2>2. QED
    BY <1>1, <2>1
<1>5. ASSUME NEW i \in 1..size, NEW j \in 1..size, i < j
      PROVE  list[i] < list[j]
  <2>1. list[i] \in S /\ list[j] \in S /\ Rank(list[i]) < Rank(list[j])
    BY <1>1, <1>3, <1>5
  <2>2. Rank(list[i]) \in Int /\ Rank(list[j]) \in Int
    <3>1. \A n \in 0..(size - 1) : n \in Int
      BY <1>1
    <3>2. QED
      BY <1>1, <2>1, <3>1
  <2>3. list[i] < list[j] \/ list[i] = list[j] \/ list[j] < list[i]
    <3>1. \A y \in S : y \in Int
      OBVIOUS
    <3>2. list[i] \in Int /\ list[j] \in Int
      BY <2>1, <3>1
    <3>3. QED
      BY <3>2, Numbers
  <2>4. QED
    BY <1>1, <2>1, <2>2, <2>3, Numbers
<1>6. ASSUME NEW x \in S
      PROVE  \E n \in 1..size : list[n] = x
  <2>1. Rank(x) \in 0..(size - 1)
    BY <1>1
  <2>2. Rank(x) + 1 \in 1..size /\ (Rank(x) + 1) - 1 = Rank(x)
    BY <1>1, <2>1
  <2>3. list[Rank(x) + 1] \in S /\ Rank(list[Rank(x) + 1]) = Rank(x)
    BY <1>3, <2>2
  <2>4. list[Rank(x) + 1] < x \/ list[Rank(x) + 1] = x \/ x < list[Rank(x) + 1]
    <3>1. \A y \in S : y \in Int
      OBVIOUS
    <3>2. list[Rank(x) + 1] \in Int /\ x \in Int
      BY <2>3, <3>1
    <3>3. QED
      BY <3>2, Numbers
  <2>5. list[Rank(x) + 1] = x
    <3>1. Rank(x) \in Int
      BY <1>1, <2>1
    <3>2. QED
      BY <1>1, <2>3, <2>4, <3>1, Numbers
  <2>6. QED
    BY <2>2, <2>5
<1>7. ToSet(list) = S
  <2>1. DOMAIN list = 1..size
    BY <1>2
  <2>2. QED
    BY <1>3, <1>6, <2>1 DEF ToSet
<1>8. Sorted(list)
  BY <1>4, <1>5 DEF Sorted
<1>9. QED
  BY <1>3, <1>4, <1>6, <1>7, <1>8 DEF list, Rank, size

LEMMA DedupeIs ==
  ASSUME NEW T, NEW symbols \in Seq(T)
  PROVE  /\ DedupeSymbols(symbols) \in Seq(T)
         /\ ToSet(DedupeSymbols(symbols)) = ToSet(symbols)
         /\ DedupeSymbols(symbols) = <<>> <=> symbols = <<>>
<1> DEFINE firsts == {i \in DOMAIN symbols : \A j \in 1..(i - 1) : symbols[j] # symbols[i]}
           order == Ascending(firsts)
           list == DedupeSymbols(symbols)
<1>1. DOMAIN symbols = 1..Len(symbols) /\ Len(symbols) \in Nat /\ \A i \in 1..Len(symbols) : symbols[i] \in T
  OBVIOUS
<1>2. IsFiniteSet(1..Len(symbols)) /\ firsts \in SUBSET (1..Len(symbols))
  BY <1>1, FS_Interval
<1>3. firsts \in SUBSET Nat /\ IsFiniteSet(firsts)
  BY <1>1, <1>2, FS_Subset
<1>4. /\ order \in Seq(firsts) /\ Len(order) = Cardinality(firsts) /\ Cardinality(firsts) \in Nat
      /\ \A n \in 1..Cardinality(firsts) : order[n] \in firsts
      /\ \A i \in firsts : \E n \in 1..Cardinality(firsts) : order[n] = i
  <2> HIDE DEF firsts
  <2>1. QED
    BY <1>3, AscendingIs, FS_CardinalityType
<1>5. list = [n \in 1..Cardinality(firsts) |-> symbols[order[n]]]
  BY DEF DedupeSymbols
<1> HIDE DEF order, list
<1>6. ASSUME NEW i \in 1..Len(symbols)
      PROVE  \E f \in firsts : symbols[f] = symbols[i]
  <2> DEFINE same == {j \in 1..Len(symbols) : symbols[j] = symbols[i]}
  <2>1. same \in SUBSET Nat /\ IsFiniteSet(same) /\ i \in same
    BY <1>1, <1>2, FS_Subset
  <2> HIDE DEF same
  <2>2. Cardinality(same) \in Nat \ {0}
    BY <2>1, FS_CardinalityType, FS_EmptySet
  <2>3. PICK f \in same : Cardinality({y \in same : y < f}) = 0
    <3>1. 1 \in 1..Cardinality(same) /\ 1 - 1 = 0
      BY <2>2
    <3>2. QED
      BY <2>1, <3>1, Places
  <2>4. {y \in same : y < f} = {}
    <3>1. {y \in same : y < f} \in SUBSET same
      OBVIOUS
    <3>2. IsFiniteSet({y \in same : y < f})
      BY <2>1, <3>1, FS_Subset
    <3>3. QED
      BY <2>3, <3>2, FS_EmptySet
  <2>5. f \in 1..Len(symbols) /\ symbols[f] = symbols[i] /\ \A j \in 1..(f - 1) : j \notin same
    BY <1>1, <2>1, <2>4 DEF same
  <2>6. \A j \in 1..(f - 1) : symbols[j] # symbols[f]
    BY <1>1, <2>5 DEF same
  <2>7. QED
    BY <1>1, <2>5, <2>6
<1>7. \A n \in 1..Cardinality(firsts) : list[n] = symbols[order[n]] /\ list[n] \in T
  BY <1>1, <1>2, <1>4, <1>5
<1>8. list \in Seq(T) /\ DOMAIN list = 1..Cardinality(firsts)
  <2>1. list \in [1..Cardinality(firsts) -> T]
    BY <1>5, <1>7
  <2>2. \A n \in Nat : [1..n -> T] \subseteq Seq(T)
    OBVIOUS
  <2>3. QED
    BY <1>4, <1>5, <2>1, <2>2
<1>9. ToSet(list) \subseteq ToSet(symbols)
  <2> SUFFICES ASSUME NEW n \in 1..Cardinality(firsts)
               PROVE  list[n] \in ToSet(symbols)
    BY <1>8 DEF ToSet
  <2>1. list[n] = symbols[order[n]] /\ order[n] \in 1..Len(symbols)
    BY <1>2, <1>4, <1>7
  <2>2. QED
    BY <1>1, <2>1 DEF ToSet
<1>10. ToSet(symbols) \subseteq ToSet(list)
  <2> SUFFICES ASSUME NEW i \in 1..Len(symbols)
               PROVE  symbols[i] \in ToSet(list)
    BY <1>1 DEF ToSet
  <2>1. PICK f \in firsts : symbols[f] = symbols[i]
    BY <1>6
  <2>2. PICK n \in 1..Cardinality(firsts) : order[n] = f
    BY <1>4
  <2>3. QED
    BY <1>7, <1>8, <2>1, <2>2 DEF ToSet
<1>11. list = <<>> <=> symbols = <<>>
  <2>1. ASSUME NEW q \in Seq(T)
        PROVE  q = <<>> <=> ToSet(q) = {}
    <3>1. DOMAIN q = 1..Len(q) /\ Len(q) \in Nat /\ (q = <<>> <=> Len(q) = 0)
      BY EmptySeq
    <3>2. \A n \in Nat : 1..n = {} <=> n = 0
      OBVIOUS
    <3>3. QED
      BY <3>1, <3>2 DEF ToSet
  <2>2. QED
    BY <1>8, <1>9, <1>10, <2>1
<1>12. QED
  BY <1>8, <1>9, <1>10, <1>11 DEF list

-----------------------------------------------------------------------------
(* Batches.                                                                *)

LEMMA Slice ==
  ASSUME NEW T, NEW s \in Seq(T), NEW from \in Nat, NEW to \in Int
  PROVE  LET t == SubSeq(s, from + 1, Min2(to, Len(s))) IN
         /\ t \in Seq(T) /\ ToSet(t) = Part(s, from, to)
         /\ from < to /\ from < Len(s) => t # <<>>
<1> DEFINE m == from + 1
           n == Min2(to, Len(s))
           t == SubSeq(s, m, n)
<1>1. m \in Nat \ {0} /\ n \in Int /\ n <= Len(s) /\ Len(s) \in Nat
  BY DEF Min2
<1>2. \A i \in Int : i \in m..n <=> i \in 1..Len(s) /\ from < i /\ i <= to
  BY DEF Min2
<1>3. from < to /\ from < Len(s) => m <= n
  BY DEF Min2
<1> HIDE DEF m, n
<1>4. \A i \in m..n : s[i] \in T
  BY <1>1
<1>5. /\ t \in Seq(T)
      /\ Len(t) = IF m <= n THEN n - m + 1 ELSE 0
      /\ \A i \in 1..(n - m + 1) : t[i] = s[m + i - 1]
  BY <1>1, <1>4, SubSeqProperties
<1> HIDE DEF t
<1>6. DOMAIN t = 1..(n - m + 1)
  <2>1. DOMAIN t = 1..Len(t)
    BY <1>5
  <2>2. QED
    BY <1>1, <1>5, <2>1
<1>7. ToSet(t) = Part(s, from, to)
  <2>1. ASSUME NEW i \in 1..(n - m + 1)
        PROVE  t[i] \in Part(s, from, to)
    <3>1. t[i] = s[m + i - 1] /\ m + i - 1 \in m..n /\ m + i - 1 \in Int
      BY <1>1, <1>5
    <3>2. QED
      BY <1>2, <3>1 DEF Part
  <2>2. ASSUME NEW j \in 1..Len(s), from < j, j <= to
        PROVE  s[j] \in ToSet(t)
    <3>1. j \in m..n /\ j \in Int
      BY <1>1, <1>2, <2>2
    <3>2. j - m + 1 \in 1..(n - m + 1) /\ m + (j - m + 1) - 1 = j
      BY <1>1, <3>1
    <3>3. t[j - m + 1] = s[j]
      BY <1>5, <3>2
    <3>4. QED
      BY <1>6, <3>2, <3>3 DEF ToSet
  <2>3. ToSet(t) \subseteq Part(s, from, to)
    BY <1>6, <2>1 DEF ToSet
  <2>4. Part(s, from, to) \subseteq ToSet(t)
    BY <2>2 DEF Part
  <2>5. QED
    BY <2>3, <2>4
<1>8. m <= n => t # <<>>
  BY <1>1, <1>5, EmptySeq
<1>9. QED
  BY <1>3, <1>5, <1>7, <1>8 DEF t, m, n

LEMMA Images ==
  ASSUME NEW S, IsFiniteSet(S), NEW f
  PROVE  IsFiniteSet({f[x] : x \in S}) /\ Cardinality({f[x] : x \in S}) <= Cardinality(S)
<1> DEFINE T == {f[x] : x \in S}
           g == [x \in S |-> f[x]]
<1>1. g \in Surjection(S, T)
  BY DEF Surjection
<1> HIDE DEF T, g
<1>2. QED
  BY <1>1, FS_Surjection DEF T

\* The places where one batch ends and the next begins.
LEMMA Edges ==
  ASSUME BatchSize \in Nat \ {0}
  PROVE  /\ \A n \in Nat : Edge(n) \in Nat
         /\ \A n \in Nat \ {0} : Edge(n) = Edge(n - 1) + BatchSize
         /\ \A m, n \in Nat : m <= n => Edge(m) <= Edge(n)
         /\ Edge(0) = 0
<1>1. \A x, y \in Nat : x * y \in Nat
  OBVIOUS
<1>2. \A x, y, z \in Nat : x <= y => x * z <= y * z
  OBVIOUS
<1>3. \A x \in Nat \ {0}, y \in Nat : x * y = (x - 1) * y + y
  OBVIOUS
<1>4. 0 * BatchSize = 0
  OBVIOUS
<1>5. \A n \in Nat : Edge(n) \in Nat
  BY <1>1 DEF Edge
<1>6. \A n \in Nat \ {0} : Edge(n) = Edge(n - 1) + BatchSize
  BY <1>3 DEF Edge
<1>7. \A m, n \in Nat : m <= n => Edge(m) <= Edge(n)
  BY <1>2 DEF Edge
<1>8. Edge(0) = 0
  BY <1>4 DEF Edge
<1>9. QED
  BY <1>5, <1>6, <1>7, <1>8

LEMMA BatchNumbers ==
  ASSUME BatchSize \in Nat \ {0}, NEW size \in Nat
  PROVE  /\ BatchCount(size) \in Nat /\ size <= Edge(BatchCount(size))
         /\ \A n \in Nat \ {0} : n <= BatchCount(size) => Edge(n - 1) < size
<1> DEFINE c == BatchCount(size)
<1>1. \A x \in Nat, y \in Nat \ {0} :
        x \div y \in Nat /\ (x \div y) * y <= x /\ x < (x \div y) * y + y
  OBVIOUS
<1>2. size + BatchSize - 1 \in Nat
  OBVIOUS
<1>3. c \in Nat /\ size + BatchSize - 1 < c * BatchSize + BatchSize /\ c * BatchSize <= size + BatchSize - 1
  BY <1>1, <1>2 DEF BatchCount
<1> HIDE DEF c
<1>4. c * BatchSize \in Nat
  BY <1>3
<1>5. size <= c * BatchSize
  BY <1>3, <1>4
<1>6. ASSUME NEW n \in Nat \ {0}, n <= c
      PROVE  Edge(n - 1) < size
  <2>1. n - 1 \in Nat
    OBVIOUS
  <2>2. Edge(n - 1) \in Nat /\ Edge(n) = Edge(n - 1) + BatchSize /\ Edge(n) <= Edge(c)
    BY <1>3, <1>6, <2>1, Edges
  <2>3. Edge(c) <= size + BatchSize - 1 /\ Edge(c) \in Nat /\ Edge(n) \in Nat
    BY <1>3, <1>4, Edges DEF Edge
  <2>4. \A x, y, z \in Nat : \A b \in Nat \ {0} : y = x + b /\ y <= z /\ z <= size + b - 1 => x < size
    OBVIOUS
  <2>5. QED
    BY <2>2, <2>3, <2>4
<1>7. QED
  BY <1>3, <1>5, <1>6 DEF c, Edge

\* What a sweep has still to start from batch n on.
Left(source, n, lst) ==
  ToSet(SubSeq(source, (n - 1) * BatchSize + 1, Min2(lst * BatchSize, Len(source))))

LEMMA BatchIs ==
  ASSUME BatchSize \in Nat \ {0}, NEW T, NEW s \in Seq(T), NEW n \in Nat \ {0}, NEW lst \in Nat
  PROVE  /\ Left(s, n, lst) = Part(s, Edge(n - 1), Edge(lst))
         /\ ToSet(BatchOf(s, n)) = Part(s, Edge(n - 1), Edge(n))
         /\ BatchOf(s, n) \in Seq(T)
         /\ Edge(n - 1) < Len(s) => BatchOf(s, n) # <<>>
<1>1. n - 1 \in Nat
  OBVIOUS
<1>2. Edge(n - 1) \in Nat /\ Edge(lst) \in Int /\ Edge(n) \in Int /\ Edge(n - 1) < Edge(n)
  <2>1. \A m \in Nat : Edge(m) \in Nat
    BY Edges
  <2>2. Edge(n) = Edge(n - 1) + BatchSize
    BY Edges
  <2>3. Edge(n - 1) \in Nat /\ Edge(lst) \in Nat /\ Edge(n) \in Nat
    BY <1>1, <2>1
  <2>4. \A x, y \in Nat : x = y + BatchSize => y < x /\ x \in Int
    OBVIOUS
  <2>5. QED
    BY <2>2, <2>3, <2>4
<1>3. Left(s, n, lst) = ToSet(SubSeq(s, Edge(n - 1) + 1, Min2(Edge(lst), Len(s))))
  BY DEF Left, Edge
<1>4. BatchOf(s, n) = SubSeq(s, Edge(n - 1) + 1, Min2(Edge(n), Len(s)))
  BY DEF BatchOf, Edge
<1>5. QED
  BY <1>2, <1>3, <1>4, Slice

\* A batch is a part of what is left, of at most BatchSize symbols.
LEMMA HandedOut ==
  ASSUME BatchSize \in Nat \ {0}, NEW T, NEW s \in Seq(T),
         \A i, j \in DOMAIN s : s[i] = s[j] => i = j,
         NEW n \in Nat \ {0}, NEW lst \in Nat, n <= lst
  PROVE  LET batch == ToSet(BatchOf(s, n)) IN
         /\ batch \subseteq Left(s, n, lst) /\ Left(s, n + 1, lst) = Left(s, n, lst) \ batch
         /\ batch = {} \/ Cardinality(batch) \in 1..BatchSize
<1> DEFINE from == Edge(n - 1)
           to == Edge(lst)
           end == Edge(n)
           batch == ToSet(BatchOf(s, n))
<1>1. n - 1 \in Nat /\ n + 1 \in Nat \ {0} /\ (n + 1) - 1 = n
  OBVIOUS
<1>2. from \in Nat /\ to \in Nat /\ end \in Nat /\ end = from + BatchSize /\ end <= to
  BY <1>1, Edges
<1>3. Left(s, n, lst) = Part(s, from, to) /\ batch = Part(s, from, end)
  BY BatchIs
<1>4. Left(s, n + 1, lst) = Part(s, end, to)
  <2>1. Left(s, n + 1, lst) = Part(s, Edge((n + 1) - 1), to)
    BY <1>1, BatchIs
  <2>2. QED
    BY <1>1, <2>1
<1> HIDE DEF from, to, end, batch
<1>5. DOMAIN s = 1..Len(s) /\ Len(s) \in Nat
  OBVIOUS
<1>6. Part(s, from, end) \subseteq Part(s, from, to)
  <2>1. \A k \in 1..Len(s) : k <= end => k <= to
    BY <1>2, <1>5
  <2>2. QED
    BY <2>1 DEF Part
<1>7. Part(s, end, to) = Part(s, from, to) \ Part(s, from, end)
  <2>1. \A k \in 1..Len(s) :
          (end < k => from < k) /\ (k <= end \/ end < k) /\ ~(k <= end /\ end < k)
    BY <1>2, <1>5
  <2>2. QED
    BY <1>5, <2>1 DEF Part
<1>8. batch = {} \/ Cardinality(batch) \in 1..BatchSize
  <2> DEFINE places == {k \in 1..Len(s) : from < k /\ k <= end}
             shift == [k \in places |-> k - from]
  <2>1. IsFiniteSet(1..BatchSize) /\ Cardinality(1..BatchSize) = BatchSize
    BY Firsts
  <2>2. shift \in Injection(places, 1..BatchSize)
    BY <1>2, <1>5 DEF Injection, IsInjective
  <2>3. batch = {s[k] : k \in places}
    BY <1>3 DEF Part
  <2> HIDE DEF places, shift
  <2>4. IsFiniteSet(places) /\ Cardinality(places) <= BatchSize
    BY <2>1, <2>2, FS_Injection
  <2>5. IsFiniteSet(batch) /\ Cardinality(batch) <= Cardinality(places)
    BY <2>3, <2>4, Images
  <2>6. Cardinality(batch) \in Nat /\ Cardinality(places) \in Nat /\ (Cardinality(batch) = 0 => batch = {})
    BY <2>4, <2>5, FS_CardinalityType, FS_EmptySet
  <2>7. QED
    BY <2>4, <2>5, <2>6
<1>9. QED
  BY <1>3, <1>4, <1>6, <1>7, <1>8 DEF batch

LEMMA RestIs ==
  ASSUME BatchSize \in Nat \ {0}, NEW T, NEW list \in Seq(T)
  PROVE  /\ Rest(list, 1) = ToSet(list)
         /\ \A n \in Nat \ {0} :
              /\ Rest(list, n) \subseteq ToSet(list)
              /\ Rest(list, n) \ ToSet(BatchOf(list, n)) \subseteq Rest(list, n + 1)
              /\ n > BatchCount(Len(list)) => Rest(list, n) = {}
<1>1. DOMAIN list = 1..Len(list) /\ Len(list) \in Nat
  OBVIOUS
<1>2. Rest(list, 1) = ToSet(list)
  <2>1. Edge(1 - 1) = 0
    BY Edges
  <2>2. \A k \in 1..Len(list) : 0 < k /\ k <= Len(list)
    OBVIOUS
  <2>3. QED
    BY <1>1, <2>1, <2>2 DEF Rest, Part, ToSet
<1>3. ASSUME NEW n \in Nat \ {0}
      PROVE  /\ Rest(list, n) \subseteq ToSet(list)
             /\ Rest(list, n) \ ToSet(BatchOf(list, n)) \subseteq Rest(list, n + 1)
             /\ n > BatchCount(Len(list)) => Rest(list, n) = {}
  <2>1. n - 1 \in Nat /\ (n + 1) - 1 = n
    OBVIOUS
  <2>2. Edge(n) \in Nat /\ Edge(n - 1) \in Nat
    BY <2>1, Edges
  <2>3. ToSet(BatchOf(list, n)) = Part(list, Edge(n - 1), Edge(n))
    BY BatchIs, 0 \in Nat
  <2>4. Rest(list, n) \subseteq ToSet(list)
    BY <1>1 DEF Rest, Part, ToSet
  <2>5. Part(list, Edge(n - 1), Len(list)) \ Part(list, Edge(n - 1), Edge(n))
          \subseteq Part(list, Edge(n), Len(list))
    <3>1. \A k \in 1..Len(list) : k <= Edge(n) \/ Edge(n) < k
      BY <1>1, <2>2
    <3>2. QED
      BY <3>1 DEF Part
  <2>6. n > BatchCount(Len(list)) => Rest(list, n) = {}
    <3> SUFFICES ASSUME n > BatchCount(Len(list))
                 PROVE  Part(list, Edge(n - 1), Len(list)) = {}
      BY DEF Rest
    <3>1. BatchCount(Len(list)) \in Nat /\ Len(list) <= Edge(BatchCount(Len(list)))
      BY <1>1, BatchNumbers
    <3>2. BatchCount(Len(list)) <= n - 1
      BY <2>1, <3>1
    <3>3. Edge(BatchCount(Len(list))) <= Edge(n - 1) /\ Edge(BatchCount(Len(list))) \in Nat
      BY <2>1, <3>1, <3>2, Edges
    <3>4. \A k \in 1..Len(list) : ~(Edge(n - 1) < k)
      BY <1>1, <2>2, <3>1, <3>3
    <3>5. QED
      BY <3>4 DEF Part
  <2>7. QED
    BY <2>1, <2>3, <2>4, <2>5, <2>6 DEF Rest
<1>4. QED
  BY <1>2, <1>3

-----------------------------------------------------------------------------
(* The symbols of a run.                                                   *)

LEMMA Names ==
  /\ Steps = <<"metadata", "prices", "composition">>
  /\ ToSet(Steps) = {"metadata", "prices", "composition"}
  /\ ToSet(PostProcessing) = {"themes", "benchmarks", "visibility"}
<1>1. DOMAIN Steps = {1, 2, 3} /\ DOMAIN PostProcessing = {1, 2, 3}
  BY DEF Steps, PostProcessing
<1>2. QED
  BY <1>1 DEF Steps, PostProcessing, ToSet

LEMMA Widened ==
  ASSUME NEW S, NEW T, S \subseteq T, NEW q \in Seq(S)
  PROVE  q \in Seq(T)
<1>1. /\ DOMAIN q = 1..Len(q) /\ Len(q) \in Nat /\ \A i \in 1..Len(q) : q[i] \in T
      /\ q = [i \in 1..Len(q) |-> q[i]]
  OBVIOUS
<1>2. q \in [1..Len(q) -> T]
  BY <1>1
<1>3. QED
  BY <1>1, <1>2

LEMMA TickersAre ==
  ASSUME SyncAssumption
  PROVE  /\ Symbols \in SUBSET Nat /\ IsFiniteSet(Symbols) /\ Seeds \subseteq Symbols
         /\ Configured \in Seq(Symbols) /\ Listing \in Seq(Symbols) /\ Curated \in Seq(Symbols)
<1>1. ASSUME NEW q \in Seq(Nat)
      PROVE  /\ IsFiniteSet(ToSet(q)) /\ ToSet(q) \subseteq Nat
             /\ \A S : ToSet(q) \subseteq S => q \in Seq(S)
  <2>1. DOMAIN q = 1..Len(q) /\ Len(q) \in Nat /\ \A i \in 1..Len(q) : q[i] \in Nat
    OBVIOUS
  <2>2. IsFiniteSet(1..Len(q))
    BY <2>1, Firsts
  <2>3. IsFiniteSet(ToSet(q))
    BY <2>1, <2>2, Images DEF ToSet
  <2>4. ToSet(q) \subseteq Nat
    BY <2>1 DEF ToSet
  <2>5. ASSUME NEW S, ToSet(q) \subseteq S
        PROVE  q \in Seq(S)
    <3>1. \A i \in 1..Len(q) : q[i] \in S
      BY <2>1, <2>5 DEF ToSet
    <3>2. QED
      BY <2>1, <3>1
  <2>6. QED
    BY <2>3, <2>4, <2>5
<1>2. /\ IsFiniteSet(ToSet(Configured)) /\ IsFiniteSet(ToSet(Listing)) /\ IsFiniteSet(ToSet(Curated))
      /\ ToSet(Configured) \subseteq Nat /\ ToSet(Listing) \subseteq Nat /\ ToSet(Curated) \subseteq Nat
  BY <1>1 DEF SyncAssumption
<1>3. IsFiniteSet(Symbols)
  BY <1>2, FS_Union DEF Symbols, SyncAssumption
<1>4. Symbols \in SUBSET Nat /\ Seeds \subseteq Symbols
  BY <1>2 DEF Symbols, SyncAssumption
<1>5. /\ ToSet(Configured) \subseteq Symbols /\ ToSet(Listing) \subseteq Symbols
      /\ ToSet(Curated) \subseteq Symbols
  BY DEF Symbols
<1>6. QED
  BY <1>1, <1>3, <1>4, <1>5 DEF SyncAssumption

\* What a run works on; its explicit symbols when it has them.
LEMMA ResolvedAre ==
  ASSUME SyncAssumption, SyncTyped, NEW request \in Request
  PROVE  /\ Page(request) \in Seq(Symbols)
         /\ ResolveManualSyncSymbols(request) \in Seq(Symbols)
         /\ request.symbols # <<>> =>
              /\ ResolveManualSyncSymbols(request) # <<>>
              /\ ToSet(ResolveManualSyncSymbols(request)) = ToSet(request.symbols)
<1>1. /\ request.symbols \in Seq(Symbols) /\ request.offset \in Nat /\ request.limit \in Nat
      /\ request.offset + request.limit \in Int
  BY DEF Request
<1>2. /\ Configured \in Seq(Symbols) /\ Listing \in Seq(Symbols) /\ Curated \in Seq(Symbols)
      /\ Symbols \in SUBSET Nat /\ IsFiniteSet(Symbols)
  BY TickersAre
<1>3. Page(request) \in Seq(Symbols)
  <2>1. SubSeq(Listing, request.offset + 1, Min2(request.offset + request.limit, Len(Listing)))
          \in Seq(Symbols)
    BY <1>1, <1>2, Slice
  <2>2. QED
    BY <2>1 DEF Page
<1>4. Configured \o Page(request) \o Curated \in Seq(Symbols)
  BY <1>2, <1>3
<1>5. ResolveSyncSymbols(request) \in Seq(Symbols)
  BY <1>1, <1>2, <1>4, DedupeIs DEF ResolveSyncSymbols
<1>6. Ascending(funds) \in Seq(Symbols)
  <2>1. funds \in SUBSET Nat /\ IsFiniteSet(funds) /\ funds \subseteq Symbols
    BY <1>2, FS_Subset DEF SyncTyped
  <2>2. Ascending(funds) \in Seq(funds)
    BY <2>1, AscendingIs
  <2>3. QED
    BY <2>1, <2>2, Widened
<1>7. request.symbols # <<>> =>
        /\ ResolveSyncSymbols(request) # <<>>
        /\ ToSet(ResolveSyncSymbols(request)) = ToSet(request.symbols)
  BY <1>1, DedupeIs DEF ResolveSyncSymbols
<1>8. QED
  BY <1>3, <1>5, <1>6, <1>7 DEF ResolveManualSyncSymbols

\* The steps of a run are those its request asks for.
LEMMA EnabledAre ==
  ASSUME NEW request \in Request
  PROVE  /\ Enabled(request) \in Seq(ToSet(Steps))
         /\ \A i \in DOMAIN Enabled(request) : Enabled(request)[i] \in request.steps
         /\ \A step \in ToSet(Steps) : step \in request.steps => Enabled(request) # <<>>
<1>1. \A step \in ToSet(Steps) :
        /\ If(step, request) \in Seq(ToSet(Steps))
        /\ \A i \in 1..Len(If(step, request)) : If(step, request)[i] \in request.steps
  BY DEF If
<1>2. ASSUME NEW s \in Seq(ToSet(Steps)), NEW t \in Seq(ToSet(Steps)),
             \A i \in 1..Len(s) : s[i] \in request.steps,
             \A i \in 1..Len(t) : t[i] \in request.steps
      PROVE  s \o t \in Seq(ToSet(Steps)) /\ \A i \in 1..Len(s \o t) : (s \o t)[i] \in request.steps
  <2>1. s \o t \in Seq(ToSet(Steps)) /\ Len(s \o t) = Len(s) + Len(t) /\ Len(s) \in Nat /\ Len(t) \in Nat
    OBVIOUS
  <2>2. \A i \in 1..(Len(s) + Len(t)) :
          (s \o t)[i] = IF i <= Len(s) THEN s[i] ELSE t[i - Len(s)]
    OBVIOUS
  <2>3. \A i \in 1..(Len(s) + Len(t)) :
          (i \in 1..Len(s) /\ i <= Len(s)) \/ (i - Len(s) \in 1..Len(t) /\ ~(i <= Len(s)))
    <3>1. \A x, y \in Nat : \A i \in 1..(x + y) :
            (i \in 1..x /\ i <= x) \/ (i - x \in 1..y /\ ~(i <= x))
      <4> SUFFICES ASSUME NEW x \in Nat, NEW y \in Nat, NEW i \in 1..(x + y)
                   PROVE  (i \in 1..x /\ i <= x) \/ (i - x \in 1..y /\ ~(i <= x))
        OBVIOUS
      <4>1. i \in Int /\ 1 <= i /\ i <= x + y
        OBVIOUS
      <4>2. CASE i <= x
        BY <4>1, <4>2
      <4>3. CASE ~(i <= x)
        BY <4>1, <4>3
      <4>4. QED
        BY <4>2, <4>3
    <3>2. QED
      BY <2>1, <3>1
  <2>4. QED
    BY <1>2, <2>1, <2>2, <2>3
<1> DEFINE m == If("metadata", request)
           p == If("prices", request)
           c == If("composition", request)
<1>3. /\ m \in Seq(ToSet(Steps)) /\ p \in Seq(ToSet(Steps)) /\ c \in Seq(ToSet(Steps))
      /\ \A i \in 1..Len(m) : m[i] \in request.steps
      /\ \A i \in 1..Len(p) : p[i] \in request.steps
      /\ \A i \in 1..Len(c) : c[i] \in request.steps
  BY <1>1, Names
<1>4. \A step \in ToSet(Steps) : step \in request.steps => Len(m) = 1 \/ Len(p) = 1 \/ Len(c) = 1
  BY Names DEF If
<1> HIDE DEF m, p, c
<1>5. m \o p \in Seq(ToSet(Steps)) /\ \A i \in 1..Len(m \o p) : (m \o p)[i] \in request.steps
  BY <1>2, <1>3
<1>6. /\ (m \o p) \o c \in Seq(ToSet(Steps))
      /\ \A i \in 1..Len((m \o p) \o c) : ((m \o p) \o c)[i] \in request.steps
  BY <1>2, <1>3, <1>5
<1>7. Len((m \o p) \o c) = Len(m) + Len(p) + Len(c) /\ Len(m) \in Nat /\ Len(p) \in Nat /\ Len(c) \in Nat
  BY <1>3
<1>8. Enabled(request) = (m \o p) \o c
  BY DEF Enabled, m, p, c
<1>9. \A step \in ToSet(Steps) : step \in request.steps => Enabled(request) # <<>>
  <2>1. Len(<<>>) = 0
    OBVIOUS
  <2>2. \A x, y, z \in Nat : x = 1 \/ y = 1 \/ z = 1 => x + y + z # 0
    OBVIOUS
  <2>3. QED
    BY <1>4, <1>7, <1>8, <2>1, <2>2
<1>10. DOMAIN Enabled(request) = 1..Len((m \o p) \o c)
  BY <1>6, <1>8
<1>11. QED
  BY <1>6, <1>8, <1>9, <1>10

-----------------------------------------------------------------------------
(* Runs.                                                                   *)

\* A run with these fields.
RunOf(at, request, todo, pending, failed, empty, scoring, cut) ==
  [at |-> at, request |-> request, todo |-> todo, pending |-> pending,
   failed |-> failed, empty |-> empty, scoring |-> scoring, cut |-> cut]

LEMMA RunIs ==
  ASSUME NEW run \in Run
  PROVE  /\ run = RunOf(run.at, run.request, run.todo, run.pending, run.failed, run.empty,
                     run.scoring, run.cut)
         /\ run.request \in Request /\ run.todo \in Seq(Symbols) /\ run.pending \in Seq(ToSet(Steps))
         /\ run.failed \subseteq Symbols /\ run.empty \subseteq Symbols
         /\ run.scoring \in {"skipped", "success", "failed"} /\ run.cut \in {"no", "thrown", "killed"}
BY DEF Run, RunOf

LEMMA OfRun ==
  ASSUME NEW at \in {"off", "booting", "resolving", "syncing", "scoring", "ended"},
         NEW request \in Request, NEW todo \in Seq(Symbols), NEW pending \in Seq(ToSet(Steps)),
         NEW failed \in SUBSET Symbols, NEW empty \in SUBSET Symbols,
         NEW scoring \in {"skipped", "success", "failed"}, NEW cut \in {"no", "thrown", "killed"}
  PROVE  RunOf(at, request, todo, pending, failed, empty, scoring, cut) \in Run
BY DEF Run, RunOf

\* The run in another place, with other failures, answers and ends.
LEMMA PlacedIs ==
  ASSUME NEW run \in Run, NEW at, NEW todo, NEW pending
  PROVE  Placed(run, at, todo, pending) =
           RunOf(at, run.request, todo, pending, run.failed, run.empty, run.scoring, run.cut)
<1> DEFINE one == RunOf(at, run.request, run.todo, run.pending, run.failed, run.empty, run.scoring,
                     run.cut)
           two == RunOf(at, run.request, todo, run.pending, run.failed, run.empty, run.scoring, run.cut)
           three == RunOf(at, run.request, todo, pending, run.failed, run.empty, run.scoring, run.cut)
<1>1. run = RunOf(run.at, run.request, run.todo, run.pending, run.failed, run.empty, run.scoring, run.cut)
  BY RunIs
<1>2. Placed(run, at, todo, pending) =
        [[[run EXCEPT !.at = at] EXCEPT !.todo = todo] EXCEPT !.pending = pending]
  BY DEF Placed, Run
<1>3. [run EXCEPT !.at = at] = one
  BY <1>1 DEF RunOf
<1>4. [one EXCEPT !.todo = todo] = two
  BY DEF RunOf
<1>5. [two EXCEPT !.pending = pending] = three
  BY DEF RunOf
<1> HIDE DEF one, two, three
<1>6. Placed(run, at, todo, pending) = three
  BY <1>2, <1>3, <1>4, <1>5
<1>7. QED
  BY <1>6 DEF three

LEMMA EndedIs ==
  ASSUME NEW run \in Run
  PROVE  Ended(run) =
           RunOf("ended", run.request, <<>>, <<>>, run.failed, run.empty, run.scoring, run.cut)
BY PlacedIs DEF Ended

LEMMA ChangedIs ==
  ASSUME NEW run \in Run, NEW v
  PROVE  /\ [run EXCEPT !.at = v] =
              RunOf(v, run.request, run.todo, run.pending, run.failed, run.empty, run.scoring, run.cut)
         /\ [run EXCEPT !.failed = v] =
              RunOf(run.at, run.request, run.todo, run.pending, v, run.empty, run.scoring, run.cut)
         /\ [run EXCEPT !.empty = v] =
              RunOf(run.at, run.request, run.todo, run.pending, run.failed, v, run.scoring, run.cut)
         /\ [Ended(run) EXCEPT !.cut = v] =
              RunOf("ended", run.request, <<>>, <<>>, run.failed, run.empty, run.scoring, v)
         /\ [Ended(run) EXCEPT !.scoring = v] =
              RunOf("ended", run.request, <<>>, <<>>, run.failed, run.empty, v, run.cut)
<1>1. run = RunOf(run.at, run.request, run.todo, run.pending, run.failed, run.empty, run.scoring, run.cut)
  BY RunIs
<1>2. Ended(run) = RunOf("ended", run.request, <<>>, <<>>, run.failed, run.empty, run.scoring, run.cut)
  BY EndedIs
<1>3. [Ended(run) EXCEPT !.cut = v] =
        RunOf("ended", run.request, <<>>, <<>>, run.failed, run.empty, run.scoring, v)
  BY <1>2 DEF RunOf
<1>4. [Ended(run) EXCEPT !.scoring = v] =
        RunOf("ended", run.request, <<>>, <<>>, run.failed, run.empty, v, run.cut)
  BY <1>2 DEF RunOf
<1>5. [run EXCEPT !.at = v] =
        RunOf(v, run.request, run.todo, run.pending, run.failed, run.empty, run.scoring, run.cut)
  BY <1>1 DEF RunOf
<1>6. [run EXCEPT !.failed = v] =
        RunOf(run.at, run.request, run.todo, run.pending, v, run.empty, run.scoring, run.cut)
  BY <1>1 DEF RunOf
<1>7. [run EXCEPT !.empty = v] =
        RunOf(run.at, run.request, run.todo, run.pending, run.failed, v, run.scoring, run.cut)
  BY <1>1 DEF RunOf
<1>8. QED
  BY <1>3, <1>4, <1>5, <1>6, <1>7

LEMMA Heads ==
  ASSUME NEW T, NEW q \in Seq(T), q # <<>>
  PROVE  /\ Head(q) \in T /\ Tail(q) \in Seq(T) /\ Head(q) = q[1] /\ 1 \in DOMAIN q
         /\ \A i \in DOMAIN Tail(q) : i + 1 \in DOMAIN q /\ Tail(q)[i] = q[i + 1]
         /\ ToSet(q) = {Head(q)} \cup ToSet(Tail(q)) /\ Head(q) \in ToSet(q)
         /\ Len(q) > 1 => Tail(q) # <<>>
<1>1. DOMAIN q = 1..Len(q) /\ Len(q) \in Nat \ {0} /\ \A i \in 1..Len(q) : q[i] \in T
  <2>1. DOMAIN q = 1..Len(q) /\ Len(q) \in Nat /\ \A i \in 1..Len(q) : q[i] \in T
    OBVIOUS
  <2>2. Len(q) # 0
    BY EmptySeq
  <2>3. QED
    BY <2>1, <2>2
<1>2. /\ Tail(q) \in Seq(T) /\ Len(Tail(q)) = Len(q) - 1
      /\ \A i \in 1..(Len(q) - 1) : Tail(q)[i] = q[i + 1]
  BY HeadTailProperties
<1>3. Head(q) = q[1] /\ Head(q) \in T
  BY <1>1
<1>4. DOMAIN Tail(q) = 1..(Len(q) - 1)
  BY <1>2
<1>5. \A i \in 1..(Len(q) - 1) : i + 1 \in 1..Len(q)
  BY <1>1
<1>6. \A i \in 1..Len(q) : i = 1 \/ (i - 1 \in 1..(Len(q) - 1) /\ (i - 1) + 1 = i)
  BY <1>1
<1>7. ToSet(q) = {Head(q)} \cup ToSet(Tail(q))
  <2>1. ToSet(Tail(q)) \subseteq ToSet(q) /\ Head(q) \in ToSet(q)
    BY <1>1, <1>2, <1>3, <1>4, <1>5 DEF ToSet
  <2>2. ASSUME NEW i \in 1..Len(q)
        PROVE  q[i] \in {Head(q)} \cup ToSet(Tail(q))
    <3>1. CASE i = 1
      BY <1>3, <3>1
    <3>2. CASE i # 1
      <4>1. Tail(q)[i - 1] = q[i] /\ i - 1 \in DOMAIN Tail(q)
        BY <1>2, <1>4, <1>6, <3>2
      <4>2. QED
        BY <4>1 DEF ToSet
    <3>3. QED
      BY <3>1, <3>2
  <2>3. ToSet(q) \subseteq {Head(q)} \cup ToSet(Tail(q))
    BY <1>1, <2>2 DEF ToSet
  <2>4. QED
    BY <2>1, <2>3
<1>8. Len(q) > 1 => Tail(q) # <<>>
  <2>1. \A t \in Seq(T) : Len(t) # 0 => t # <<>>
    BY EmptySeq
  <2>2. Len(q) > 1 => Len(Tail(q)) # 0
    <3>1. \A n \in Nat : n > 1 => n - 1 # 0
      OBVIOUS
    <3>2. QED
      BY <1>1, <1>2, <3>1
  <2>3. QED
    BY <1>2, <2>1, <2>2
<1>9. QED
  BY <1>1, <1>2, <1>3, <1>4, <1>5, <1>7, <1>8

\* The next symbol or step of a run, or its end: what it was on is behind it.
LEMMA OnwardsIs ==
  ASSUME NEW run \in Run, StepsAsked(run), run.todo # <<>>, run.pending # <<>>,
         NEW ok \in BOOLEAN
  PROVE  LET new == Onwards(run, ok) IN
         /\ new \in Run /\ StepsAsked(new) /\ new.request = run.request
         /\ new.at \in {"syncing", "scoring", "ended"}
         /\ new.at = "syncing" => new.todo # <<>> /\ new.pending # <<>>
         /\ new.at = "scoring" => "scoring" \in run.request.steps
         /\ run.failed \subseteq new.failed /\ new.empty = run.empty
         /\ ToSet(run.todo) \subseteq ToSet(new.todo) \cup {Head(run.todo)}
         /\ new.at # "syncing" => new.todo = <<>>
         /\ ~ok => Head(run.todo) \in new.failed
<1> DEFINE more == ok /\ Len(run.pending) > 1
           todo == IF more THEN run.todo ELSE Tail(run.todo)
           failed == IF ok THEN run.failed ELSE run.failed \cup {Head(run.todo)}
           next == [run EXCEPT !.failed = failed]
           pending == IF more THEN Tail(run.pending) ELSE Enabled(run.request)
           new == Onwards(run, ok)
<1>1. /\ run.request \in Request /\ run.todo \in Seq(Symbols) /\ run.pending \in Seq(ToSet(Steps))
      /\ run.failed \subseteq Symbols /\ run.empty \subseteq Symbols
      /\ run.scoring \in {"skipped", "success", "failed"} /\ run.cut \in {"no", "thrown", "killed"}
  BY RunIs
<1>2. /\ Head(run.todo) \in Symbols /\ Tail(run.todo) \in Seq(Symbols)
      /\ ToSet(run.todo) = {Head(run.todo)} \cup ToSet(Tail(run.todo))
  BY <1>1, Heads
<1>3. failed \subseteq Symbols /\ run.failed \subseteq failed /\ (~ok => Head(run.todo) \in failed)
  BY <1>1, <1>2
<1>4. todo \in Seq(Symbols) /\ ToSet(run.todo) \subseteq ToSet(todo) \cup {Head(run.todo)}
  BY <1>1, <1>2
<1>5. /\ pending \in Seq(ToSet(Steps)) /\ pending # <<>>
      /\ \A i \in DOMAIN pending : pending[i] \in run.request.steps
  <2>1. CASE more
    <3>1. /\ Tail(run.pending) \in Seq(ToSet(Steps)) /\ Tail(run.pending) # <<>>
          /\ \A i \in DOMAIN Tail(run.pending) :
               i + 1 \in DOMAIN run.pending /\ Tail(run.pending)[i] = run.pending[i + 1]
      BY <1>1, <2>1, Heads
    <3>2. QED
      BY <2>1, <3>1 DEF StepsAsked
  <2>2. CASE ~more
    <3>1. run.pending[1] \in ToSet(Steps) /\ run.pending[1] \in run.request.steps
      BY <1>1, Heads DEF StepsAsked
    <3>2. /\ Enabled(run.request) \in Seq(ToSet(Steps)) /\ Enabled(run.request) # <<>>
          /\ \A i \in DOMAIN Enabled(run.request) : Enabled(run.request)[i] \in run.request.steps
      BY <1>1, <3>1, EnabledAre
    <3>3. QED
      BY <2>2, <3>2
  <2>3. QED
    BY <2>1, <2>2
<1>6. next = RunOf(run.at, run.request, run.todo, run.pending, failed, run.empty, run.scoring, run.cut)
  BY ChangedIs
<1>7. next \in Run
  <2>1. run.at \in {"off", "booting", "resolving", "syncing", "scoring", "ended"}
    BY DEF Run
  <2> HIDE DEF failed
  <2>2. QED
    BY <1>1, <1>3, <1>6, <2>1, OfRun
<1>8. new = IF todo # <<>> THEN Placed(next, "syncing", todo, pending)
            ELSE IF "scoring" \in run.request.steps THEN Placed(next, "scoring", <<>>, <<>>)
            ELSE Ended(next)
  <2>1. Onwards(run, ok) =
          IF todo # <<>> THEN Placed(next, "syncing", todo, pending)
          ELSE IF "scoring" \in run.request.steps THEN Placed(next, "scoring", <<>>, <<>>)
          ELSE Ended(next)
    BY DEF Onwards
  <2>2. QED
    BY <2>1
<1>9. /\ next.request = run.request /\ next.failed = failed /\ next.empty = run.empty
      /\ next.scoring = run.scoring /\ next.cut = run.cut
  BY <1>6 DEF RunOf
<1> HIDE DEF next, failed, todo, pending, new
<1> DEFINE Next8(at, t, p) == RunOf(at, run.request, t, p, failed, run.empty, run.scoring, run.cut)
<1>10. /\ Placed(next, "syncing", todo, pending) = Next8("syncing", todo, pending)
       /\ Placed(next, "scoring", <<>>, <<>>) = Next8("scoring", <<>>, <<>>)
       /\ Ended(next) = Next8("ended", <<>>, <<>>)
  <2>1. ASSUME NEW at, NEW t, NEW p
        PROVE  Placed(next, at, t, p) = Next8(at, t, p)
    <3>1. Placed(next, at, t, p) =
            RunOf(at, next.request, t, p, next.failed, next.empty, next.scoring, next.cut)
      BY <1>7, PlacedIs
    <3>2. QED
      BY <1>9, <3>1
  <2>2. Ended(next) = Placed(next, "ended", <<>>, <<>>)
    BY DEF Ended
  <2>3. QED
    BY <2>1, <2>2
<1>11. <<>> \in Seq(Symbols) /\ <<>> \in Seq(ToSet(Steps)) /\ DOMAIN <<>> = {} /\ ToSet(<<>>) = {}
  BY DEF ToSet
<1>12. CASE todo # <<>>
  <2>1. new = Next8("syncing", todo, pending)
    BY <1>8, <1>10, <1>12
  <2>2. Next8("syncing", todo, pending) \in Run
    BY <1>1, <1>3, <1>4, <1>5, OfRun
  <2>3. /\ new.at = "syncing" /\ new.request = run.request /\ new.todo = todo /\ new.pending = pending
        /\ new.failed = failed /\ new.empty = run.empty
    BY <2>1 DEF RunOf
  <2>4. QED
    BY <1>3, <1>4, <1>5, <1>12, <2>1, <2>2, <2>3 DEF StepsAsked, new
<1>13. CASE todo = <<>>
  <2> DEFINE at == IF "scoring" \in run.request.steps THEN "scoring" ELSE "ended"
  <2>1. new = Next8(at, <<>>, <<>>)
    BY <1>8, <1>10, <1>13
  <2>2. Next8(at, <<>>, <<>>) \in Run
    BY <1>1, <1>3, <1>11, OfRun
  <2>3. /\ new.at = at /\ new.request = run.request /\ new.todo = <<>> /\ new.pending = <<>>
        /\ new.failed = failed /\ new.empty = run.empty
    BY <2>1 DEF RunOf
  <2>4. ToSet(run.todo) \subseteq {Head(run.todo)}
    BY <1>4, <1>11, <1>13
  <2>5. QED
    BY <1>3, <1>11, <2>1, <2>2, <2>3, <2>4 DEF StepsAsked, new
<1>14. QED
  BY <1>12, <1>13

\* The next step of the symbol, or a symbol fewer.
Fewer(new, old) ==
  \/ Len(new.todo) < Len(old.todo)
  \/ Len(new.todo) = Len(old.todo) /\ Len(new.pending) < Len(old.pending)
Nearer(new, old) ==
  PlacesLeft(new.at) < PlacesLeft(old.at) \/ (new.at = old.at /\ Fewer(new, old))

LEMMA PlacesAre ==
  /\ PlacesLeft("off") = 5 /\ PlacesLeft("booting") = 4 /\ PlacesLeft("resolving") = 3
  /\ PlacesLeft("syncing") = 2 /\ PlacesLeft("scoring") = 1 /\ PlacesLeft("ended") = 0
BY DEF PlacesLeft

LEMMA TailIsShorter ==
  ASSUME NEW T, NEW q \in Seq(T), q # <<>>
  PROVE  Len(Tail(q)) < Len(q)
<1>1. Len(q) \in Nat /\ Len(Tail(q)) = Len(q) - 1
  BY HeadTailProperties
<1>2. QED
  BY <1>1

LEMMA OnwardsIsNearer ==
  ASSUME NEW run \in Run, run.at = "syncing", StepsAsked(run), run.todo # <<>>,
         run.pending # <<>>, NEW ok \in BOOLEAN
  PROVE  Nearer(Onwards(run, ok), run)
<1> DEFINE more == ok /\ Len(run.pending) > 1
           todo == IF more THEN run.todo ELSE Tail(run.todo)
           failed == IF ok THEN run.failed ELSE run.failed \cup {Head(run.todo)}
           next == [run EXCEPT !.failed = failed]
           pending == IF more THEN Tail(run.pending) ELSE Enabled(run.request)
           new == Onwards(run, ok)
<1>1. run.todo \in Seq(Symbols) /\ run.pending \in Seq(ToSet(Steps))
  BY RunIs
<1>2. new = IF todo # <<>> THEN Placed(next, "syncing", todo, pending)
            ELSE IF "scoring" \in run.request.steps THEN Placed(next, "scoring", <<>>, <<>>)
            ELSE Ended(next)
  BY DEF Onwards
<1>3. next \in Run
  <2>1. next = RunOf(run.at, run.request, run.todo, run.pending, failed, run.empty, run.scoring, run.cut)
    BY ChangedIs
  <2>2. failed \in SUBSET Symbols
    BY <1>1, RunIs, Heads
  <2> HIDE DEF failed, next
  <2>3. run.at \in {"off", "booting", "resolving", "syncing", "scoring", "ended"}
    BY DEF Run
  <2>4. QED
    BY <2>1, <2>2, <2>3, RunIs, OfRun
<1> HIDE DEF next, new, todo, pending
<1>4. new.at \in {"scoring", "ended"} \/ (new.at = "syncing" /\ new.todo = todo /\ new.pending = pending)
  BY <1>2, <1>3, PlacedIs, EndedIs DEF RunOf
<1>5. (todo = run.todo /\ Len(pending) < Len(run.pending)) \/ Len(todo) < Len(run.todo)
  BY <1>1, TailIsShorter DEF todo, pending
<1>6. QED
  <2>1. new.at = "syncing" => Fewer(new, run)
    BY <1>4, <1>5 DEF Fewer
  <2>2. new.at \in {"scoring", "ended"} => PlacesLeft(new.at) < PlacesLeft(run.at)
    BY PlacesAre
  <2>3. QED
    BY <1>4, <2>1, <2>2 DEF Nearer, new

-----------------------------------------------------------------------------
(* The invariant.                                                          *)

LEMMA BeforeGrows ==
  ASSUME SyncAssumption, NEW less \in SUBSET Symbols, NEW more \in SUBSET Symbols,
         less \subseteq more,
         NEW x
  PROVE  /\ Cardinality({f \in less : f < x}) \in Nat /\ Cardinality({f \in more : f < x}) \in Nat
         /\ Cardinality({f \in less : f < x}) <= Cardinality({f \in more : f < x})
<1> DEFINE A == {f \in less : f < x}
           B == {f \in more : f < x}
<1>1. IsFiniteSet(B) /\ A \in SUBSET B
  BY TickersAre, FS_Subset
<1> HIDE DEF A, B
<1>2. IsFiniteSet(A) /\ Cardinality(A) <= Cardinality(B)
  BY <1>1, FS_Subset
<1>3. Cardinality(A) \in Nat /\ Cardinality(B) \in Nat
  BY <1>1, <1>2, FS_CardinalityType
<1>4. QED
  BY <1>2, <1>3 DEF A, B

LEMMA AccountedGrows ==
  ASSUME NEW due, NEW run, NEW less, NEW more, less \subseteq more, Accounted(due, run, less)
  PROVE  Accounted(due, run, more)
BY DEF Accounted

\* A run moves on, and with it the funds and the prices may grow.
LEMMA RunMoved ==
  ASSUME SyncAssumption, SyncInv, NEW r \in Runners, NEW new \in Run, StepsAsked(new),
         new.at = "syncing" => new.todo # <<>> /\ new.pending # <<>>,
         r = "child" => Child.at # "off" /\ new.request = Child.request,
         r = "parent" => cli.at = "final",
         NEW more \in SUBSET Symbols, funds \subseteq more,
         NEW prices \in SUBSET more, priced \subseteq prices,
         r = "child" /\ cli.at = "prices" /\ args.start["prices"] = 1 =>
           Accounted(trail.due, new, prices),
         funds' = more, priced' = prices, runs' = [runs EXCEPT ![r] = new],
         UNCHANGED <<args, cli, trail, pipelines>>, scheduled' \in 0..MaxScheduled
  PROVE  SyncInv'
<1>0. \A n \in Nat : Edge(n) \in Nat /\ Edge(n) \in Int
  <2>1. BatchSize \in Nat \ {0}
    BY DEF SyncAssumption
  <2>2. \A n \in Nat : Edge(n) \in Nat
    BY <2>1, Edges
  <2>3. QED
    BY <2>2
<1>1. /\ args' = args /\ cli' = cli /\ trail' = trail /\ pipelines' = pipelines
      /\ BatchRequest' = BatchRequest
  <2>1. args' = args /\ cli' = cli /\ trail' = trail /\ pipelines' = pipelines
    OBVIOUS
  <2>2. QED
    BY <2>1 DEF BatchRequest
<1>2. /\ runs \in [Runners -> Run] /\ runs' \in [Runners -> Run] /\ "child" \in Runners /\ "parent" \in Runners
      /\ \A q \in Runners : runs'[q] = IF q = r THEN new ELSE runs[q]
  BY DEF SyncInv, SyncTyped, Runners
<1>3. SyncTyped'
  <2>1. \A q \in Runners : runs'[q].at = "syncing" => runs'[q].todo # <<>> /\ runs'[q].pending # <<>>
    BY <1>2 DEF SyncInv, SyncTyped
  <2>2. QED
    BY <1>1, <1>2, <2>1 DEF SyncInv, SyncTyped
<1>4. ProcessesFit'
  <2>1. \A q \in Runners : StepsAsked(runs'[q])
    BY <1>2 DEF SyncInv, ProcessesFit
  <2>2. runs'["child"].at # "off" =>
          cli'.at \in Sweeps /\ cli'.next <= cli'.last /\ runs'["child"].request = BatchRequest'
    BY <1>1, <1>2 DEF SyncInv, ProcessesFit, Child
  <2>3. runs'["parent"].at # "off" => cli'.at = "final"
    BY <1>1, <1>2 DEF SyncInv, ProcessesFit
  <2>4. (\A q \in Runners : StepsAsked(runs[q]))'
    BY <2>1 DEF StepsAsked
  <2>5. QED
    BY <2>2, <2>3, <2>4 DEF ProcessesFit, Child
<1>5. SweepFits'
  BY <1>1 DEF SyncInv, SweepFits, Sorted
<1>6. PricesAccounted'
  <2>1. Accounted(trail.due, runs'["child"], prices)
          \/ ~(cli.at = "prices" /\ args.start["prices"] = 1)
    <3>1. CASE r = "child"
      BY <1>2, <3>1
    <3>2. CASE r # "child"
      BY <1>2, <3>2, AccountedGrows DEF SyncInv, PricesAccounted, Child
    <3>3. QED
      BY <3>1, <3>2
  <2>2. Accounted(trail'.due, runs'["child"], priced')
          \/ ~(cli.at = "prices" /\ args.start["prices"] = 1)
    BY <1>1, <2>1
  <2>3. Rest(cli.list, cli.next)' = Rest(cli.list, cli.next)
    BY <1>1 DEF Rest, Part
  <2>4. (Accounted(trail.due, Child, priced))' \/ ~(cli.at = "prices" /\ args.start["prices"] = 1)
    BY <2>2 DEF Accounted, Child
  <2>5. QED
    BY <1>1, <2>3, <2>4 DEF SyncInv, PricesAccounted
<1>7. MetadataAccounted'
  <2>1. Rest(cli.list, cli.next)' = Rest(cli.list, cli.next)
    BY <1>1 DEF Rest, Part
  <2>2. ResumedMetadataMissesNothing'
    BY <1>1 DEF SyncInv, MetadataAccounted, ResumedMetadataMissesNothing
  <2>3. (cli.at = "metadata" => trail.owed \subseteq Rest(cli.list, cli.next))'
    BY <1>1, <2>1 DEF SyncInv, MetadataAccounted
  <2>4. ASSUME cli.at = "exited", cli.stopped = "metadata"
        PROVE  /\ trail.owed \subseteq more
               /\ \A x \in trail.owed : Cardinality({f \in more : f < x}) >= Edge(cli.next - 1)
    <3>1. trail.owed \subseteq funds /\ \A x \in trail.owed : Before(x) >= Edge(cli.next - 1)
      BY <2>4 DEF SyncInv, MetadataAccounted
    <3>2. Edge(cli.next - 1) \in Int
      <4>1. cli.next - 1 \in Nat
        <5>1. cli.next \in Nat \ {0}
          BY DEF SyncInv, SyncTyped, Cli
        <5>2. QED
          BY <5>1
      <4>2. QED
        BY <1>0, <4>1
    <3>3. ASSUME NEW x \in trail.owed
          PROVE  Cardinality({f \in more : f < x}) >= Edge(cli.next - 1)
      <4>1. Cardinality({f \in funds : f < x}) >= Edge(cli.next - 1)
        BY <3>1 DEF Before
      <4>2. funds \in SUBSET Symbols
        BY DEF SyncInv, SyncTyped
      <4> DEFINE a == Cardinality({f \in funds : f < x})
                 b == Cardinality({f \in more : f < x})
      <4>3. a \in Nat /\ b \in Nat /\ a <= b
        BY <4>2, BeforeGrows
      <4> HIDE DEF a, b
      <4>4. QED
        BY <3>2, <4>1, <4>3 DEF a, b
    <3>4. QED
      BY <3>1, <3>3
  <2>5. (cli.at = "exited" /\ cli.stopped = "metadata" =>
           /\ trail.owed \subseteq funds
           /\ \A x \in trail.owed : Before(x) >= Edge(cli.next - 1))'
    BY <1>1, <2>4 DEF Before, Edge
  <2>6. QED
    BY <2>2, <2>3, <2>5 DEF MetadataAccounted
<1>8. QED
  BY <1>3, <1>4, <1>5, <1>6, <1>7 DEF SyncInv

\* The child of a price batch works on that batch, and on prices alone.
LEMMA PriceBatch ==
  ASSUME SyncAssumption, SyncInv, Child.at # "off", cli.at = "prices"
  PROVE  /\ Child.request.steps = {"prices"} /\ Child.request.symbols # <<>>
         /\ Child.request.symbols = BatchOf(cli.list, cli.next)
<1>1. Child.request = BatchRequest /\ cli.next <= cli.last /\ cli.last <= BatchCount(Len(cli.list))
  BY DEF SyncInv, ProcessesFit, SweepFits
<1>2. BatchRequest = [symbols |-> BatchOf(cli.list, cli.next), discover |-> Discovery,
                      offset |-> 0, limit |-> ListingLimit, steps |-> {"prices"}]
  BY DEF BatchRequest
<1>3. cli.list \in Seq(Symbols) /\ cli.next \in Nat \ {0} /\ cli.last \in Nat
  BY DEF SyncInv, SyncTyped, Cli
<1>4. BatchSize \in Nat \ {0} /\ Len(cli.list) \in Nat
  BY <1>3 DEF SyncAssumption
<1>5. Edge(cli.next - 1) < Len(cli.list)
  <2>1. BatchCount(Len(cli.list)) \in Nat
    BY <1>4, BatchNumbers
  <2>2. cli.next <= BatchCount(Len(cli.list))
    BY <1>1, <1>3, <2>1
  <2>3. QED
    BY <1>3, <1>4, <2>2, BatchNumbers
<1>6. BatchOf(cli.list, cli.next) # <<>>
  BY <1>3, <1>4, <1>5, BatchIs
<1>7. QED
  BY <1>1, <1>2, <1>6

LEMMA RunFacts ==
  ASSUME SyncInv, NEW r \in Runners
  PROVE  /\ runs[r] \in Run /\ StepsAsked(runs[r]) /\ runs[r].request \in Request
         /\ funds \in SUBSET Symbols /\ priced \in SUBSET funds
         /\ runs[r].at = "syncing" => runs[r].todo # <<>> /\ runs[r].pending # <<>>
         /\ r = "parent" /\ runs[r].at # "off" => cli.at = "final"
         /\ cli.at = "prices" /\ args.start["prices"] = 1 =>
              trail.due \cap Foreign = {} /\ Accounted(trail.due, Child, priced)
<1>1. runs \in [Runners -> Run]
  BY DEF SyncInv, SyncTyped
<1>2. runs[r] \in Run /\ runs[r].request \in Request
  BY <1>1, RunIs
<1>3. QED
  BY <1>2 DEF SyncInv, SyncTyped, ProcessesFit, PricesAccounted

\* A run that is ended by an exception or a kill, or goes on to resolve.
LEMMA RunEnds ==
  ASSUME SyncAssumption, SyncInv, NEW r \in Runners, runs[r].at # "off",
         UNCHANGED <<funds, priced>>, Outside,
         \/ \E cut \in {"thrown", "killed"} :
              runs' = [runs EXCEPT ![r] = [Ended(runs[r]) EXCEPT !.cut = cut]]
         \/ runs' = [runs EXCEPT ![r] = [runs[r] EXCEPT !.at = "resolving"]]
  PROVE  SyncInv'
<1> DEFINE q == runs[r]
<1>1. /\ q \in Run /\ StepsAsked(q) /\ funds \in SUBSET Symbols /\ priced \in SUBSET funds
      /\ (r = "parent" => cli.at = "final")
  BY RunFacts
<1>2. /\ q.request \in Request /\ q.todo \in Seq(Symbols) /\ q.pending \in Seq(ToSet(Steps))
      /\ q.failed \subseteq Symbols /\ q.empty \subseteq Symbols
      /\ q.scoring \in {"skipped", "success", "failed"} /\ q.cut \in {"no", "thrown", "killed"}
  BY <1>1, RunIs
<1>3. /\ UNCHANGED <<args, cli, trail, pipelines>> /\ scheduled' \in 0..MaxScheduled
      /\ funds' = funds /\ priced' = priced
  BY DEF Outside, SyncInv, SyncTyped
<1>4. <<>> \in Seq(Symbols) /\ <<>> \in Seq(ToSet(Steps)) /\ DOMAIN <<>> = {}
  OBVIOUS
<1>5. ASSUME NEW cut \in {"thrown", "killed"},
             runs' = [runs EXCEPT ![r] = [Ended(runs[r]) EXCEPT !.cut = cut]]
      PROVE  SyncInv'
  <2> DEFINE new == RunOf("ended", q.request, <<>>, <<>>, q.failed, q.empty, q.scoring, cut)
  <2>1. runs' = [runs EXCEPT ![r] = new]
    BY <1>1, <1>5, ChangedIs
  <2>2. new \in Run
    BY <1>2, <1>4, OfRun
  <2>3. /\ new.at = "ended" /\ new.cut = cut /\ new.request = q.request /\ new.pending = <<>>
    BY DEF RunOf
  <2> HIDE DEF new
  <2>4. StepsAsked(new) /\ Accounted(trail.due, new, priced)
    BY <1>4, <2>3 DEF StepsAsked, Accounted
  <2>5. QED
    BY <1>1, <1>3, <2>1, <2>2, <2>3, <2>4, RunMoved DEF Child
<1>6. ASSUME runs' = [runs EXCEPT ![r] = [runs[r] EXCEPT !.at = "resolving"]]
      PROVE  SyncInv'
  <2> DEFINE new == RunOf("resolving", q.request, q.todo, q.pending, q.failed, q.empty, q.scoring, q.cut)
  <2>1. runs' = [runs EXCEPT ![r] = new]
    BY <1>1, <1>6, ChangedIs
  <2>2. new \in Run
    BY <1>2, OfRun
  <2>3. new.at = "resolving" /\ new.request = q.request /\ new.pending = q.pending
    BY DEF RunOf
  <2> HIDE DEF new
  <2>4. StepsAsked(new) /\ Accounted(trail.due, new, priced)
    BY <1>1, <2>3 DEF StepsAsked, Accounted
  <2>5. QED
    BY <1>1, <1>3, <2>1, <2>2, <2>3, <2>4, RunMoved DEF Child
<1>7. QED
  BY <1>5, <1>6

\* A step of the head symbol is over: done, found nothing or failed.
LEMMA SymbolOnwards ==
  ASSUME SyncAssumption, SyncInv, NEW r \in Runners, runs[r].at = "syncing", NEW ok \in BOOLEAN,
         NEW base \in Run, base.request = runs[r].request, base.todo = runs[r].todo,
         base.pending = runs[r].pending,
         runs[r].failed \subseteq base.failed, runs[r].empty \subseteq base.empty,
         NEW more \in SUBSET Symbols, funds \subseteq more,
         NEW prices \in SUBSET more, priced \subseteq prices,
         \/ ~ok
         \/ Head(runs[r].pending) # "prices"
         \/ Head(runs[r].todo) \in prices \cup base.empty \cup Foreign,
         funds' = more, priced' = prices, runs' = [runs EXCEPT ![r] = Onwards(base, ok)], Outside
  PROVE  SyncInv'
<1> DEFINE q == runs[r]
           new == Onwards(base, ok)
<1>1. /\ q \in Run /\ StepsAsked(q) /\ q.todo # <<>> /\ q.pending # <<>>
      /\ (r = "parent" => cli.at = "final")
  BY RunFacts
<1>2. StepsAsked(base) /\ base.todo # <<>> /\ base.pending # <<>>
  BY <1>1 DEF StepsAsked
<1>3. /\ new \in Run /\ StepsAsked(new) /\ new.request = base.request
      /\ new.at \in {"syncing", "scoring", "ended"}
      /\ new.at = "syncing" => new.todo # <<>> /\ new.pending # <<>>
      /\ new.at = "scoring" => "scoring" \in base.request.steps
      /\ base.failed \subseteq new.failed /\ new.empty = base.empty
      /\ ToSet(base.todo) \subseteq ToSet(new.todo) \cup {Head(base.todo)}
      /\ new.at # "syncing" => new.todo = <<>>
      /\ ~ok => Head(base.todo) \in new.failed
  BY <1>2, OnwardsIs
<1> HIDE DEF new
<1>4. /\ UNCHANGED <<args, cli, trail, pipelines>> /\ scheduled' \in 0..MaxScheduled
  BY DEF Outside, SyncInv, SyncTyped
<1>5. ASSUME r = "child", cli.at = "prices", args.start["prices"] = 1
      PROVE  Accounted(trail.due, new, prices)
  <2>1. /\ q.request.steps = {"prices"} /\ q = Child
    BY <1>5, PriceBatch DEF Child
  <2>2. trail.due \cap Foreign = {} /\ Accounted(trail.due, q, priced)
    BY <1>5, <2>1, RunFacts
  <2>3. Head(q.pending) = "prices"
    <3>1. q.pending \in Seq(ToSet(Steps))
      BY <1>1, RunIs
    <3>2. Head(q.pending) = q.pending[1] /\ 1 \in DOMAIN q.pending
      BY <1>1, <3>1, Heads
    <3>3. QED
      BY <1>1, <2>1, <3>2 DEF StepsAsked
  <2> DEFINE batch == trail.due \cap ToSet(q.request.symbols)
             dealt == prices \cup new.failed \cup new.empty
             head == Head(q.todo)
  <2>4. batch \subseteq priced \cup q.failed \cup q.empty \cup ToSet(q.todo)
    BY <2>2 DEF Accounted
  <2>5. head \in dealt \/ head \notin batch
    BY <1>3, <2>2, <2>3
  <2>6. batch \subseteq dealt \cup ToSet(new.todo)
    <3>1. priced \cup q.failed \cup q.empty \subseteq dealt
      BY <1>3
    <3>2. ToSet(q.todo) \subseteq ToSet(new.todo) \cup {head}
      BY <1>3
    <3>3. QED
      BY <2>4, <2>5, <3>1, <3>2
  <2>7. new.at # "scoring"
    BY <1>3, <2>1
  <2>8. new.at # "syncing" => ToSet(new.todo) = {}
    <3>1. ToSet(<<>>) = {}
      BY DEF ToSet
    <3>2. QED
      BY <1>3, <3>1
  <2>9. QED
    BY <1>3, <2>6, <2>7, <2>8 DEF Accounted
<1>6. runs' = [runs EXCEPT ![r] = new]
  BY DEF new
<1>7. r = "child" => Child.at # "off" /\ new.request = Child.request
  BY <1>3 DEF Child
<1>8. QED
  BY <1>1, <1>3, <1>4, <1>5, <1>6, <1>7, RunMoved

LEMMA RunStepKept ==
  ASSUME SyncAssumption, SyncInv, NEW r \in Runners, RunStep(r)
  PROVE  SyncInv'
<1> DEFINE q == runs[r]
<1>1. /\ q \in Run /\ StepsAsked(q) /\ q.request \in Request
      /\ funds \in SUBSET Symbols /\ priced \in SUBSET funds
      /\ q.at = "syncing" => q.todo # <<>> /\ q.pending # <<>>
      /\ r = "parent" /\ q.at # "off" => cli.at = "final"
  BY RunFacts
<1>2. /\ q.todo \in Seq(Symbols) /\ q.pending \in Seq(ToSet(Steps))
      /\ q.failed \subseteq Symbols /\ q.empty \subseteq Symbols
      /\ q.scoring \in {"skipped", "success", "failed"} /\ q.cut \in {"no", "thrown", "killed"}
  BY <1>1, RunIs
<1>3. <<>> \in Seq(Symbols) /\ <<>> \in Seq(ToSet(Steps)) /\ DOMAIN <<>> = {}
  OBVIOUS
<1>4. Outside => UNCHANGED <<args, cli, trail, pipelines>> /\ scheduled' \in 0..MaxScheduled
  BY DEF Outside, SyncInv, SyncTyped
<1>5. CASE Resolve(r)
  <2> DEFINE symbols == ResolveManualSyncSymbols(q.request)
             at == IF Enabled(q.request) = <<>> THEN "scoring"
                   ELSE IF symbols = <<>> THEN "ended" ELSE "syncing"
             todo == IF at = "syncing" THEN symbols ELSE <<>>
             pending == IF at = "syncing" THEN Enabled(q.request) ELSE <<>>
             new == RunOf(at, q.request, todo, pending, q.failed, q.empty, q.scoring, q.cut)
  <2>1. /\ symbols \in Seq(Symbols)
        /\ q.request.symbols # <<>> => symbols # <<>> /\ ToSet(symbols) = ToSet(q.request.symbols)
    BY <1>1, ResolvedAre DEF SyncInv
  <2>2. /\ Enabled(q.request) \in Seq(ToSet(Steps))
        /\ \A i \in DOMAIN Enabled(q.request) : Enabled(q.request)[i] \in q.request.steps
        /\ "prices" \in q.request.steps => Enabled(q.request) # <<>>
    BY <1>1, EnabledAre, Names
  <2>3. runs' = [runs EXCEPT ![r] = IF Enabled(q.request) = <<>> THEN Placed(q, "scoring", <<>>, <<>>)
                                    ELSE IF symbols = <<>> THEN Ended(q)
                                    ELSE Placed(q, "syncing", symbols, Enabled(q.request))]
        /\ Outside /\ funds' = funds /\ priced' = priced /\ q.at = "resolving"
    BY <1>5 DEF Resolve, Running
  <2> HIDE DEF symbols
  <2>4. /\ Placed(q, "scoring", <<>>, <<>>) =
             RunOf("scoring", q.request, <<>>, <<>>, q.failed, q.empty, q.scoring, q.cut)
        /\ Ended(q) = RunOf("ended", q.request, <<>>, <<>>, q.failed, q.empty, q.scoring, q.cut)
        /\ Placed(q, "syncing", symbols, Enabled(q.request)) =
             RunOf("syncing", q.request, symbols, Enabled(q.request), q.failed, q.empty, q.scoring, q.cut)
    BY <1>1, PlacedIs, EndedIs
  <2>5. runs' = [runs EXCEPT ![r] = new]
    BY <2>3, <2>4
  <2>6. new \in Run
    BY <1>1, <1>2, <1>3, <2>1, <2>2, OfRun
  <2>7. new.at = at /\ new.request = q.request /\ new.todo = todo /\ new.pending = pending
    BY DEF RunOf
  <2> HIDE DEF new
  <2>8. StepsAsked(new) /\ (new.at = "syncing" => new.todo # <<>> /\ new.pending # <<>>)
    BY <1>3, <2>2, <2>7 DEF StepsAsked
  <2>9. ASSUME r = "child", cli.at = "prices"
        PROVE  Accounted(trail.due, new, priced)
    <3>1. q.request.steps = {"prices"} /\ q.request.symbols # <<>>
      BY <2>3, <2>9, PriceBatch DEF Child
    <3>2. at = "syncing" /\ ToSet(todo) = ToSet(q.request.symbols)
      BY <2>1, <2>2, <3>1
    <3>3. QED
      BY <2>7, <3>2 DEF Accounted
  <2>10. QED
    BY <1>1, <1>4, <2>3, <2>5, <2>6, <2>7, <2>8, <2>9, RunMoved DEF Child
<1>6. CASE ResolvingFails(r)
  <2>1. runs' = [runs EXCEPT ![r] = [Ended(runs[r]) EXCEPT !.cut = "thrown"]]
    BY <1>6 DEF ResolvingFails
  <2>2. QED
    BY <1>6, <2>1, RunEnds DEF ResolvingFails, Running
<1>7. CASE SyncMetadata(r)
  <2>1. /\ q.at = "syncing" /\ Head(q.pending) = "metadata" /\ Outside
        /\ funds' = funds \cup {Head(q.todo)} /\ priced' = priced
        /\ runs' = [runs EXCEPT ![r] = Onwards(q, TRUE)]
    BY <1>7 DEF SyncMetadata, AtStep, Running
  <2>2. funds \cup {Head(q.todo)} \in SUBSET Symbols
    BY <1>1, <1>2, <2>1, Heads
  <2>3. QED
    BY <1>1, <2>1, <2>2, SymbolOnwards
<1>8. CASE SkipForeignPrices(r)
  <2>1. /\ q.at = "syncing" /\ Head(q.todo) \in Foreign /\ Outside
        /\ funds' = funds /\ priced' = priced
        /\ runs' = [runs EXCEPT ![r] = Onwards(q, TRUE)]
    BY <1>8 DEF SkipForeignPrices, AtStep, Running
  <2>2. QED
    BY <1>1, <2>1, SymbolOnwards
<1>9. CASE SyncPrices(r)
  <2> DEFINE head == Head(q.todo)
             void == [q EXCEPT !.empty = @ \cup {head}]
  <2>1. PICK found \in BOOLEAN :
          /\ priced' = IF found THEN priced \cup {head} ELSE priced
          /\ runs' = [runs EXCEPT ![r] = Onwards(IF found THEN q ELSE void, TRUE)]
    BY <1>9 DEF SyncPrices
  <2>2. q.at = "syncing" /\ head \in funds /\ Outside /\ funds' = funds
    BY <1>9 DEF SyncPrices, AtStep, Running
  <2>3. head \in Symbols
    BY <1>1, <2>2
  <2>4. CASE found
    <3>1. priced' = priced \cup {head} /\ runs' = [runs EXCEPT ![r] = Onwards(q, TRUE)]
      BY <2>1, <2>4
    <3>2. priced \cup {head} \in SUBSET funds /\ head \in (priced \cup {head}) \cup q.empty \cup Foreign
      BY <1>1, <2>2
    <3>3. QED
      BY <1>1, <2>2, <3>1, <3>2, SymbolOnwards
  <2>5. CASE ~found
    <3>1. priced' = priced /\ runs' = [runs EXCEPT ![r] = Onwards(void, TRUE)]
      BY <2>1, <2>5
    <3>2. void = RunOf(q.at, q.request, q.todo, q.pending, q.failed, q.empty \cup {head}, q.scoring, q.cut)
      BY <1>1, ChangedIs
    <3>3. void \in Run
      <4>1. q.at \in {"off", "booting", "resolving", "syncing", "scoring", "ended"}
        BY <2>2
      <4>2. q.empty \cup {head} \in SUBSET Symbols
        BY <1>2, <2>3
      <4> HIDE DEF head, void
      <4>3. QED
        BY <1>1, <1>2, <3>2, <4>1, <4>2, OfRun
    <3>4. /\ void.request = q.request /\ void.todo = q.todo /\ void.pending = q.pending
          /\ void.failed = q.failed /\ void.empty = q.empty \cup {head}
      BY <3>2 DEF RunOf
    <3> HIDE DEF void
    <3>5. QED
      BY <1>1, <2>2, <3>1, <3>3, <3>4, SymbolOnwards
  <2>6. QED
    BY <2>4, <2>5
<1>10. CASE SyncComposition(r)
  <2>1. /\ q.at = "syncing" /\ Head(q.pending) = "composition" /\ Outside
        /\ funds' = funds /\ priced' = priced
        /\ runs' = [runs EXCEPT ![r] = Onwards(q, TRUE)]
    BY <1>10 DEF SyncComposition, AtStep, Running
  <2>2. QED
    BY <1>1, <2>1, SymbolOnwards
<1>11. CASE StepFails(r)
  <2>1. /\ q.at = "syncing" /\ Outside
        /\ funds' = funds /\ priced' = priced
        /\ runs' = [runs EXCEPT ![r] = Onwards(q, FALSE)]
    BY <1>11 DEF StepFails, Running
  <2>2. QED
    BY <1>1, <2>1, SymbolOnwards
<1>12. CASE RunAutomaticScoring(r)
  <2>1. PICK outcome \in {"success", "failed"} :
          runs' = [runs EXCEPT ![r] = [Ended(q) EXCEPT !.scoring =
                     IF outcome = "success" /\ funds = {} THEN "skipped" ELSE outcome]]
    BY <1>12 DEF RunAutomaticScoring
  <2>2. q.at = "scoring" /\ Outside /\ funds' = funds /\ priced' = priced
    BY <1>12 DEF RunAutomaticScoring, Running
  <2> DEFINE scoring == IF outcome = "success" /\ funds = {} THEN "skipped" ELSE outcome
             new == RunOf("ended", q.request, <<>>, <<>>, q.failed, q.empty, scoring, q.cut)
  <2>3. scoring \in {"skipped", "success", "failed"}
    OBVIOUS
  <2> HIDE DEF scoring
  <2>4. runs' = [runs EXCEPT ![r] = new]
    BY <1>1, <2>1, ChangedIs DEF scoring
  <2>5. new \in Run
    BY <1>1, <1>2, <1>3, <2>3, OfRun
  <2>6. new.at = "ended" /\ new.request = q.request /\ new.pending = <<>>
    BY DEF RunOf
  <2> HIDE DEF new
  <2>7. StepsAsked(new)
    BY <1>3, <2>6 DEF StepsAsked
  <2>8. ~(r = "child" /\ cli.at = "prices" /\ args.start["prices"] = 1)
    BY <2>2, RunFacts DEF Accounted, Child
  <2>9. QED
    BY <1>1, <1>4, <2>2, <2>4, <2>5, <2>6, <2>7, <2>8, RunMoved DEF Child
<1>13. QED
  BY <1>5, <1>6, <1>7, <1>8, <1>9, <1>10, <1>11, <1>12 DEF RunStep

-----------------------------------------------------------------------------
(* The CLI.                                                                *)

LEMMA OffIs ==
  ASSUME SyncAssumption
  PROVE  /\ Off \in Run /\ StepsAsked(Off) /\ Off.at = "off"
         /\ \A due, prices : Accounted(due, Off, prices)
<1>1. NoRequest \in Request
  <2>1. <<>> \in Seq(Symbols)
    OBVIOUS
  <2>2. QED
    BY <2>1 DEF NoRequest, Request
<1>2. /\ <<>> \in Seq(Symbols) /\ <<>> \in Seq(ToSet(Steps)) /\ DOMAIN <<>> = {}
  OBVIOUS
<1>3. Off = RunOf("off", NoRequest, <<>>, <<>>, {}, {}, "skipped", "no")
  BY DEF Off, RunOf
<1>4. Off \in Run
  BY <1>1, <1>2, <1>3, OfRun
<1>5. Off.at = "off" /\ Off.pending = <<>>
  BY DEF Off
<1>6. QED
  BY <1>2, <1>4, <1>5 DEF StepsAsked, Accounted

LEMMA StagesAre ==
  ASSUME SyncAssumption, NEW at \in {"idle", "final", "exited"} \cup Sweeps \cup ToSet(PostProcessing)
  PROVE  /\ NoCli \in Cli /\ NoCli.at = "idle" /\ Stage(at) \in Cli /\ Stage(at).at = at
         /\ Stage(at).stopped = "nowhere"
<1>1. <<>> \in Seq(Symbols) /\ 1 \in Nat \ {0} /\ 0 \in Nat
  OBVIOUS
<1>2. NoCli \in Cli /\ NoCli.at = "idle"
  BY <1>1 DEF NoCli, Cli
<1>3. Stage(at) = [at |-> at, list |-> <<>>, next |-> 1, last |-> 0, exit |-> "none",
                   stopped |-> "nowhere"]
  BY DEF Stage, NoCli
<1>4. QED
  BY <1>1, <1>2, <1>3 DEF Cli

LEMMA ExitIs ==
  ASSUME SyncAssumption, NEW c \in Cli, NEW code \in {"none", "0", "1", "interrupted"}
  PROVE  LET e == Exit(c, code) IN
         /\ e \in Cli /\ e.at = "exited" /\ e.exit = code /\ e.next = c.next
         /\ e.stopped = IF c.at \in Sweeps /\ c.next <= c.last THEN c.at ELSE "nowhere"
<1> DEFINE stopped == IF c.at \in Sweeps /\ c.next <= c.last THEN c.at ELSE "nowhere"
<1>1. stopped \in Sweeps \cup {"nowhere"}
  OBVIOUS
<1> HIDE DEF stopped
<1>2. Exit(c, code) = [at |-> "exited", list |-> <<>>, next |-> c.next, last |-> c.last,
                       exit |-> code, stopped |-> stopped]
  BY DEF Exit, stopped
<1>3. c.next \in Nat \ {0} /\ c.last \in Nat /\ <<>> \in Seq(Symbols)
  BY DEF Cli
<1>4. Exit(c, code) \in Cli
  BY <1>1, <1>2, <1>3 DEF Cli
<1>5. QED
  BY <1>2, <1>4 DEF stopped

LEMMA LastBatchIs ==
  ASSUME BatchSize \in Nat \ {0}, NoCap = 0, NEW size \in Nat, NEW start \in Nat \ {0},
         NEW cap \in Nat
  PROVE  /\ LastBatch(size, start, cap) \in Nat /\ LastBatch(size, start, cap) <= BatchCount(size)
         /\ cap = NoCap => LastBatch(size, start, cap) = BatchCount(size)
<1>1. BatchCount(size) \in Nat
  BY BatchNumbers
<1>2. QED
  BY <1>1 DEF LastBatch, Min2

\* A sweep of some of the funds, from the batch it starts at.
LEMMA EnterIs ==
  ASSUME SyncAssumption, SyncInv, NEW a \in Args, NEW sweep \in {"metadata", "prices"},
         NEW S \in SUBSET funds
  PROVE  LET c == Enter(a, sweep, Ascending(S)) IN
         /\ c \in Cli /\ c.at = sweep /\ c.next = a.start[sweep]
         /\ Sorted(c.list) /\ ToSet(c.list) = S
         /\ c.last <= BatchCount(Len(c.list))
         /\ a.cap = NoCap => c.last = BatchCount(Len(c.list))
         /\ \A x \in S : Cardinality({y \in S : y < x}) >= Edge(c.next - 1) => x \in Rest(c.list, c.next)
<1> DEFINE list == Ascending(S)
           size == Len(list)
           next == a.start[sweep]
           c == Enter(a, sweep, list)
<1>1. S \in SUBSET Nat /\ IsFiniteSet(S) /\ S \subseteq Symbols
  BY TickersAre, FS_Subset DEF SyncInv, SyncTyped
<1>2. /\ list \in Seq(S) /\ Sorted(list) /\ ToSet(list) = S
      /\ \A n \in 1..Len(list) : Cardinality({y \in S : y < list[n]}) = n - 1
      /\ \A x \in S : \E n \in 1..Len(list) : list[n] = x
  BY <1>1, AscendingIs
<1> HIDE DEF list
<1>3. list \in Seq(Symbols) /\ size \in Nat
  <2>1. list \in Seq(S) /\ S \subseteq Symbols
    BY <1>1, <1>2
  <2>2. list \in Seq(Symbols)
    BY ONLY <2>1, Widened
  <2>3. QED
    BY <2>2
<1>4. next \in Nat \ {0} /\ a.cap \in Nat
  BY DEF Args, Sweeps
<1>5. BatchSize \in Nat \ {0} /\ NoCap = 0
  BY DEF SyncAssumption
<1> HIDE DEF size, next
<1>7. /\ LastBatch(size, next, a.cap) \in Nat /\ LastBatch(size, next, a.cap) <= BatchCount(size)
      /\ a.cap = NoCap => LastBatch(size, next, a.cap) = BatchCount(size)
  BY <1>3, <1>4, <1>5, LastBatchIs
<1>8. c = [at |-> sweep, list |-> list, next |-> next, last |-> LastBatch(size, next, a.cap),
           exit |-> "none", stopped |-> "nowhere"]
  BY DEF Enter, next, size
<1>9. c \in Cli
  BY <1>3, <1>4, <1>7, <1>8 DEF Cli, Sweeps
<1>10. ASSUME NEW x \in S, Cardinality({y \in S : y < x}) >= Edge(next - 1)
       PROVE  x \in Rest(list, next)
  <2>1. PICK n \in 1..Len(list) : list[n] = x
    BY <1>2
  <2>2. Cardinality({y \in S : y < x}) = n - 1
    BY <1>2, <2>1
  <2>3. Edge(next - 1) \in Nat
    <3>1. next - 1 \in Nat
      BY <1>4
    <3>2. QED
      BY <1>5, <3>1, Edges
  <2>4. Edge(next - 1) < n /\ n <= Len(list)
    BY <1>3, <1>10, <2>2, <2>3 DEF size
  <2>5. QED
    BY <2>1, <2>4 DEF Rest, Part
<1> HIDE DEF c
<1>11. /\ c.at = sweep /\ c.next = next /\ c.list = list
       /\ c.last <= BatchCount(size) /\ (a.cap = NoCap => c.last = BatchCount(size))
  BY <1>7, <1>8
<1>12. /\ c \in Cli /\ c.at = sweep /\ c.next = a.start[sweep]
       /\ Sorted(c.list) /\ ToSet(c.list) = S
       /\ c.last <= BatchCount(Len(c.list))
       /\ (a.cap = NoCap => c.last = BatchCount(Len(c.list)))
  BY <1>2, <1>9, <1>11 DEF next, size
<1>13. \A x \in S : Cardinality({y \in S : y < x}) >= Edge(c.next - 1) => x \in Rest(c.list, c.next)
  BY <1>10, <1>11
<1>14. QED
  BY <1>12, <1>13 DEF c, list

\* Where a production pipeline that has swept the prices, or all of them,
\* finds nothing left of what was due or owed.
Swept(at, exit) ==
  at \in {"final"} \cup ToSet(PostProcessing) \/ (at = "exited" /\ exit = "0")
Settled(a) ==
  a.entry = "production" /\ a.cap = NoCap =>
    /\ "skip-prices" \notin a.flags /\ a.start["prices"] = 1
         => trail.due \subseteq priced \cup trail.reported
    /\ "skip-metadata" \notin a.flags => trail.owed = {}

\* The CLI goes to a stage outside the sweeps, or exits.
LEMMA LeavesSweep ==
  ASSUME SyncAssumption, SyncInv, NEW a \in Args, NEW c \in Cli, c.at \notin Sweeps,
         NEW R \in [Runners -> Run],
         \A q \in Runners : /\ StepsAsked(R[q])
                            /\ R[q].at = "syncing" => R[q].todo # <<>> /\ R[q].pending # <<>>,
         R["child"].at = "off", R["parent"].at # "off" => c.at = "final",
         c.at = "exited" /\ c.stopped = "metadata" =>
           /\ trail.owed \subseteq funds
           /\ \A x \in trail.owed : Before(x) >= Edge(c.next - 1),
         Swept(c.at, c.exit) => Settled(a),
         args' = a, cli' = c, runs' = R, pipelines' \in 0..MaxPipelines,
         UNCHANGED <<funds, priced, trail, scheduled>>
  PROVE  SyncInv'
<1>1. /\ funds' = funds /\ priced' = priced /\ trail' = trail /\ scheduled' = scheduled
      /\ c.at \notin {"metadata", "prices", "catalog"}
  BY DEF Sweeps
<1>2. SyncTyped'
  BY <1>1 DEF SyncInv, SyncTyped
<1>3. ProcessesFit'
  <2>1. (\A q \in Runners : StepsAsked(runs[q]))'
    BY DEF StepsAsked
  <2>2. runs'["child"].at = "off" /\ (runs'["parent"].at # "off" => cli'.at = "final")
    OBVIOUS
  <2>3. QED
    BY <2>1, <2>2 DEF ProcessesFit, Child
<1>4. SweepFits'
  BY <1>1 DEF SweepFits
<1>5. PricesAccounted'
  <2>1. cli'.at # "prices"
    BY <1>1
  <2>2. (\/ cli.at \in {"final"} \cup ToSet(PostProcessing)
         \/ cli.at = "exited" /\ cli.exit = "0")' => Settled(a)
    BY DEF Swept
  <2>3. QED
    BY <1>1, <2>1, <2>2 DEF PricesAccounted, Settled
<1>6. MetadataAccounted'
  <2>1. ResumedMetadataMissesNothing'
    BY <1>1 DEF ResumedMetadataMissesNothing, Swept, Settled
  <2>2. cli'.at # "metadata"
    BY <1>1
  <2>3. (cli.at = "exited" /\ cli.stopped = "metadata" =>
           /\ trail.owed \subseteq funds
           /\ \A x \in trail.owed : Before(x) >= Edge(cli.next - 1))'
    BY <1>1 DEF Before, Edge
  <2>4. QED
    BY <2>1, <2>2, <2>3 DEF MetadataAccounted
<1>7. QED
  BY <1>2, <1>3, <1>4, <1>5, <1>6 DEF SyncInv

\* The CLI begins a sweep, its processes idle.
LEMMA EntersSweep ==
  ASSUME SyncAssumption, SyncInv, Child.at = "off", runs["parent"].at = "off",
         NEW a \in Args, NEW c \in Cli, c.at \in Sweeps, Move(a, c),
         c.at = "catalog" => a.entry = "catalog",
         c.at # "catalog" =>
           /\ Sorted(c.list) /\ ToSet(c.list) \subseteq funds
           /\ c.last <= BatchCount(Len(c.list))
           /\ a.cap = NoCap => c.last = BatchCount(Len(c.list)),
         c.at = "metadata" =>
           IF a.start["metadata"] = 1 THEN c.next = 1 ELSE trail.owed \subseteq Rest(c.list, c.next),
         c.at = "prices" /\ a.start["prices"] = 1 =>
           c.next = 1 /\ MissingPrices \subseteq ToSet(c.list),
         c.at = "prices" /\ a.entry = "production" /\ a.cap = NoCap /\ "skip-metadata" \notin a.flags =>
           trail.owed = {},
         pipelines' \in 0..MaxPipelines, UNCHANGED <<funds, priced, runs, scheduled>>
  PROVE  SyncInv'
<1> DEFINE owed == IF c.at = "metadata" /\ a.start["metadata"] = 1 THEN ToSet(c.list) ELSE trail.owed
           due == IF c.at = "prices" /\ a.start["prices"] = 1 THEN MissingPrices ELSE trail.due
           reported == IF c.at = "prices" /\ a.start["prices"] = 1 THEN {} ELSE trail.reported
<1>1. /\ funds' = funds /\ priced' = priced /\ runs' = runs /\ scheduled' = scheduled
      /\ args' = a /\ cli' = c
      /\ trail' = [handed |-> {}, owed |-> owed, due |-> due, reported |-> reported]
  BY DEF Move
<1>2. c.list \in Seq(Symbols) /\ c.next \in Nat \ {0}
  BY DEF Cli
<1>3. BatchSize \in Nat \ {0}
  BY DEF SyncAssumption
<1>4. owed \subseteq Symbols /\ due \subseteq Symbols /\ reported \subseteq Symbols
  <2>1. ToSet(c.list) \subseteq Symbols
    <3>1. c.at # "catalog" => ToSet(c.list) \subseteq Symbols
      BY DEF SyncInv, SyncTyped
    <3>2. QED
      <4>1. DOMAIN c.list = 1..Len(c.list) /\ \A i \in 1..Len(c.list) : c.list[i] \in Symbols
        BY <1>2
      <4>2. QED
        BY <4>1 DEF ToSet
  <2>2. MissingPrices \subseteq Symbols
    BY DEF MissingPrices, SyncInv, SyncTyped
  <2>3. trail.owed \subseteq Symbols /\ trail.due \subseteq Symbols /\ trail.reported \subseteq Symbols
    BY DEF SyncInv, SyncTyped
  <2>4. QED
    BY <2>1, <2>2, <2>3
<1> HIDE DEF owed, due, reported
<1>5. trail'.owed = owed /\ trail'.due = due /\ trail'.reported = reported
  BY <1>1
<1>6. SyncTyped'
  BY <1>1, <1>4 DEF SyncInv, SyncTyped
<1>7. ProcessesFit'
  <2>1. (\A q \in Runners : StepsAsked(runs[q]))'
    BY <1>1 DEF SyncInv, ProcessesFit, StepsAsked
  <2>2. QED
    BY <1>1, <2>1 DEF ProcessesFit, Child
<1>8. SweepFits'
  <2>1. c.at # "catalog" =>
          (/\ Sorted(cli.list) /\ ToSet(cli.list) \subseteq funds
           /\ cli.last <= BatchCount(Len(cli.list))
           /\ args.cap = NoCap => cli.last = BatchCount(Len(cli.list)))'
    BY <1>1 DEF Sorted, BatchCount
  <2>2. QED
    BY <1>1, <2>1 DEF SweepFits
<1>9. PricesAccounted'
  <2>1. c.at # "exited" /\ c.at \notin {"final"} \cup ToSet(PostProcessing)
    BY Names DEF Sweeps
  <2>2. ASSUME c.at = "prices", a.start["prices"] = 1
        PROVE  /\ due \cap Foreign = {}
               /\ due \subseteq Rest(c.list, c.next)
               /\ Accounted(due, Child, priced)
    <3>1. due = MissingPrices /\ MissingPrices \cap Foreign = {}
      BY <2>2 DEF due, MissingPrices
    <3>2. MissingPrices \subseteq Rest(c.list, c.next)
      <4>1. Rest(c.list, 1) = ToSet(c.list)
        BY <1>2, <1>3, RestIs
      <4>2. QED
        BY <2>2, <4>1
    <3>3. Accounted(due, Child, priced)
      BY DEF Accounted
    <3>4. QED
      BY <3>1, <3>2, <3>3
  <2>3. (cli.at = "prices" /\ args.start["prices"] = 1 =>
           /\ trail.due \cap Foreign = {}
           /\ trail.due \subseteq priced \cup trail.reported \cup Rest(cli.list, cli.next)
           /\ Accounted(trail.due, Child, priced))'
    BY <1>1, <1>5, <2>2 DEF Accounted, Child, Rest, Part, Edge
  <2>4. QED
    BY <1>1, <2>1, <2>3 DEF PricesAccounted
<1>10. MetadataAccounted'
  <2>1. c.at = "metadata" => owed \subseteq Rest(c.list, c.next)
    <3>1. Rest(c.list, 1) = ToSet(c.list)
      BY <1>2, <1>3, RestIs
    <3>2. QED
      BY <3>1 DEF owed
  <2>2. (cli.at = "metadata" => trail.owed \subseteq Rest(cli.list, cli.next))'
    BY <1>1, <1>5, <2>1 DEF Rest, Part, Edge
  <2>3. cli'.at # "exited" /\ cli'.at \notin {"final"} \cup ToSet(PostProcessing)
    BY <1>1, Names DEF Sweeps
  <2>4. ResumedMetadataMissesNothing'
    BY <1>1, <1>5, <2>3 DEF ResumedMetadataMissesNothing, owed
  <2>5. QED
    BY <2>2, <2>3, <2>4 DEF MetadataAccounted
<1>11. QED
  BY <1>6, <1>7, <1>8, <1>9, <1>10 DEF SyncInv

\* A pipeline past its prices.
LEMMA PastPrices ==
  ASSUME SyncAssumption, SyncInv, Child.at = "off", runs["parent"].at = "off",
         NEW a \in Args, Settled(a), Move(a, AfterPrices(a)),
         pipelines' \in 0..MaxPipelines, UNCHANGED <<funds, priced, runs, scheduled>>
  PROVE  SyncInv'
<1> DEFINE c == AfterPrices(a)
<1>1. c \in Cli /\ c.at \notin Sweeps /\ c.stopped = "nowhere"
  <2>1. Exit(NoCli, "0") \in Cli /\ Exit(NoCli, "0").at = "exited" /\ Exit(NoCli, "0").stopped = "nowhere"
    <3>1. NoCli \in Cli /\ NoCli.at = "idle" /\ "idle" \notin Sweeps
      BY StagesAre DEF Sweeps
    <3>2. QED
      BY <3>1, ExitIs
  <2>2. Head(PostProcessing) = "themes"
    BY DEF PostProcessing
  <2>3. Stage("themes") \in Cli /\ Stage("themes").at = "themes" /\ Stage("themes").stopped = "nowhere"
    BY StagesAre, Names
  <2>4. QED
    BY <2>1, <2>2, <2>3 DEF AfterPrices, Sweeps
<1>2. args' = a /\ cli' = c /\ trail' = trail /\ runs' = runs
  BY <1>1 DEF Move
<1>3. /\ runs \in [Runners -> Run]
      /\ \A q \in Runners : /\ StepsAsked(runs[q])
                            /\ runs[q].at = "syncing" => runs[q].todo # <<>> /\ runs[q].pending # <<>>
  BY DEF SyncInv, SyncTyped, ProcessesFit
<1> HIDE DEF c
<1>4. QED
  BY <1>1, <1>2, <1>3, LeavesSweep DEF Child

\* A pipeline past its metadata goes to the prices, or past them.
LEMMA PastMetadata ==
  ASSUME SyncAssumption, SyncInv, Child.at = "off", runs["parent"].at = "off",
         NEW a \in Args, Move(a, AfterMetadata(a)),
         a.entry = "production" /\ a.cap = NoCap /\ "skip-metadata" \notin a.flags => trail.owed = {},
         pipelines' \in 0..MaxPipelines, UNCHANGED <<funds, priced, runs, scheduled>>
  PROVE  SyncInv'
<1>1. CASE "skip-prices" \in a.flags
  <2>1. Settled(a) /\ Move(a, AfterPrices(a))
    BY <1>1 DEF Settled, AfterMetadata
  <2>2. QED
    BY <2>1, PastPrices
<1>2. CASE "skip-prices" \notin a.flags
  <2> DEFINE c == Enter(a, "prices", Ascending(MissingPrices))
  <2>1. MissingPrices \in SUBSET funds
    BY DEF MissingPrices
  <2>2. /\ c \in Cli /\ c.at = "prices" /\ c.next = a.start["prices"]
        /\ Sorted(c.list) /\ ToSet(c.list) = MissingPrices
        /\ c.last <= BatchCount(Len(c.list))
        /\ a.cap = NoCap => c.last = BatchCount(Len(c.list))
    BY <2>1, EnterIs
  <2>3. Move(a, c)
    BY <1>2 DEF AfterMetadata
  <2> HIDE DEF c
  <2>4. c.at \in Sweeps /\ c.at # "catalog" /\ c.at # "metadata"
    BY <2>2 DEF Sweeps
  <2>5. QED
    BY <2>1, <2>2, <2>3, <2>4, EntersSweep
<1>3. QED
  BY <1>1, <1>2

\* A pipeline is started, and one that resumes metadata finds all it owes in
\* the batches from there on.
LEMMA StartKept ==
  ASSUME SyncAssumption, SyncInv, Child.at = "off", runs["parent"].at = "off",
         NEW a \in Args, Start(a),
         a.start["metadata"] # 1 =>
           /\ trail.owed \subseteq funds
           /\ \A x \in trail.owed : Before(x) >= Edge(a.start["metadata"] - 1)
  PROVE  SyncInv'
<1>1. /\ pipelines' \in 0..MaxPipelines /\ UNCHANGED <<funds, priced, runs, scheduled>>
      /\ Move(a, Started(a))
  <2>1. pipelines < MaxPipelines /\ pipelines' = pipelines + 1 /\ pipelines \in 0..MaxPipelines
    BY DEF Start, SyncInv, SyncTyped
  <2>2. MaxPipelines \in Nat
    BY DEF SyncAssumption
  <2>3. QED
    BY <2>1, <2>2 DEF Start
<1>2. a.entry \in {"production", "prices", "catalog"}
  BY DEF Args
<1>3. CASE a.entry = "production" /\ "skip-metadata" \in a.flags
  <2>1. Move(a, AfterMetadata(a))
    BY <1>1, <1>3 DEF Started
  <2>2. QED
    BY <1>1, <1>3, <2>1, PastMetadata
<1>4. CASE a.entry = "production" /\ "skip-metadata" \notin a.flags
  <2> DEFINE c == Enter(a, "metadata", Ascending(funds))
  <2>1. /\ c \in Cli /\ c.at = "metadata" /\ c.next = a.start["metadata"]
        /\ Sorted(c.list) /\ ToSet(c.list) = funds
        /\ c.last <= BatchCount(Len(c.list))
        /\ a.cap = NoCap => c.last = BatchCount(Len(c.list))
        /\ \A x \in funds :
             Cardinality({y \in funds : y < x}) >= Edge(c.next - 1) => x \in Rest(c.list, c.next)
    BY EnterIs
  <2>2. Move(a, c)
    BY <1>1, <1>4 DEF Started
  <2> HIDE DEF c
  <2>3. c.at \in Sweeps /\ c.at # "catalog" /\ c.at # "prices"
    BY <2>1 DEF Sweeps
  <2>4. a.start["metadata"] # 1 => trail.owed \subseteq Rest(c.list, c.next)
    BY <2>1 DEF Before
  <2>5. QED
    BY <1>1, <2>1, <2>2, <2>3, <2>4, EntersSweep
<1>5. CASE a.entry = "prices"
  <2> DEFINE S == IF "include-existing" \in a.flags THEN funds \ Foreign ELSE MissingPrices
             c == Enter(a, "prices", Ascending(S))
  <2>1. S \in SUBSET funds /\ MissingPrices \subseteq S
    BY DEF MissingPrices
  <2>2. Move(a, c)
    BY <1>1, <1>5 DEF Started
  <2> HIDE DEF S
  <2>3. /\ c \in Cli /\ c.at = "prices" /\ c.next = a.start["prices"]
        /\ Sorted(c.list) /\ ToSet(c.list) = S
        /\ c.last <= BatchCount(Len(c.list))
        /\ a.cap = NoCap => c.last = BatchCount(Len(c.list))
    BY <2>1, EnterIs
  <2> HIDE DEF c
  <2>4. c.at \in Sweeps /\ c.at # "catalog" /\ c.at # "metadata"
    BY <2>3 DEF Sweeps
  <2>5. QED
    BY <1>1, <1>5, <2>1, <2>2, <2>3, <2>4, EntersSweep
<1>6. CASE a.entry = "catalog"
  <2> DEFINE c == Enter(a, "catalog", <<>>)
  <2>1. c = [at |-> "catalog", list |-> <<>>, next |-> a.start["catalog"],
             last |-> LastBatch(CatalogSize, a.start["catalog"], a.cap),
             exit |-> "none", stopped |-> "nowhere"]
    BY DEF Enter
  <2>2. LastBatch(CatalogSize, a.start["catalog"], a.cap) \in Nat
    <3>1. BatchSize \in Nat \ {0} /\ CatalogSize \in Nat /\ NoCap = 0
      BY DEF SyncAssumption
    <3>2. a.start["catalog"] \in Nat \ {0} /\ a.cap \in Nat
      BY DEF Args, Sweeps
    <3>3. QED
      BY <3>1, <3>2, LastBatchIs
  <2>3. c \in Cli
    <3>1. ASSUME NEW first \in Nat \ {0}, NEW last \in Nat
          PROVE  [at |-> "catalog", list |-> <<>>, next |-> first, last |-> last, exit |-> "none",
                  stopped |-> "nowhere"] \in Cli
      BY DEF Cli, Sweeps
    <3>2. a.start["catalog"] \in Nat \ {0}
      BY DEF Args, Sweeps
    <3> HIDE DEF c
    <3>3. QED
      BY <2>1, <2>2, <3>1, <3>2
  <2>4. Move(a, c)
    BY <1>1, <1>6 DEF Started
  <2>5. c.at = "catalog" /\ c.at \in Sweeps
    BY <2>1 DEF Sweeps
  <2> HIDE DEF c
  <2>6. QED
    BY <1>1, <1>6, <2>3, <2>4, <2>5, EntersSweep
<1>7. QED
  BY <1>2, <1>3, <1>4, <1>5, <1>6

LEMMA CliFacts ==
  ASSUME SyncInv
  PROVE  /\ args \in Args /\ cli \in Cli /\ cli.list \in Seq(Symbols) /\ cli.next \in Nat \ {0}
         /\ cli.last \in Nat
         /\ runs \in [Runners -> Run]
         /\ \A q \in Runners : /\ StepsAsked(runs[q])
                               /\ runs[q].at = "syncing" => runs[q].todo # <<>> /\ runs[q].pending # <<>>
         /\ cli.at \notin Sweeps \/ cli.next > cli.last => Child.at = "off"
         /\ cli.at # "final" => runs["parent"].at = "off"
         /\ Swept(cli.at, cli.exit) => Settled(args)
<1>1. args \in Args /\ cli \in Cli /\ runs \in [Runners -> Run]
  BY DEF SyncInv, SyncTyped
<1>2. cli.list \in Seq(Symbols) /\ cli.next \in Nat \ {0} /\ cli.last \in Nat
  BY <1>1 DEF Cli
<1>3. \A q \in Runners : /\ StepsAsked(runs[q])
                         /\ runs[q].at = "syncing" => runs[q].todo # <<>> /\ runs[q].pending # <<>>
  BY DEF SyncInv, SyncTyped, ProcessesFit
<1>4. cli.at \notin Sweeps \/ cli.next > cli.last => Child.at = "off"
  <2>1. \A x, y \in Nat : x > y => ~(x <= y)
    OBVIOUS
  <2>2. QED
    BY <1>2, <2>1 DEF SyncInv, ProcessesFit
<1>5. cli.at # "final" => runs["parent"].at = "off"
  BY DEF SyncInv, ProcessesFit
<1>6. Swept(cli.at, cli.exit) => Settled(args)
  BY DEF SyncInv, PricesAccounted, MetadataAccounted, ResumedMetadataMissesNothing, Swept, Settled
<1>7. QED
  BY <1>1, <1>2, <1>3, <1>4, <1>5, <1>6

\* What metadata owes when it stops is persisted, and has the batches that
\* were completed before it.
LEMMA StoppedMetadata ==
  ASSUME SyncAssumption, SyncInv, cli.at = "metadata"
  PROVE  /\ trail.owed \subseteq funds
         /\ \A x \in trail.owed : Before(x) >= Edge(cli.next - 1)
<1>1. /\ trail.owed \subseteq Rest(cli.list, cli.next) /\ Sorted(cli.list)
      /\ ToSet(cli.list) \subseteq funds /\ funds \in SUBSET Symbols
  BY DEF SyncInv, SyncTyped, SweepFits, MetadataAccounted
<1>2. cli.list \in Seq(Symbols) /\ cli.next \in Nat \ {0}
  BY CliFacts
<1>3. BatchSize \in Nat \ {0} /\ Symbols \in SUBSET Nat /\ IsFiniteSet(funds)
  BY <1>1, TickersAre, FS_Subset DEF SyncAssumption
<1>4. Rest(cli.list, cli.next) \subseteq ToSet(cli.list)
  BY <1>2, <1>3, RestIs
<1>5. ASSUME NEW x \in trail.owed
      PROVE  Before(x) >= Edge(cli.next - 1)
  <2> DEFINE list == cli.list
             edge == Edge(cli.next - 1)
             below == {f \in funds : f < x}
  <2>1. edge \in Nat
    <3>1. cli.next - 1 \in Nat
      BY <1>2
    <3>2. QED
      BY <1>3, <3>1, Edges
  <2> HIDE DEF edge
  <2>2. PICK i \in 1..Len(list) : edge < i /\ list[i] = x
    BY <1>1, <1>5 DEF Rest, Part, edge
  <2>3. DOMAIN list = 1..Len(list) /\ Len(list) \in Nat
    BY <1>2
  <2> HIDE DEF list
  <2>4. i \in Nat /\ i - 1 \in Nat /\ (\A k \in 1..(i - 1) : k \in 1..Len(list) /\ k < i)
    BY <2>3
  <2> DEFINE first == [k \in 1..(i - 1) |-> list[k]]
  <2>5. \A k \in 1..(i - 1) : list[k] \in below
    <3>1. \A k \in 1..Len(list) : list[k] \in funds
      BY <1>1, <2>3 DEF ToSet, list
    <3>2. \A k \in 1..(i - 1) : list[k] < list[i]
      BY <1>1, <2>2, <2>4 DEF Sorted, list
    <3>3. QED
      BY <2>2, <2>4, <3>1, <3>2
  <2>6. first \in Injection(1..(i - 1), below)
    <3>1. first \in [1..(i - 1) -> below]
      BY <2>5
    <3>2. ASSUME NEW k \in 1..(i - 1), NEW l \in 1..(i - 1), k < l
          PROVE  list[k] # list[l]
      <4>1. list[k] < list[l]
        BY <1>1, <2>4, <3>2 DEF Sorted, list
      <4>2. list[k] \in Int
        <5>1. list[k] \in funds
          BY <2>5
        <5>2. \A f \in funds : f \in Int
          BY <1>1, <1>3
        <5>3. QED
          BY <5>1, <5>2
      <4>3. QED
        BY <4>1, <4>2, Numbers
    <3>3. \A k, l \in 1..(i - 1) : k < l \/ l < k \/ k = l
      OBVIOUS
    <3>4. \A k, l \in 1..(i - 1) : first[k] = first[l] => k = l
      BY <3>2, <3>3
    <3>5. QED
      BY <3>1, <3>4 DEF Injection, IsInjective
  <2>7. IsFiniteSet(below)
    BY <1>3, FS_Subset
  <2> HIDE DEF first, below
  <2>8. Cardinality(1..(i - 1)) <= Cardinality(below)
    BY <2>6, <2>7, FS_Injection
  <2>9. Cardinality(1..(i - 1)) = i - 1 /\ Cardinality(below) \in Nat
    BY <2>4, <2>7, Firsts, FS_CardinalityType
  <2>10. edge <= i - 1
    BY <2>1, <2>2, <2>4
  <2>11. Cardinality(below) >= edge
    BY <2>1, <2>4, <2>8, <2>9, <2>10
  <2>12. QED
    BY <2>11 DEF Before, below, edge
<1>6. QED
  BY <1>1, <1>4, <1>5

LEMMA LaunchKept ==
  ASSUME SyncAssumption, SyncInv, Launch
  PROVE  SyncInv'
<1>1. PICK entry \in Entries, flags \in FlagSets, cap \in Caps :
        Start([entry |-> entry, flags |-> flags, cap |-> cap, start |-> [p \in Sweeps |-> 1]])
  BY DEF Launch
<1> DEFINE a == [entry |-> entry, flags |-> flags, cap |-> cap, start |-> [p \in Sweeps |-> 1]]
<1>2. a \in Args /\ a.start["metadata"] = 1
  <2>1. entry \in {"production", "prices", "catalog"} /\ flags \in SUBSET Flags /\ cap \in Nat
    BY DEF SyncAssumption
  <2>2. [p \in Sweeps |-> 1] \in [Sweeps -> Nat \ {0}] /\ "metadata" \in Sweeps
    BY DEF Sweeps
  <2>3. QED
    BY <2>1, <2>2 DEF Args
<1>3. Child.at = "off" /\ runs["parent"].at = "off"
  BY CliFacts DEF Launch, Sweeps
<1> HIDE DEF a
<1>4. QED
  BY <1>1, <1>2, <1>3, StartKept DEF a

LEMMA ResumeKept ==
  ASSUME SyncAssumption, SyncInv, Resume
  PROVE  SyncInv'
<1> DEFINE flags == args.flags \cup (IF cli.stopped = "prices" THEN {"skip-metadata"} ELSE {})
           start == [p \in Sweeps |-> IF p = cli.stopped THEN cli.next ELSE 1]
           a == [entry |-> args.entry, cap |-> args.cap, flags |-> flags, start |-> start]
<1>1. Start(a) /\ cli.at = "exited" /\ cli.stopped \in Sweeps
  BY DEF Resume
<1>2. args \in Args /\ cli.next \in Nat \ {0}
  BY CliFacts
<1>3. flags \in SUBSET Flags
  BY <1>2 DEF Args, Flags
<1>4. start \in [Sweeps -> Nat \ {0}]
  BY <1>2
<1>5. start["metadata"] # 1 => cli.stopped = "metadata" /\ start["metadata"] = cli.next
  BY DEF Sweeps
<1> HIDE DEF flags, start
<1>6. a \in Args /\ a.start = start
  BY <1>2, <1>3, <1>4 DEF Args
<1>7. Child.at = "off" /\ runs["parent"].at = "off"
  BY <1>1, CliFacts DEF Sweeps
<1>8. a.start["metadata"] # 1 =>
        /\ trail.owed \subseteq funds
        /\ \A x \in trail.owed : Before(x) >= Edge(a.start["metadata"] - 1)
  BY <1>1, <1>5, <1>6 DEF SyncInv, MetadataAccounted
<1> HIDE DEF a
<1>9. QED
  BY <1>1, <1>6, <1>7, <1>8, StartKept

LEMMA Requests ==
  ASSUME SyncAssumption, SyncInv
  PROVE  /\ cli.at \in Sweeps => BatchRequest \in Request
         /\ \A discover \in BOOLEAN, offset \in Nat, limit \in Nat,
               steps \in SUBSET {"metadata", "prices", "composition", "scoring"} :
              [symbols |-> <<>>, discover |-> discover, offset |-> offset, limit |-> limit,
               steps |-> steps] \in Request
<1>1. ASSUME NEW symbols \in Seq(Symbols), NEW discover \in BOOLEAN, NEW offset \in Nat,
             NEW limit \in Nat,
             NEW steps \in SUBSET {"metadata", "prices", "composition", "scoring"}
      PROVE  [symbols |-> symbols, discover |-> discover, offset |-> offset, limit |-> limit,
              steps |-> steps] \in Request
  <2>1. steps \in SUBSET (ToSet(Steps) \cup {"scoring"})
    BY Names
  <2>2. QED
    BY <2>1 DEF Request
<1>2. <<>> \in Seq(Symbols)
  OBVIOUS
<1>3. /\ cli.list \in Seq(Symbols) /\ cli.next \in Nat \ {0} /\ cli.next - 1 \in Nat
      /\ BatchSize \in Nat \ {0} /\ ListingLimit \in Nat /\ Discovery \in BOOLEAN
  BY CliFacts DEF SyncAssumption
<1>4. (cli.next - 1) * BatchSize \in Nat
  <2>1. Edge(cli.next - 1) \in Nat
    BY <1>3, Edges
  <2>2. QED
    BY <2>1 DEF Edge
<1>5. BatchOf(cli.list, cli.next) \in Seq(Symbols)
  BY <1>3, BatchIs, 0 \in Nat
<1>6. ASSUME cli.at = "catalog"
      PROVE  BatchRequest \in Request
  <2> DEFINE steps == IF "full-pipeline" \in args.flags
                        THEN {"metadata", "prices", "scoring"} ELSE {"metadata"}
             offset == (cli.next - 1) * BatchSize
  <2>1. BatchRequest = [symbols |-> <<>>, discover |-> TRUE, offset |-> offset, limit |-> BatchSize,
                        steps |-> steps]
    BY <1>6 DEF BatchRequest
  <2>2. steps \in SUBSET {"metadata", "prices", "composition", "scoring"} /\ offset \in Nat
    BY <1>4
  <2> HIDE DEF steps, offset
  <2>3. QED
    BY <1>1, <1>2, <1>3, <2>1, <2>2
<1>7. ASSUME cli.at \in {"metadata", "prices"}
      PROVE  BatchRequest \in Request
  <2>1. BatchRequest = [symbols |-> BatchOf(cli.list, cli.next), discover |-> Discovery,
                        offset |-> 0, limit |-> ListingLimit, steps |-> {cli.at}]
    BY <1>7 DEF BatchRequest
  <2>2. {cli.at} \in SUBSET {"metadata", "prices", "composition", "scoring"}
    BY <1>7
  <2>3. QED
    BY <1>1, <1>3, <1>5, <2>1, <2>2
<1>8. QED
  BY <1>1, <1>2, <1>6, <1>7 DEF Sweeps

\* A run that begins.
LEMMA BegunIs ==
  ASSUME SyncAssumption, NEW at \in {"booting", "resolving"}, NEW request \in Request
  PROVE  LET run == RunOf(at, request, <<>>, <<>>, {}, {}, "skipped", "no") IN
         /\ run \in Run /\ StepsAsked(run) /\ run.at = at /\ run.request = request
         /\ \A due, prices : Accounted(due, run, prices)
         /\ \A r : Begin(r, at, request) => runs' = [runs EXCEPT ![r] = run]
<1> DEFINE run == RunOf(at, request, <<>>, <<>>, {}, {}, "skipped", "no")
<1>1. <<>> \in Seq(Symbols) /\ <<>> \in Seq(ToSet(Steps)) /\ DOMAIN <<>> = {}
  OBVIOUS
<1>2. run \in Run
  BY <1>1, OfRun
<1>3. run.at = at /\ run.request = request /\ run.pending = <<>>
  BY DEF RunOf
<1>4. \A r : Begin(r, at, request) => runs' = [runs EXCEPT ![r] = run]
  BY DEF Begin, RunOf
<1> HIDE DEF run
<1>5. StepsAsked(run) /\ \A due, prices : Accounted(due, run, prices)
  BY <1>1, <1>3 DEF StepsAsked, Accounted
<1>6. QED
  BY <1>2, <1>3, <1>4, <1>5 DEF run

LEMMA RunBatchKept ==
  ASSUME SyncAssumption, SyncInv, RunBatch
  PROVE  SyncInv'
<1> DEFINE new == RunOf("booting", BatchRequest, <<>>, <<>>, {}, {}, "skipped", "no")
           batch == IF cli.at = "catalog" THEN Page(BatchRequest) ELSE BatchRequest.symbols
           handed == trail.handed \cup ToSet(batch)
<1>1. /\ cli.at \in Sweeps /\ cli.next <= cli.last /\ Child.at = "off"
      /\ Begin("child", "booting", BatchRequest)
      /\ trail' = [trail EXCEPT !.handed = handed]
      /\ UNCHANGED <<funds, priced, args, cli, pipelines, scheduled>>
  BY DEF RunBatch, Running, Child
<1>2. BatchRequest \in Request
  BY <1>1, Requests
<1>3. /\ new \in Run /\ StepsAsked(new) /\ new.at = "booting" /\ new.request = BatchRequest
      /\ \A due, prices : Accounted(due, new, prices)
      /\ runs' = [runs EXCEPT !["child"] = new]
  BY <1>1, <1>2, BegunIs
<1>4. ToSet(batch) \subseteq Symbols
  <2>1. Page(BatchRequest) \in Seq(Symbols) /\ BatchRequest.symbols \in Seq(Symbols)
    BY <1>2, ResolvedAre DEF SyncInv, Request
  <2>2. batch \in Seq(Symbols)
    BY <2>1
  <2> HIDE DEF batch
  <2>3. DOMAIN batch = 1..Len(batch) /\ \A i \in 1..Len(batch) : batch[i] \in Symbols
    BY <2>2
  <2>4. QED
    BY <2>3 DEF ToSet
<1> HIDE DEF new, batch
<1>5. /\ trail.handed \subseteq Symbols /\ trail.owed \subseteq Symbols /\ trail.due \subseteq Symbols
      /\ trail.reported \subseteq Symbols
      /\ trail \in [handed : SUBSET Symbols, owed : SUBSET Symbols,
                    due : SUBSET Symbols, reported : SUBSET Symbols]
  BY DEF SyncInv, SyncTyped
<1>6. /\ trail' \in [handed : SUBSET Symbols, owed : SUBSET Symbols,
                     due : SUBSET Symbols, reported : SUBSET Symbols]
      /\ trail'.owed = trail.owed /\ trail'.due = trail.due /\ trail'.reported = trail.reported
  BY <1>1, <1>4, <1>5
<1>7. /\ args' = args /\ cli' = cli /\ funds' = funds /\ priced' = priced /\ BatchRequest' = BatchRequest
      /\ pipelines' = pipelines /\ scheduled' = scheduled
  BY <1>1 DEF BatchRequest
<1>8. /\ runs \in [Runners -> Run] /\ runs' \in [Runners -> Run]
      /\ \A q \in Runners : runs'[q] = IF q = "child" THEN new ELSE runs[q]
      /\ "child" \in Runners /\ "parent" \in Runners
  BY <1>3 DEF SyncInv, SyncTyped, Runners
<1>9. SyncTyped'
  <2>1. \A q \in Runners : runs'[q].at = "syncing" => runs'[q].todo # <<>> /\ runs'[q].pending # <<>>
    BY <1>3, <1>8 DEF SyncInv, SyncTyped
  <2>2. QED
    BY <1>6, <1>7, <1>8, <2>1 DEF SyncInv, SyncTyped
<1>10. ProcessesFit'
  <2>1. \A q \in Runners : StepsAsked(runs'[q])
    BY <1>3, <1>8 DEF SyncInv, ProcessesFit
  <2>2. (\A q \in Runners : StepsAsked(runs[q]))'
    BY <2>1 DEF StepsAsked
  <2>3. runs'["child"].request = BatchRequest'
    BY <1>3, <1>7, <1>8
  <2>4. runs'["parent"].at # "off" => cli'.at = "final"
    BY <1>7, <1>8 DEF SyncInv, ProcessesFit
  <2>5. QED
    BY <1>1, <1>7, <2>2, <2>3, <2>4 DEF ProcessesFit, Child
<1>11. SweepFits'
  BY <1>7 DEF SyncInv, SweepFits, Sorted
<1>12. Rest(cli.list, cli.next)' = Rest(cli.list, cli.next)
  BY <1>7 DEF Rest, Part
<1>13. PricesAccounted'
  <2>1. Accounted(trail.due, runs'["child"], priced)
    BY <1>3, <1>8
  <2>2. Accounted(trail.due, Child, priced)'
    BY <1>6, <1>7, <2>1 DEF Accounted, Child
  <2>3. QED
    BY <1>6, <1>7, <1>12, <2>2 DEF SyncInv, PricesAccounted
<1>14. MetadataAccounted'
  <2>1. ResumedMetadataMissesNothing'
    BY <1>6, <1>7 DEF SyncInv, MetadataAccounted, ResumedMetadataMissesNothing
  <2>2. (cli.at = "metadata" => trail.owed \subseteq Rest(cli.list, cli.next))'
    BY <1>6, <1>7, <1>12 DEF SyncInv, MetadataAccounted
  <2>3. cli'.at # "exited"
    BY <1>1, <1>7 DEF Sweeps
  <2>4. QED
    BY <2>1, <2>2, <2>3 DEF MetadataAccounted
<1>15. QED
  BY <1>9, <1>10, <1>11, <1>13, <1>14 DEF SyncInv

\* The processes of the CLI idle.
LEMMA ProcessesIdle ==
  ASSUME SyncAssumption, SyncInv, NEW gone \in SUBSET {"child", "parent"},
         \/ runs' = [runs EXCEPT !["child"] = Off] /\ gone = {"child"}
         \/ runs' = [runs EXCEPT !["parent"] = Off] /\ gone = {"parent"}
         \/ runs' = [runs EXCEPT !["child"] = Off, !["parent"] = Off] /\ gone = {"child", "parent"}
  PROVE  /\ runs' \in [Runners -> Run]
         /\ \A q \in Runners : runs'[q] = IF q \in gone THEN Off ELSE runs[q]
         /\ \A q \in Runners :
              /\ StepsAsked(runs'[q])
              /\ runs'[q].at = "syncing" => runs'[q].todo # <<>> /\ runs'[q].pending # <<>>
<1>1. runs \in [Runners -> Run] /\ "child" \in Runners /\ "parent" \in Runners
  BY DEF SyncInv, SyncTyped, Runners
<1>2. Off \in Run /\ StepsAsked(Off) /\ Off.at = "off"
  BY OffIs
<1>3. \A q \in Runners : runs'[q] = IF q \in gone THEN Off ELSE runs[q]
  BY <1>1
<1>4. runs' \in [Runners -> Run]
  BY <1>1, <1>2
<1>5. QED
  BY <1>2, <1>3, <1>4, CliFacts

LEMMA BatchCompletedKept ==
  ASSUME SyncAssumption, SyncInv, BatchCompleted
  PROVE  SyncInv'
<1> DEFINE batch == ToSet(Child.request.symbols)
           told == IF Child.cut = "thrown" THEN batch ELSE Child.failed \cup Child.empty
           owed == IF cli.at = "metadata" THEN trail.owed \ batch ELSE trail.owed
           reported == IF cli.at = "prices" THEN trail.reported \cup told ELSE trail.reported
<1>1. /\ Child.at = "ended" /\ Child.cut # "killed"
      /\ cli' = [cli EXCEPT !.next = cli.next + 1]
      /\ trail' = [handed |-> trail.handed, due |-> trail.due, owed |-> owed, reported |-> reported]
      /\ runs' = [runs EXCEPT !["child"] = Off]
      /\ UNCHANGED <<funds, priced, args, pipelines, scheduled>>
  BY DEF BatchCompleted, ChildCompleted, Running, Child
<1>2. /\ cli.at \in Sweeps /\ cli.next <= cli.last /\ Child.request = BatchRequest
      /\ Child \in Run
  BY <1>1 DEF SyncInv, SyncTyped, ProcessesFit, Child, Runners
<1>3. /\ Child.request \in Request /\ Child.failed \subseteq Symbols /\ Child.empty \subseteq Symbols
      /\ Child.cut \in {"no", "thrown", "killed"}
  BY <1>2, RunIs
<1>4. batch \subseteq Symbols
  <2>1. Child.request.symbols \in Seq(Symbols)
    BY <1>3 DEF Request
  <2> DEFINE symbols == Child.request.symbols
  <2> HIDE DEF symbols
  <2>2. DOMAIN symbols = 1..Len(symbols) /\ \A i \in 1..Len(symbols) : symbols[i] \in Symbols
    BY <2>1 DEF symbols
  <2>3. ToSet(symbols) \subseteq Symbols
    BY <2>2 DEF ToSet
  <2>4. QED
    BY <2>3 DEF symbols
<1>5. /\ told \subseteq Symbols
      /\ Child.cut = "thrown" => told = batch
      /\ Child.cut = "no" => told = Child.failed \cup Child.empty
  BY <1>3, <1>4
<1>6. /\ cli \in Cli /\ cli.list \in Seq(Symbols) /\ cli.next \in Nat \ {0} /\ cli.last \in Nat
      /\ runs["parent"].at = "off"
  BY <1>2, CliFacts DEF Sweeps
<1>7. /\ cli'.at = cli.at /\ cli'.list = cli.list /\ cli'.next = cli.next + 1 /\ cli'.last = cli.last
      /\ cli'.exit = cli.exit /\ cli'.stopped = cli.stopped /\ cli' \in Cli
  BY <1>1, <1>6 DEF Cli
<1>8. cli.at \in {"metadata", "prices"} =>
        /\ batch = ToSet(BatchOf(cli.list, cli.next))
        /\ Rest(cli.list, cli.next) \ batch \subseteq Rest(cli.list, cli.next + 1)
  <2>1. BatchSize \in Nat \ {0}
    BY DEF SyncAssumption
  <2>2. Rest(cli.list, cli.next) \ ToSet(BatchOf(cli.list, cli.next)) \subseteq Rest(cli.list, cli.next + 1)
    BY <1>6, <2>1, RestIs
  <2>3. cli.at \in {"metadata", "prices"} => BatchRequest.symbols = BatchOf(cli.list, cli.next)
    BY DEF BatchRequest
  <2>4. QED
    BY <1>2, <2>2, <2>3
<1> HIDE DEF batch, told, owed, reported
<1>9. /\ trail'.handed = trail.handed /\ trail'.due = trail.due /\ trail'.owed = owed
      /\ trail'.reported = reported
      /\ funds' = funds /\ priced' = priced /\ args' = args
      /\ pipelines' = pipelines /\ scheduled' = scheduled
  BY <1>1
<1>10. /\ runs' \in [Runners -> Run]
       /\ \A q \in Runners : runs'[q] = IF q = "child" THEN Off ELSE runs[q]
       /\ \A q \in Runners :
            /\ StepsAsked(runs'[q])
            /\ runs'[q].at = "syncing" => runs'[q].todo # <<>> /\ runs'[q].pending # <<>>
  BY <1>1, ProcessesIdle
<1>11. runs'["child"] = Off /\ runs'["parent"].at = "off" /\ Off.at = "off"
  BY <1>6, <1>10, OffIs DEF Runners
<1>12. SyncTyped'
  <2>1. owed \subseteq Symbols /\ reported \subseteq Symbols
    BY <1>5 DEF SyncInv, SyncTyped, owed, reported
  <2>2. trail.handed \subseteq Symbols /\ trail.due \subseteq Symbols
    BY DEF SyncInv, SyncTyped
  <2>3. trail' \in [handed : SUBSET Symbols, owed : SUBSET Symbols,
                    due : SUBSET Symbols, reported : SUBSET Symbols]
    BY <1>1, <2>1, <2>2
  <2>4. QED
    BY <1>7, <1>9, <1>10, <2>3 DEF SyncInv, SyncTyped
<1>13. ProcessesFit'
  <2>1. (\A q \in Runners : StepsAsked(runs[q]))'
    BY <1>10 DEF StepsAsked
  <2>2. QED
    BY <1>11, <2>1 DEF ProcessesFit, Child
<1>14. SweepFits'
  BY <1>7, <1>9 DEF SyncInv, SweepFits, Sorted, BatchCount
<1>15. (Rest(cli.list, cli.next))' = Rest(cli.list, cli.next + 1)
  BY <1>7 DEF Rest, Part, Edge
<1>16. PricesAccounted'
  <2>1. ASSUME cli.at = "prices", args.start["prices"] = 1
        PROVE  trail.due \subseteq priced \cup reported \cup Rest(cli.list, cli.next + 1)
    <3>1. /\ trail.due \subseteq priced \cup trail.reported \cup Rest(cli.list, cli.next)
          /\ Accounted(trail.due, Child, priced)
      BY <2>1 DEF SyncInv, PricesAccounted
    <3>2. Rest(cli.list, cli.next) \subseteq batch \cup Rest(cli.list, cli.next + 1)
      BY <1>8, <2>1
    <3>3. trail.due \cap batch \subseteq priced \cup told
      <4>1. CASE Child.cut = "thrown"
        BY <1>5, <4>1
      <4>2. CASE Child.cut = "no"
        BY <1>1, <1>5, <3>1, <4>2 DEF Accounted, batch
      <4>3. QED
        BY <1>1, <1>3, <4>1, <4>2
    <3>4. reported = trail.reported \cup told
      BY <2>1 DEF reported
    <3>5. QED
      BY <3>1, <3>2, <3>3, <3>4
  <2>2. Accounted(trail.due, Off, priced)
    BY OffIs
  <2>3. Accounted(trail.due, Child, priced)'
    BY <1>9, <1>11, <2>2 DEF Accounted, Child
  <2>4. (cli.at = "prices" /\ args.start["prices"] = 1 =>
           /\ trail.due \cap Foreign = {}
           /\ trail.due \subseteq priced \cup trail.reported \cup Rest(cli.list, cli.next)
           /\ Accounted(trail.due, Child, priced))'
    BY <1>7, <1>9, <1>15, <2>1, <2>3 DEF SyncInv, PricesAccounted
  <2>5. cli'.at \notin {"final"} \cup ToSet(PostProcessing) /\ cli'.at # "exited"
    BY <1>2, <1>7, Names DEF Sweeps
  <2>6. QED
    BY <2>4, <2>5 DEF PricesAccounted
<1>17. MetadataAccounted'
  <2>1. cli.at = "metadata" => owed \subseteq Rest(cli.list, cli.next + 1)
    <3>1. cli.at = "metadata" => trail.owed \subseteq Rest(cli.list, cli.next)
      BY DEF SyncInv, MetadataAccounted
    <3>2. cli.at = "metadata" => owed = trail.owed \ batch
      BY DEF owed
    <3>3. QED
      BY <1>8, <3>1, <3>2
  <2>2. (cli.at = "metadata" => trail.owed \subseteq Rest(cli.list, cli.next))'
    BY <1>7, <1>9, <1>15, <2>1
  <2>3. cli'.at # "exited"
    BY <1>2, <1>7 DEF Sweeps
  <2>4. ResumedMetadataMissesNothing'
    <3>1. cli.at # "metadata" => owed = trail.owed
      BY DEF owed
    <3>2. cli.at = "metadata" => cli'.at \notin {"prices", "final"} \cup ToSet(PostProcessing)
      BY <1>7, Names
    <3>3. ResumedMetadataMissesNothing
      BY DEF SyncInv, MetadataAccounted
    <3>4. QED
      BY <1>7, <1>9, <2>3, <3>1, <3>2, <3>3 DEF ResumedMetadataMissesNothing
  <2>5. QED
    BY <2>2, <2>3, <2>4 DEF MetadataAccounted
<1>18. QED
  BY <1>12, <1>13, <1>14, <1>16, <1>17 DEF SyncInv

\* The CLI exits, and nothing is left of its processes.
LEMMA ExitKept ==
  ASSUME SyncAssumption, SyncInv, NEW code \in {"none", "0", "1", "interrupted"},
         NEW gone \in SUBSET {"child", "parent"},
         \/ runs' = [runs EXCEPT !["child"] = Off] /\ gone = {"child"}
         \/ runs' = [runs EXCEPT !["parent"] = Off] /\ gone = {"parent"}
         \/ runs' = [runs EXCEPT !["child"] = Off, !["parent"] = Off] /\ gone = {"child", "parent"},
         "child" \in gone \/ Child.at = "off",
         "parent" \in gone \/ runs["parent"].at = "off",
         code = "0" => Settled(args),
         cli.at # "exited",
         cli' = Exit(cli, code), UNCHANGED <<funds, priced, args, trail, pipelines, scheduled>>
  PROVE  SyncInv'
<1> DEFINE c == Exit(cli, code)
<1>1. /\ c \in Cli /\ c.at = "exited" /\ c.exit = code /\ c.next = cli.next
      /\ c.stopped = IF cli.at \in Sweeps /\ cli.next <= cli.last THEN cli.at ELSE "nowhere"
  BY CliFacts, ExitIs
<1> HIDE DEF c
<1>2. c.stopped = "metadata" =>
        /\ trail.owed \subseteq funds
        /\ \A x \in trail.owed : Before(x) >= Edge(c.next - 1)
  BY <1>1, StoppedMetadata
<1>3. /\ runs' \in [Runners -> Run]
      /\ \A q \in Runners : runs'[q] = IF q \in gone THEN Off ELSE runs[q]
      /\ \A q \in Runners :
           /\ StepsAsked(runs'[q])
           /\ runs'[q].at = "syncing" => runs'[q].todo # <<>> /\ runs'[q].pending # <<>>
  BY ProcessesIdle
<1>4. runs'["child"].at = "off" /\ runs'["parent"].at = "off"
  <2>1. "child" \in Runners /\ "parent" \in Runners /\ Off.at = "off"
    BY OffIs DEF Runners
  <2>2. QED
    BY <1>3, <2>1 DEF Child
<1>5. Swept(c.at, c.exit) => Settled(args)
  BY <1>1, Names DEF Swept
<1>6. args \in Args /\ c.at \notin Sweeps /\ pipelines' \in 0..MaxPipelines
  BY <1>1, CliFacts DEF Sweeps, SyncInv, SyncTyped
<1>7. args' = args /\ cli' = c /\ UNCHANGED <<funds, priced, trail, scheduled>>
  BY DEF c
<1> DEFINE R == runs'
<1>8. QED
  BY <1>1, <1>2, <1>3, <1>4, <1>5, <1>6, <1>7, LeavesSweep

LEMMA BatchAbortedKept ==
  ASSUME SyncAssumption, SyncInv, BatchAborted
  PROVE  SyncInv'
<1>1. /\ Child.at = "ended" /\ cli' = Exit(cli, IF args.entry = "prices" THEN "0" ELSE "1")
      /\ runs' = [runs EXCEPT !["child"] = Off]
      /\ UNCHANGED <<funds, priced, args, trail, pipelines, scheduled>>
  BY DEF BatchAborted, Running, Child
<1>2. cli.at \in Sweeps
  BY <1>1 DEF SyncInv, ProcessesFit
<1>3. runs["parent"].at = "off" /\ cli.at # "exited"
  BY <1>2, CliFacts DEF Sweeps
<1>4. args.entry = "prices" => Settled(args)
  BY DEF Settled
<1> DEFINE code == IF args.entry = "prices" THEN "0" ELSE "1"
<1>5. code \in {"none", "0", "1", "interrupted"} /\ (code = "0" => Settled(args)) /\ cli' = Exit(cli, code)
  BY <1>1, <1>4
<1> HIDE DEF code
<1>6. QED
  BY <1>1, <1>3, <1>5, ExitKept

LEMMA InterruptKept ==
  ASSUME SyncAssumption, SyncInv, Interrupt
  PROVE  SyncInv'
<1>1. /\ cli.at # "exited" /\ cli' = Exit(cli, "interrupted")
      /\ runs' = [runs EXCEPT !["child"] = Off, !["parent"] = Off]
      /\ UNCHANGED <<funds, priced, args, trail, pipelines, scheduled>>
  BY DEF Interrupt
<1>2. QED
  BY <1>1, ExitKept

LEMMA SweepDoneKept ==
  ASSUME SyncAssumption, SyncInv, SweepDone
  PROVE  SyncInv'
<1>1. /\ cli.at \in Sweeps /\ cli.next > cli.last
      /\ UNCHANGED <<funds, priced, runs, pipelines, scheduled>>
  BY DEF SweepDone
<1>2. /\ args \in Args /\ cli \in Cli /\ cli.list \in Seq(Symbols) /\ cli.next \in Nat \ {0}
      /\ Child.at = "off" /\ runs["parent"].at = "off"
  BY <1>1, CliFacts DEF Sweeps
<1>3. pipelines' \in 0..MaxPipelines /\ UNCHANGED <<funds, priced, runs, scheduled>>
  BY <1>1 DEF SyncInv, SyncTyped
<1>4. /\ runs \in [Runners -> Run]
      /\ \A q \in Runners : /\ StepsAsked(runs[q])
                            /\ runs[q].at = "syncing" => runs[q].todo # <<>> /\ runs[q].pending # <<>>
  BY CliFacts
<1>5. ASSUME NEW c \in Cli, Move(args, c), c.at \notin Sweeps, c.stopped = "nowhere",
             args.entry # "production"
      PROVE  SyncInv'
  <2>1. args' = args /\ cli' = c /\ trail' = trail /\ runs' = runs
    BY <1>1, <1>5 DEF Move
  <2>2. Settled(args)
    BY <1>5 DEF Settled
  <2>3. QED
    BY <1>2, <1>3, <1>4, <1>5, <2>1, <2>2, LeavesSweep DEF Child
<1>6. /\ Exit(cli, "0") \in Cli /\ Exit(cli, "0").at \notin Sweeps /\ Exit(cli, "0").stopped = "nowhere"
  <2>1. /\ Exit(cli, "0") \in Cli /\ Exit(cli, "0").at = "exited"
        /\ Exit(cli, "0").stopped =
             IF cli.at \in Sweeps /\ cli.next <= cli.last THEN cli.at ELSE "nowhere"
    BY <1>2, ExitIs
  <2>2. ~(cli.next <= cli.last)
    <3>1. \A x, y \in Nat : x > y => ~(x <= y)
      OBVIOUS
    <3>2. cli.next \in Nat /\ cli.last \in Nat
      BY CliFacts
    <3>3. QED
      BY <1>1, <3>1, <3>2
  <2>3. QED
    BY <2>1, <2>2 DEF Sweeps
<1>7. Stage("final") \in Cli /\ Stage("final").at \notin Sweeps /\ Stage("final").stopped = "nowhere"
  BY StagesAre DEF Sweeps
<1>8. CASE args.entry = "catalog"
  <2>1. Move(args, Exit(cli, "0"))
    BY <1>8 DEF SweepDone
  <2>2. QED
    BY <1>5, <1>6, <1>8, <2>1
<1>9. CASE args.entry = "prices"
  <2>1. Move(args, IF cli.list # <<>> /\ (args.cap = NoCap \/ args.cap >= BatchCount(Len(cli.list)))
                     THEN Stage("final") ELSE Exit(cli, "0"))
    BY <1>9 DEF SweepDone
  <2>2. Move(args, Stage("final")) \/ Move(args, Exit(cli, "0"))
    BY <2>1
  <2>3. QED
    BY <1>5, <1>6, <1>7, <1>9, <2>2
<1>10. CASE args.entry = "production"
  <2>1. cli.at \in {"metadata", "prices"}
    BY <1>1, <1>10 DEF SyncInv, SweepFits, Sweeps
  <2>2. args.cap = NoCap => Rest(cli.list, cli.next) = {}
    <3>1. args.cap = NoCap => cli.next > BatchCount(Len(cli.list))
      BY <1>1, <2>1 DEF SyncInv, SweepFits
    <3>2. BatchSize \in Nat \ {0}
      BY DEF SyncAssumption
    <3>3. QED
      BY <1>2, <3>1, <3>2, RestIs
  <2>3. CASE cli.at = "metadata"
    <3>1. Move(args, AfterMetadata(args))
      BY <1>10, <2>3 DEF SweepDone
    <3>2. args.cap = NoCap => trail.owed = {}
      BY <2>2, <2>3 DEF SyncInv, MetadataAccounted
    <3>3. QED
      BY <1>2, <1>3, <3>1, <3>2, PastMetadata
  <2>4. CASE cli.at = "prices"
    <3>1. Move(args, AfterPrices(args))
      BY <1>10, <2>4 DEF SweepDone
    <3>2. Settled(args)
      <4>1. args.cap = NoCap /\ args.start["prices"] = 1 =>
              trail.due \subseteq priced \cup trail.reported
        BY <2>2, <2>4 DEF SyncInv, PricesAccounted
      <4>2. args.entry = "production" /\ args.cap = NoCap /\ "skip-metadata" \notin args.flags =>
              trail.owed = {}
        BY <2>4 DEF SyncInv, MetadataAccounted, ResumedMetadataMissesNothing
      <4>3. QED
        BY <4>1, <4>2 DEF Settled
    <3>3. QED
      BY <1>2, <1>3, <3>1, <3>2, PastPrices
  <2>5. QED
    BY <2>1, <2>3, <2>4
<1>11. QED
  BY <1>2, <1>8, <1>9, <1>10 DEF Args

LEMMA PostProcessKept ==
  ASSUME SyncAssumption, SyncInv, PostProcess
  PROVE  SyncInv'
<1>1. PICK i \in DOMAIN PostProcessing :
        /\ cli.at = PostProcessing[i]
        /\ \/ cli' = Stage(IF i = Len(PostProcessing) THEN "final" ELSE PostProcessing[i + 1])
           \/ cli' = Exit(cli, "1")
  BY DEF PostProcess
<1>2. UNCHANGED <<funds, priced, runs, args, trail, pipelines, scheduled>>
  BY DEF PostProcess
<1>3. DOMAIN PostProcessing = {1, 2, 3} /\ Len(PostProcessing) = 3
  BY DEF PostProcessing
<1>4. cli.at \in {"themes", "benchmarks", "visibility"}
  BY <1>1, <1>3 DEF PostProcessing
<1>5. (IF i = Len(PostProcessing) THEN "final" ELSE PostProcessing[i + 1])
        \in {"benchmarks", "visibility", "final"}
  BY <1>3 DEF PostProcessing
<1>6. /\ cli \in Cli /\ args \in Args /\ Child.at = "off" /\ runs["parent"].at = "off" /\ Settled(args)
      /\ runs \in [Runners -> Run]
      /\ \A q \in Runners : /\ StepsAsked(runs[q])
                            /\ runs[q].at = "syncing" => runs[q].todo # <<>> /\ runs[q].pending # <<>>
  BY <1>4, CliFacts, Names DEF Sweeps, Swept
<1>7. pipelines' \in 0..MaxPipelines /\ runs' = runs /\ args' = args
  BY <1>2 DEF SyncInv, SyncTyped
<1>8. ASSUME NEW c \in Cli, cli' = c, c.at \notin Sweeps, c.stopped = "nowhere"
      PROVE  SyncInv'
  BY <1>2, <1>6, <1>7, <1>8, LeavesSweep DEF Child
<1>9. ASSUME NEW at \in {"benchmarks", "visibility", "final"}
      PROVE  Stage(at) \in Cli /\ Stage(at).at \notin Sweeps /\ Stage(at).stopped = "nowhere"
  BY StagesAre, Names DEF Sweeps
<1>10. Exit(cli, "1") \in Cli /\ Exit(cli, "1").at \notin Sweeps /\ Exit(cli, "1").stopped = "nowhere"
  BY <1>4, <1>6, ExitIs DEF Sweeps
<1>11. QED
  BY <1>1, <1>5, <1>8, <1>9, <1>10

LEMMA FinalScoringKept ==
  ASSUME SyncAssumption, SyncInv, FinalScoring
  PROVE  SyncInv'
<1> DEFINE request == [symbols |-> <<>>, discover |-> Discovery, offset |-> 0, limit |-> ListingLimit,
                       steps |-> {"scoring"}]
           new == RunOf("resolving", request, <<>>, <<>>, {}, {}, "skipped", "no")
<1>1. /\ cli.at = "final" /\ Begin("parent", "resolving", request)
      /\ UNCHANGED <<funds, priced, args, cli, trail, pipelines, scheduled>>
  BY DEF FinalScoring
<1>2. request \in Request
  <2>1. {"scoring"} \in SUBSET {"metadata", "prices", "composition", "scoring"}
    OBVIOUS
  <2>2. Discovery \in BOOLEAN /\ 0 \in Nat /\ ListingLimit \in Nat
    BY DEF SyncAssumption
  <2>3. QED
    BY <2>1, <2>2, Requests
<1> HIDE DEF request
<1>3. /\ new \in Run /\ StepsAsked(new) /\ new.at = "resolving"
      /\ runs' = [runs EXCEPT !["parent"] = new]
  BY <1>1, <1>2, BegunIs
<1>4. /\ funds' = funds /\ priced' = priced /\ UNCHANGED <<args, cli, trail, pipelines>>
      /\ scheduled' \in 0..MaxScheduled /\ funds \in SUBSET Symbols /\ priced \in SUBSET funds
      /\ "parent" \in Runners
  BY <1>1 DEF SyncInv, SyncTyped, Runners
<1> HIDE DEF new
<1>5. QED
  BY <1>1, <1>3, <1>4, RunMoved

LEMMA FinalScoringEndsKept ==
  ASSUME SyncAssumption, SyncInv, FinalScoringEnds
  PROVE  SyncInv'
<1> DEFINE code == IF runs["parent"].cut = "no" THEN "0" ELSE "1"
<1>1. /\ runs["parent"].at = "ended" /\ cli' = Exit(cli, code)
      /\ runs' = [runs EXCEPT !["parent"] = Off]
      /\ UNCHANGED <<funds, priced, args, trail, pipelines, scheduled>>
  BY DEF FinalScoringEnds, Running
<1>2. cli.at = "final"
  BY <1>1 DEF SyncInv, ProcessesFit
<1>3. Child.at = "off" /\ Settled(args)
  BY <1>2, CliFacts DEF Sweeps, Swept
<1>4. code \in {"none", "0", "1", "interrupted"}
  OBVIOUS
<1> HIDE DEF code
<1>5. QED
  BY <1>1, <1>2, <1>3, <1>4, ExitKept

LEMMA ScheduledKept ==
  ASSUME SyncAssumption, SyncInv, RunScheduledSync \/ ScheduledSyncEnds
  PROVE  SyncInv'
<1>1. "server" \in Runners /\ funds \in SUBSET Symbols /\ priced \in SUBSET funds
  BY DEF SyncInv, SyncTyped, Runners
<1>2. CASE RunScheduledSync
  <2> DEFINE request == [symbols |-> <<>>, discover |-> Discovery, offset |-> 0, limit |-> ListingLimit,
                         steps |-> ToSet(Steps) \cup {"scoring"}]
             new == RunOf("resolving", request, <<>>, <<>>, {}, {}, "skipped", "no")
  <2>1. /\ Begin("server", "resolving", request)
        /\ scheduled < MaxScheduled /\ scheduled' = scheduled + 1
        /\ UNCHANGED <<funds, priced, args, cli, trail, pipelines>>
    BY <1>2 DEF RunScheduledSync
  <2>2. request \in Request
    <3>1. ToSet(Steps) \cup {"scoring"} \in SUBSET {"metadata", "prices", "composition", "scoring"}
      BY Names
    <3>2. Discovery \in BOOLEAN /\ 0 \in Nat /\ ListingLimit \in Nat
      BY DEF SyncAssumption
    <3>3. QED
      BY <3>1, <3>2, Requests
  <2> HIDE DEF request
  <2>3. /\ new \in Run /\ StepsAsked(new) /\ new.at = "resolving"
        /\ runs' = [runs EXCEPT !["server"] = new]
    BY <2>1, <2>2, BegunIs
  <2>4. scheduled' \in 0..MaxScheduled
    <3>1. scheduled \in 0..MaxScheduled /\ MaxScheduled \in Nat
      BY DEF SyncInv, SyncTyped, SyncAssumption
    <3>2. QED
      BY <2>1, <3>1
  <2> HIDE DEF new
  <2>5. QED
    BY <1>1, <2>1, <2>3, <2>4, RunMoved
<1>3. CASE ScheduledSyncEnds
  <2>1. /\ runs' = [runs EXCEPT !["server"] = Off] /\ UNCHANGED <<args, cli, trail, pipelines>>
        /\ scheduled' \in 0..MaxScheduled /\ funds' = funds /\ priced' = priced
    BY <1>3 DEF ScheduledSyncEnds, Outside, SyncInv, SyncTyped
  <2>2. Off \in Run /\ StepsAsked(Off) /\ Off.at = "off"
    BY OffIs
  <2>3. QED
    BY <1>1, <2>1, <2>2, RunMoved
<1>4. QED
  BY <1>2, <1>3

LEMMA SyncInvInit ==
  ASSUME SyncAssumption, SyncInit
  PROVE  SyncInv
<1>1. /\ funds = Seeds /\ priced = {} /\ runs = [r \in Runners |-> Off] /\ args = NoArgs /\ cli = NoCli
      /\ trail = [handed |-> {}, owed |-> {}, due |-> {}, reported |-> {}]
      /\ pipelines = 0 /\ scheduled = 0
  BY DEF SyncInit
<1>2. /\ NoCli \in Cli /\ NoCli.at = "idle" /\ Off \in Run /\ StepsAsked(Off) /\ Off.at = "off"
  BY StagesAre, OffIs
<1>3. NoArgs \in Args
  <2>1. [p \in Sweeps |-> 1] \in [Sweeps -> Nat \ {0}] /\ NoCap \in Nat
    BY DEF SyncAssumption
  <2>2. QED
    BY <2>1 DEF NoArgs, Args
<1>4. \A r \in Runners : runs[r] = Off
  BY <1>1
<1>5. SyncTyped
  <2>1. runs \in [Runners -> Run]
    BY <1>1, <1>2
  <2>2. funds \subseteq Symbols
    BY <1>1, TickersAre
  <2>3. pipelines \in 0..MaxPipelines /\ scheduled \in 0..MaxScheduled
    BY <1>1 DEF SyncAssumption
  <2>4. QED
    BY <1>1, <1>2, <1>3, <1>4, <2>1, <2>2, <2>3 DEF SyncTyped
<1>6. ProcessesFit
  BY <1>2, <1>4 DEF ProcessesFit, Child, Runners
<1>7. SweepFits
  BY <1>1, <1>2 DEF SweepFits
<1>8. cli.at = "idle"
  BY <1>1, <1>2
<1>9. PricesAccounted
  BY <1>8, Names DEF PricesAccounted
<1>10. MetadataAccounted
  BY <1>8, Names DEF MetadataAccounted, ResumedMetadataMissesNothing
<1>11. QED
  BY <1>5, <1>6, <1>7, <1>9, <1>10 DEF SyncInv

LEMMA SyncInvStep ==
  ASSUME SyncAssumption, SyncInv, [SyncNext]_syncVars
  PROVE  SyncInv'
<1>1. CASE Boot \/ ChildDies \/ WrapperDies
  <2>1. /\ runs["child"].at # "off" /\ UNCHANGED <<funds, priced>> /\ Outside /\ "child" \in Runners
    BY <1>1 DEF Boot, ChildDies, WrapperDies, Running, Runners
  <2>2. CASE Boot
    <3>1. runs' = [runs EXCEPT !["child"] = [runs["child"] EXCEPT !.at = "resolving"]]
      BY <2>2 DEF Boot, SyncInv, SyncTyped
    <3>2. QED
      BY <2>1, <3>1, RunEnds
  <2>3. CASE ChildDies
    <3>1. runs' = [runs EXCEPT !["child"] = [Ended(runs["child"]) EXCEPT !.cut = "thrown"]]
      BY <2>3 DEF ChildDies
    <3>2. QED
      BY <2>1, <3>1, RunEnds
  <2>4. CASE WrapperDies
    <3>1. runs' = [runs EXCEPT !["child"] = [Ended(runs["child"]) EXCEPT !.cut = "killed"]]
      BY <2>4 DEF WrapperDies
    <3>2. QED
      BY <2>1, <3>1, RunEnds
  <2>5. QED
    BY <1>1, <2>2, <2>3, <2>4
<1>2. CASE CliStep
  BY <1>2, RunBatchKept, BatchCompletedKept, BatchAbortedKept, SweepDoneKept, PostProcessKept,
     FinalScoringKept, FinalScoringEndsKept DEF CliStep
<1>3. CASE UNCHANGED syncVars
  <2>1. /\ funds' = funds /\ priced' = priced /\ runs' = runs /\ args' = args /\ cli' = cli
        /\ trail' = trail /\ pipelines' = pipelines /\ scheduled' = scheduled
    BY <1>3 DEF syncVars
  <2>2. (/\ SyncTyped /\ SweepFits)'
    BY <2>1 DEF SyncInv, SyncTyped, SweepFits, Sorted
  <2>3. ProcessesFit'
    BY <2>1 DEF SyncInv, ProcessesFit, Child, StepsAsked, BatchRequest
  <2>4. PricesAccounted'
    BY <2>1 DEF SyncInv, PricesAccounted, Accounted, Child, Rest, Part
  <2>5. MetadataAccounted'
    BY <2>1 DEF SyncInv, MetadataAccounted, ResumedMetadataMissesNothing, Rest, Part, Before
  <2>6. QED
    BY <2>2, <2>3, <2>4, <2>5 DEF SyncInv
<1>4. QED
  BY <1>1, <1>2, <1>3, LaunchKept, ResumeKept, InterruptKept, RunStepKept, ScheduledKept
     DEF SyncNext

LEMMA SyncInvAlways ==
  ASSUME SyncAssumption
  PROVE  SyncSpec => []SyncInv
<1>1. SyncInit => SyncInv
  BY SyncInvInit
<1>2. SyncInv /\ [SyncNext]_syncVars => SyncInv'
  BY SyncInvStep
<1>3. QED
  BY <1>1, <1>2, PTL DEF SyncSpec

-----------------------------------------------------------------------------
(* Each sweep is one pass over its symbols.                                *)

\* Wherever a run's step takes it, its process is there before and after.
LEMMA StepGoesOn ==
  ASSUME SyncAssumption, SyncInv, NEW r \in Runners, RunStep(r)
  PROVE  /\ Outside /\ runs[r].at # "off"
         /\ \E new : new.at # "off" /\ Nearer(new, runs[r]) /\ runs' = [runs EXCEPT ![r] = new]
<1> DEFINE q == runs[r]
<1>1. /\ q \in Run /\ StepsAsked(q) /\ q.request \in Request /\ priced \in SUBSET funds
      /\ funds \in SUBSET Symbols
      /\ q.at = "syncing" => q.todo # <<>> /\ q.pending # <<>>
  BY RunFacts
<1>2. /\ q.failed \subseteq Symbols /\ q.empty \subseteq Symbols
      /\ q.todo \in Seq(Symbols) /\ q.pending \in Seq(ToSet(Steps))
      /\ q.scoring \in {"skipped", "success", "failed"} /\ q.cut \in {"no", "thrown", "killed"}
  BY <1>1, RunIs
<1>3. CASE Resolve(r)
  <2> DEFINE symbols == ResolveManualSyncSymbols(q.request)
             new == IF Enabled(q.request) = <<>> THEN Placed(q, "scoring", <<>>, <<>>)
                    ELSE IF symbols = <<>> THEN Ended(q)
                    ELSE Placed(q, "syncing", symbols, Enabled(q.request))
  <2>1. q.at = "resolving" /\ Outside /\ runs' = [runs EXCEPT ![r] = new]
    BY <1>3 DEF Resolve, Running
  <2>2. /\ Placed(q, "scoring", <<>>, <<>>) =
             RunOf("scoring", q.request, <<>>, <<>>, q.failed, q.empty, q.scoring, q.cut)
        /\ Ended(q) = RunOf("ended", q.request, <<>>, <<>>, q.failed, q.empty, q.scoring, q.cut)
        /\ Placed(q, "syncing", symbols, Enabled(q.request)) =
             RunOf("syncing", q.request, symbols, Enabled(q.request), q.failed, q.empty, q.scoring, q.cut)
    BY <1>1, PlacedIs, EndedIs
  <2> HIDE DEF symbols
  <2>3. new.at \in {"scoring", "ended", "syncing"}
    BY <2>2 DEF RunOf
  <2>4. Nearer(new, q)
    BY <2>1, <2>3, PlacesAre DEF Nearer
  <2>5. QED
    BY <2>1, <2>3, <2>4
<1>4. CASE ResolvingFails(r)
  <2> DEFINE new == RunOf("ended", q.request, <<>>, <<>>, q.failed, q.empty, q.scoring, "thrown")
  <2>1. q.at = "resolving" /\ Outside /\ runs' = [runs EXCEPT ![r] = new]
    BY <1>1, <1>4, ChangedIs DEF ResolvingFails, Running
  <2>2. new.at = "ended"
    BY DEF RunOf
  <2>3. Nearer(new, q)
    BY <2>1, <2>2, PlacesAre DEF Nearer
  <2>4. QED
    BY <2>1, <2>2, <2>3
<1>5. ASSUME q.at = "syncing", NEW base \in Run, NEW ok \in BOOLEAN,
             base.at = q.at, base.todo = q.todo, base.pending = q.pending, base.request = q.request,
             Outside, runs' = [runs EXCEPT ![r] = Onwards(base, ok)]
      PROVE  /\ Outside /\ runs[r].at # "off"
             /\ \E new : new.at # "off" /\ Nearer(new, runs[r]) /\ runs' = [runs EXCEPT ![r] = new]
  <2>1. StepsAsked(base)
    BY <1>1, <1>5 DEF StepsAsked
  <2>2. Onwards(base, ok).at \in {"syncing", "scoring", "ended"}
    BY <1>1, <1>5, <2>1, OnwardsIs
  <2>3. Nearer(Onwards(base, ok), base)
    BY <1>1, <1>5, <2>1, OnwardsIsNearer
  <2>4. Nearer(Onwards(base, ok), q)
    BY <1>5, <2>3 DEF Nearer, Fewer
  <2>5. QED
    BY <1>5, <2>2, <2>4
<1>6. CASE SyncMetadata(r) \/ SkipForeignPrices(r) \/ SyncComposition(r) \/ StepFails(r)
  <2>1. q.at = "syncing" /\ Outside
    BY <1>6 DEF SyncMetadata, SkipForeignPrices, SyncComposition, StepFails, AtStep, Running
  <2>2. PICK ok \in BOOLEAN : runs' = [runs EXCEPT ![r] = Onwards(q, ok)]
    BY <1>6 DEF SyncMetadata, SkipForeignPrices, SyncComposition, StepFails
  <2>3. QED
    BY <1>1, <1>5, <2>1, <2>2
<1>7. CASE SyncPrices(r)
  <2> DEFINE head == Head(q.todo)
             void == [q EXCEPT !.empty = @ \cup {head}]
  <2>1. PICK found \in BOOLEAN : runs' = [runs EXCEPT ![r] = Onwards(IF found THEN q ELSE void, TRUE)]
    BY <1>7 DEF SyncPrices
  <2>2. q.at = "syncing" /\ head \in funds /\ Outside
    BY <1>7 DEF SyncPrices, AtStep, Running
  <2>3. void = RunOf(q.at, q.request, q.todo, q.pending, q.failed, q.empty \cup {head}, q.scoring, q.cut)
    BY <1>1, ChangedIs
  <2>4. q.empty \cup {head} \in SUBSET Symbols
    BY <1>1, <1>2, <2>2
  <2>5. q.at \in {"off", "booting", "resolving", "syncing", "scoring", "ended"}
    BY <2>2
  <2> HIDE DEF head, void
  <2>6. void \in Run
    BY <1>1, <1>2, <2>3, <2>4, <2>5, OfRun
  <2>7. void.at = q.at /\ void.todo = q.todo /\ void.pending = q.pending /\ void.request = q.request
    BY <2>3 DEF RunOf
  <2>8. CASE found
    BY <1>1, <1>5, <2>1, <2>2, <2>8
  <2>9. CASE ~found
    <3>1. runs' = [runs EXCEPT ![r] = Onwards(void, TRUE)]
      BY <2>1, <2>9
    <3>2. QED
      BY <1>5, <2>2, <2>6, <2>7, <3>1
  <2>10. QED
    BY <2>8, <2>9
<1>8. CASE RunAutomaticScoring(r)
  <2>1. PICK scoring : runs' = [runs EXCEPT ![r] = [Ended(q) EXCEPT !.scoring = scoring]]
    BY <1>8 DEF RunAutomaticScoring
  <2> DEFINE new == RunOf("ended", q.request, <<>>, <<>>, q.failed, q.empty, scoring, q.cut)
  <2>2. q.at = "scoring" /\ Outside /\ runs' = [runs EXCEPT ![r] = new]
    BY <1>1, <1>8, <2>1, ChangedIs DEF RunAutomaticScoring, Running
  <2>3. new.at = "ended"
    BY DEF RunOf
  <2>4. Nearer(new, q)
    BY <2>2, <2>3, PlacesAre DEF Nearer
  <2>5. QED
    BY <2>2, <2>3, <2>4
<1>9. QED
  BY <1>3, <1>4, <1>6, <1>7, <1>8 DEF RunStep

\* The first batch the sweep has still to start, of the list it cuts.
Ahead == IF Child.at = "off" THEN cli.next ELSE cli.next + 1
Source == IF cli.at = "catalog" THEN Listing ELSE cli.list

LEMMA LeftIs ==
  /\ cli.at \in Sweeps => LeftInSweep = Left(Source, Ahead, cli.last)
  /\ cli.at \notin Sweeps => LeftInSweep = {}
  /\ cli'.at \in Sweeps => LeftInSweep' = Left(Source', Ahead', cli'.last)
  /\ cli'.at \notin Sweeps => LeftInSweep' = {}
BY DEF LeftInSweep, Left, Source, Ahead, Child, Running

\* The list has no symbol twice: the funds are sorted, and so taken the
\* listing is.
LEMMA SourceIs ==
  ASSUME SyncAssumption, SyncInv, cli.at \in Sweeps
  PROVE  /\ Source \in Seq(Symbols) /\ Ahead \in Nat \ {0}
         /\ \A i, j \in DOMAIN Source : Source[i] = Source[j] => i = j
<1>1. cli.list \in Seq(Symbols) /\ cli.next \in Nat \ {0}
  BY CliFacts
<1>2. Ahead \in Nat \ {0}
  BY <1>1 DEF Ahead
<1>3. CASE cli.at = "catalog"
  BY <1>2, <1>3, TickersAre DEF Source, SyncAssumption
<1>4. CASE cli.at \in {"metadata", "prices"}
  <2>1. Source = cli.list /\ Sorted(cli.list)
    BY <1>4 DEF Source, SyncInv, SweepFits
  <2>2. DOMAIN cli.list = 1..Len(cli.list) /\ \A i \in 1..Len(cli.list) : cli.list[i] \in Nat
    BY <1>1, TickersAre
  <2>3. ASSUME NEW i \in 1..Len(cli.list), NEW j \in 1..Len(cli.list), cli.list[i] = cli.list[j]
        PROVE  i = j
    <3>1. \A x, y \in Nat : x = y => ~(x < y) /\ ~(y < x)
      OBVIOUS
    <3>2. ~(i < j) /\ ~(j < i)
      BY <2>1, <2>2, <2>3, <3>1 DEF Sorted
    <3>3. QED
      BY <1>1, <3>2
  <2>4. QED
    BY <1>1, <1>2, <2>1, <2>2, <2>3
<1>5. QED
  BY <1>3, <1>4 DEF Sweeps

LEMMA LeftIsTyped ==
  ASSUME SyncAssumption, SyncInv
  PROVE  LeftInSweep \in SUBSET Symbols
<1>1. CASE cli.at \in Sweeps
  <2>1. LeftInSweep = Left(Source, Ahead, cli.last) /\ cli.last \in Nat
    BY <1>1, LeftIs, CliFacts
  <2>2. BatchSize \in Nat \ {0} /\ Source \in Seq(Symbols) /\ Ahead \in Nat \ {0}
    BY <1>1, SourceIs DEF SyncAssumption
  <2>3. Left(Source, Ahead, cli.last) = Part(Source, Edge(Ahead - 1), Edge(cli.last))
    BY <2>1, <2>2, BatchIs
  <2>4. \A i \in 1..Len(Source) : Source[i] \in Symbols
    BY <2>2
  <2>5. QED
    BY <2>1, <2>3, <2>4 DEF Part
<1>2. CASE cli.at \notin Sweeps
  BY <1>2, LeftIs
<1>3. QED
  BY <1>1, <1>2

LEMMA LeftIsTypedNext ==
  ASSUME SyncAssumption
  PROVE  (SyncInv => LeftInSweep \in SUBSET Symbols)'
<1>1. SyncInv => LeftInSweep \in SUBSET Symbols
  BY LeftIsTyped
<1>2. QED
  BY <1>1, PTL

\* Nothing of the sweep changes while its child works.
LEMMA SweepStutters ==
  ASSUME UNCHANGED <<cli, trail>>, Child.at = "off" <=> Child'.at = "off"
  PROVE  UNCHANGED Sweep!vars
<1>1. cli' = cli /\ trail' = trail /\ Ahead' = Ahead /\ Source' = Source
  BY DEF Ahead, Source, Child
<1>2. LeftInSweep' = LeftInSweep
  BY <1>1, LeftIs DEF Left
<1>3. QED
  BY <1>1, <1>2 DEF Sweep!vars

LEMMA RunsStutter ==
  ASSUME SyncAssumption, SyncInv, NEW r \in Runners, NEW new, UNCHANGED <<cli, trail>>,
         runs[r].at # "off", new.at # "off", runs' = [runs EXCEPT ![r] = new]
  PROVE  UNCHANGED Sweep!vars
<1>1. runs \in [Runners -> Run] /\ "child" \in Runners
  BY DEF SyncInv, SyncTyped, Runners
<1>2. Child.at = "off" <=> Child'.at = "off"
  BY <1>1 DEF Child
<1>3. QED
  BY <1>2, SweepStutters

LEMMA HandOutStep ==
  ASSUME SyncAssumption, SyncInv, RunBatch
  PROVE  Sweep!HandOut \/ UNCHANGED Sweep!vars
<1> DEFINE n == cli.next
           batch == ToSet(BatchOf(Source, n))
<1>1. /\ cli.at \in Sweeps /\ cli.next <= cli.last /\ Child.at = "off"
      /\ Begin("child", "booting", BatchRequest)
      /\ trail' = [trail EXCEPT !.handed = @ \cup
           ToSet(IF cli.at = "catalog" THEN Page(BatchRequest) ELSE BatchRequest.symbols)]
      /\ cli' = cli
  BY DEF RunBatch, Running, Child
<1>2. /\ cli.next \in Nat \ {0} /\ cli.last \in Nat /\ BatchSize \in Nat \ {0}
      /\ Source \in Seq(Symbols)
      /\ \A i, j \in DOMAIN Source : Source[i] = Source[j] => i = j
  BY <1>1, CliFacts, SourceIs DEF SyncAssumption
<1>3. /\ batch \subseteq Left(Source, n, cli.last)
      /\ Left(Source, n + 1, cli.last) = Left(Source, n, cli.last) \ batch
      /\ batch = {} \/ Cardinality(batch) \in 1..BatchSize
  BY <1>1, <1>2, HandedOut
<1>4. ToSet(IF cli.at = "catalog" THEN Page(BatchRequest) ELSE BatchRequest.symbols) = batch
  <2>1. CASE cli.at = "catalog"
    <3>1. /\ BatchRequest.discover = TRUE /\ BatchRequest.offset = (n - 1) * BatchSize
          /\ BatchRequest.limit = BatchSize
      BY <2>1 DEF BatchRequest
    <3>2. (n - 1) * BatchSize + BatchSize = n * BatchSize
      <4>1. \A x \in Nat \ {0}, y \in Nat : x * y = (x - 1) * y + y
        OBVIOUS
      <4>2. QED
        BY <1>2, <4>1
    <3>3. Page(BatchRequest) = BatchOf(Source, n)
      BY <2>1, <3>1, <3>2 DEF Page, BatchOf, Source
    <3>4. QED
      BY <2>1, <3>3
  <2>2. CASE cli.at # "catalog"
    BY <2>2 DEF BatchRequest, Source
  <2>3. QED
    BY <2>1, <2>2
<1>5. Child'.at = "booting"
  <2>1. BatchRequest \in Request
    BY <1>1, Requests
  <2>2. PICK new : new.at = "booting" /\ runs' = [runs EXCEPT !["child"] = new]
    BY <1>1, <2>1, BegunIs
  <2>3. runs \in [Runners -> Run] /\ "child" \in Runners
    BY DEF SyncInv, SyncTyped, Runners
  <2>4. QED
    BY <2>2, <2>3 DEF Child
<1>6. /\ LeftInSweep = Left(Source, n, cli.last)
      /\ LeftInSweep' = Left(Source, n + 1, cli.last)
  <2>1. Ahead = n /\ Ahead' = n + 1 /\ Source' = Source /\ cli'.at \in Sweeps /\ cli'.last = cli.last
    BY <1>1, <1>5 DEF Ahead, Source
  <2>2. QED
    BY <1>1, <2>1, LeftIs DEF Left
<1> HIDE DEF n, batch
<1>7. trail'.handed = trail.handed \cup batch
  BY <1>1, <1>4 DEF SyncInv, SyncTyped
<1>8. cli'.at \in Sweeps /\ cli.at \in Sweeps
  BY <1>1
<1>9. LeftInSweep' = LeftInSweep \ batch /\ batch \in SUBSET LeftInSweep
  BY <1>3, <1>6
<1>10. CASE batch = {}
  BY <1>7, <1>8, <1>9, <1>10 DEF Sweep!vars
<1>11. CASE Cardinality(batch) \in 1..BatchSize
  <2>1. Sweep!Cardinality(batch) = Cardinality(batch)
    BY DEF Sweep!Cardinality, Cardinality
  <2>2. UNCHANGED (cli.at \in Sweeps)
    BY <1>8
  <2>3. QED
    BY <1>7, <1>8, <1>9, <1>11, <2>1, <2>2 DEF Sweep!HandOut
<1>12. QED
  BY <1>3, <1>10, <1>11

LEMMA CompletedStutters ==
  ASSUME SyncAssumption, SyncInv, BatchCompleted
  PROVE  UNCHANGED Sweep!vars
<1>1. /\ Child.at = "ended" /\ cli' = [cli EXCEPT !.next = @ + 1]
      /\ trail'.handed = trail.handed /\ runs' = [runs EXCEPT !["child"] = Off]
  BY DEF BatchCompleted, ChildCompleted, Running, Child
<1>2. cli \in Cli /\ runs \in [Runners -> Run] /\ "child" \in Runners /\ Off.at = "off"
  BY OffIs DEF SyncInv, SyncTyped, Runners
<1>3. cli'.at = cli.at /\ cli'.list = cli.list /\ cli'.last = cli.last /\ cli'.next = cli.next + 1
  BY <1>1, <1>2 DEF Cli
<1>4. Child'.at = "off"
  BY <1>1, <1>2 DEF Child
<1>5. Ahead' = Ahead /\ Source' = Source
  BY <1>1, <1>3, <1>4 DEF Ahead, Source
<1>6. LeftInSweep' = LeftInSweep
  BY <1>3, <1>5, LeftIs DEF Left
<1>7. QED
  BY <1>1, <1>3, <1>6 DEF Sweep!vars

\* The CLI goes on outside the sweeps: before a sweep, after one or in the
\* middle of one.
LEMMA Leaving ==
  ASSUME cli'.at \notin Sweeps, trail'.handed = trail.handed
  PROVE  /\ cli.at \notin Sweeps => UNCHANGED Sweep!vars
         /\ cli.at \in Sweeps => Sweep!Abort
         /\ cli.at \in Sweeps /\ LeftInSweep = {} => Sweep!Finish
<1>1. LeftInSweep' = {} /\ (cli.at \in Sweeps)' = FALSE
  BY LeftIs
<1>2. cli.at \notin Sweeps => LeftInSweep = {} /\ (cli.at \in Sweeps) = FALSE
  BY LeftIs
<1>3. cli.at \notin Sweeps => UNCHANGED Sweep!vars
  BY <1>1, <1>2 DEF Sweep!vars
<1>4. cli.at \in Sweeps => Sweep!Abort
  BY <1>1 DEF Sweep!Abort
<1>5. cli.at \in Sweeps /\ LeftInSweep = {} => Sweep!Finish
  BY <1>1 DEF Sweep!Finish
<1>6. QED
  BY <1>3, <1>4, <1>5

LEMMA MovedSweep ==
  ASSUME SyncAssumption, SyncInv, SyncInv', NEW a, NEW c, Move(a, c),
         cli.at \in Sweeps => LeftInSweep = {}
  PROVE  Sweep!Begin \/ Sweep!Finish \/ UNCHANGED Sweep!vars
<1>1. cli' = c
  BY DEF Move
<1>2. CASE c.at \in Sweeps
  <2>1. trail'.handed = {} /\ cli'.at \in Sweeps
    BY <1>1, <1>2 DEF Move
  <2>2. LeftInSweep' \in SUBSET Symbols
    BY LeftIsTypedNext
  <2>3. CASE cli.at \in Sweeps
    BY <2>1, <2>2, <2>3 DEF Sweep!Finish
  <2>4. CASE cli.at \notin Sweeps
    BY <2>1, <2>2, <2>4 DEF Sweep!Begin
  <2>5. QED
    BY <2>3, <2>4
<1>3. CASE c.at \notin Sweeps
  <2>1. trail' = trail /\ cli'.at \notin Sweeps
    BY <1>1, <1>3 DEF Move
  <2>2. QED
    BY <2>1, Leaving
<1>4. QED
  BY <1>2, <1>3

LEMMA DoneFinishes ==
  ASSUME SyncAssumption, SyncInv, SyncInv', SweepDone
  PROVE  Sweep!Begin \/ Sweep!Finish \/ UNCHANGED Sweep!vars
<1>1. cli.at \in Sweeps /\ cli.next > cli.last
  BY DEF SweepDone
<1>2. PICK c : Move(args, c)
  BY DEF SweepDone
<1>3. LeftInSweep = {}
  <2>1. /\ Child.at = "off" /\ cli.next \in Nat \ {0} /\ cli.last \in Nat /\ BatchSize \in Nat \ {0}
        /\ Source \in Seq(Symbols)
    BY <1>1, CliFacts, SourceIs DEF SyncAssumption
  <2>2. LeftInSweep = Part(Source, Edge(cli.next - 1), Edge(cli.last))
    BY <1>1, <2>1, LeftIs, BatchIs DEF Ahead
  <2>3. cli.next - 1 \in Nat /\ cli.last <= cli.next - 1
    BY <1>1, <2>1
  <2>4. Edge(cli.last) \in Nat /\ Edge(cli.next - 1) \in Nat /\ Edge(cli.last) <= Edge(cli.next - 1)
    BY <2>1, <2>3, Edges
  <2>5. \A x, y \in Nat : x <= y => \A k \in Nat : ~(y < k /\ k <= x)
    OBVIOUS
  <2>6. \A k \in 1..Len(Source) : ~(Edge(cli.next - 1) < k /\ k <= Edge(cli.last))
    BY <2>4, <2>5
  <2>7. QED
    BY <2>2, <2>6 DEF Part
<1>4. QED
  BY <1>2, <1>3, MovedSweep

LEMMA SweepStep ==
  ASSUME SyncAssumption, SyncInv, SyncInv', [SyncNext]_syncVars
  PROVE  [Sweep!Next]_(Sweep!vars)
<1>1. CASE Launch \/ Resume
  <2>1. PICK a : Move(a, Started(a))
    BY <1>1 DEF Launch, Resume, Start
  <2>2. cli.at \notin Sweeps
    BY <1>1 DEF Launch, Resume, Sweeps
  <2>3. QED
    BY <2>1, <2>2, MovedSweep DEF Sweep!Next
<1>2. CASE Interrupt \/ BatchAborted
  <2>1. trail'.handed = trail.handed /\ \E code : cli' = Exit(cli, code)
    BY <1>2 DEF Interrupt, BatchAborted
  <2>2. cli'.at \notin Sweeps
    BY <2>1 DEF Exit, Sweeps
  <2>3. QED
    BY <2>1, <2>2, Leaving DEF Sweep!Next
<1>3. CASE PostProcess \/ FinalScoringEnds
  <2>1. trail'.handed = trail.handed
    BY <1>3 DEF PostProcess, FinalScoringEnds
  <2>2. cli.at \notin Sweeps
    <3>1. CASE PostProcess
      <4>1. DOMAIN PostProcessing = {1, 2, 3}
        BY DEF PostProcessing
      <4>2. cli.at \in {"themes", "benchmarks", "visibility"}
        BY <3>1, <4>1 DEF PostProcess, PostProcessing
      <4>3. QED
        BY <4>2 DEF Sweeps
    <3>2. CASE FinalScoringEnds
      <4>1. cli.at = "final"
        BY <3>2 DEF FinalScoringEnds, Running, SyncInv, ProcessesFit
      <4>2. QED
        BY <4>1 DEF Sweeps
    <3>3. QED
      BY <1>3, <3>1, <3>2
  <2>3. cli'.at \notin Sweeps
    <3>1. CASE PostProcess
      <4>1. DOMAIN PostProcessing = {1, 2, 3} /\ Len(PostProcessing) = 3
        BY DEF PostProcessing
      <4>2. \/ \E at \in {"benchmarks", "visibility", "final"} : cli' = Stage(at)
            \/ cli' = Exit(cli, "1")
        BY <3>1, <4>1 DEF PostProcess, PostProcessing
      <4>3. QED
        BY <4>2 DEF Stage, NoCli, Exit, Sweeps
    <3>2. CASE FinalScoringEnds
      BY <3>2 DEF FinalScoringEnds, Exit, Sweeps
    <3>3. QED
      BY <1>3, <3>1, <3>2
  <2>4. QED
    BY <2>1, <2>2, <2>3, Leaving
<1>4. CASE RunBatch
  BY <1>4, HandOutStep DEF Sweep!Next
<1>5. CASE BatchCompleted
  BY <1>5, CompletedStutters
<1>6. CASE SweepDone
  BY <1>6, DoneFinishes DEF Sweep!Next
<1>7. CASE Boot \/ ChildDies \/ WrapperDies
  <2> DEFINE q == runs["child"]
  <2>1. UNCHANGED <<cli, trail>> /\ q.at # "off" /\ q \in Run /\ "child" \in Runners
    BY <1>7 DEF Boot, ChildDies, WrapperDies, Running, Outside, SyncInv, SyncTyped, Runners
  <2>2. \/ runs' = [runs EXCEPT !["child"] = [q EXCEPT !.at = "resolving"]]
        \/ \E cut \in {"thrown", "killed"} :
             runs' = [runs EXCEPT !["child"] = [Ended(q) EXCEPT !.cut = cut]]
    BY <1>7 DEF Boot, ChildDies, WrapperDies, SyncInv, SyncTyped
  <2>3. /\ [q EXCEPT !.at = "resolving"].at = "resolving"
        /\ \A cut \in {"thrown", "killed"} : [Ended(q) EXCEPT !.cut = cut].at = "ended"
    BY <2>1, ChangedIs DEF RunOf
  <2>4. PICK new : new.at # "off" /\ runs' = [runs EXCEPT !["child"] = new]
    BY <2>2, <2>3
  <2>5. QED
    BY <2>1, <2>4, RunsStutter
<1>8. ASSUME NEW r \in Runners, RunStep(r)
      PROVE  UNCHANGED Sweep!vars
  <2>1. /\ Outside /\ runs[r].at # "off"
        /\ \E new : new.at # "off" /\ runs' = [runs EXCEPT ![r] = new]
    BY <1>8, StepGoesOn DEF Nearer
  <2>2. UNCHANGED <<cli, trail>>
    BY <2>1 DEF Outside
  <2>3. QED
    BY <2>1, <2>2, RunsStutter
<1>9. CASE FinalScoring \/ RunScheduledSync \/ ScheduledSyncEnds
  <2>1. UNCHANGED <<cli, trail>>
    BY <1>9 DEF FinalScoring, RunScheduledSync, ScheduledSyncEnds, Outside
  <2>2. \E r \in {"parent", "server"} : \E new : runs' = [runs EXCEPT ![r] = new]
    BY <1>9 DEF FinalScoring, RunScheduledSync, ScheduledSyncEnds, Begin
  <2>3. Child' = Child
    BY <2>2 DEF Child, SyncInv, SyncTyped, Runners
  <2>4. QED
    BY <2>1, <2>3, SweepStutters
<1>10. CASE UNCHANGED syncVars
  <2>1. UNCHANGED <<cli, trail>> /\ Child' = Child
    BY <1>10 DEF syncVars, Child
  <2>2. QED
    BY <2>1, SweepStutters
<1>11. QED
  BY <1>1, <1>2, <1>3, <1>4, <1>5, <1>6, <1>7, <1>8, <1>9, <1>10 DEF SyncNext, CliStep

-----------------------------------------------------------------------------
(* Each step advances.                                                     *)

LEMMA SmallerIs ==
  ASSUME NEW a1 \in Nat, NEW a2 \in Nat, NEW a3 \in Nat, NEW a4 \in Nat, NEW a5 \in Nat,
         NEW b1 \in Nat, NEW b2 \in Nat, NEW b3 \in Nat, NEW b4 \in Nat, NEW b5 \in Nat,
         \/ a1 < b1
         \/ a1 = b1 /\ a2 < b2
         \/ a1 = b1 /\ a2 = b2 /\ a3 < b3
         \/ a1 = b1 /\ a2 = b2 /\ a3 = b3 /\ a4 < b4
         \/ a1 = b1 /\ a2 = b2 /\ a3 = b3 /\ a4 = b4 /\ a5 < b5
  PROVE  Smaller(<<a1, a2, a3, a4, a5>>, <<b1, b2, b3, b4, b5>>)
<1> DEFINE a == <<a1, a2, a3, a4, a5>>
           b == <<b1, b2, b3, b4, b5>>
<1>1. /\ a[1] = a1 /\ a[2] = a2 /\ a[3] = a3 /\ a[4] = a4 /\ a[5] = a5
      /\ b[1] = b1 /\ b[2] = b2 /\ b[3] = b3 /\ b[4] = b4 /\ b[5] = b5
  OBVIOUS
<1> HIDE DEF a, b
<1>2. ASSUME NEW k \in 1..5, a[k] < b[k],
             \A i \in {1, 2, 3, 4} : i < k => a[i] = b[i]
      PROVE  Smaller(a, b)
  <2>1. \A i \in 1..(k - 1) : i \in {1, 2, 3, 4} /\ i < k
    OBVIOUS
  <2>2. QED
    BY <1>2, <2>1 DEF Smaller
<1>3. 1 \in 1..5 /\ 2 \in 1..5 /\ 3 \in 1..5 /\ 4 \in 1..5 /\ 5 \in 1..5
  OBVIOUS
<1>4. CASE a1 < b1
  <2>1. a[1] < b[1] /\ \A i \in {1, 2, 3, 4} : i < 1 => a[i] = b[i]
    BY <1>1, <1>4
  <2>2. QED
    BY <1>2, <1>3, <2>1, Zenon DEF a, b
<1>5. CASE a1 = b1 /\ a2 < b2
  <2>1. a[2] < b[2] /\ \A i \in {1, 2, 3, 4} : i < 2 => a[i] = b[i]
    BY <1>1, <1>5
  <2>2. QED
    BY <1>2, <1>3, <2>1, Zenon DEF a, b
<1>6. CASE a1 = b1 /\ a2 = b2 /\ a3 < b3
  <2>1. a[3] < b[3] /\ \A i \in {1, 2, 3, 4} : i < 3 => a[i] = b[i]
    BY <1>1, <1>6
  <2>2. QED
    BY <1>2, <1>3, <2>1, Zenon DEF a, b
<1>7. CASE a1 = b1 /\ a2 = b2 /\ a3 = b3 /\ a4 < b4
  <2>1. a[4] < b[4] /\ \A i \in {1, 2, 3, 4} : i < 4 => a[i] = b[i]
    BY <1>1, <1>7
  <2>2. QED
    BY <1>2, <1>3, <2>1, Zenon DEF a, b
<1>8. CASE a1 = b1 /\ a2 = b2 /\ a3 = b3 /\ a4 = b4 /\ a5 < b5
  <2>1. a[5] < b[5] /\ \A i \in {1, 2, 3, 4} : i < 5 => a[i] = b[i]
    BY <1>1, <1>8
  <2>2. QED
    BY <1>2, <1>3, <2>1, Zenon DEF a, b
<1>9. QED
  BY <1>4, <1>5, <1>6, <1>7, <1>8 DEF a, b

LEMMA StagesLeftAre ==
  /\ StagesLeft("metadata") = 6 /\ StagesLeft("prices") = 5 /\ StagesLeft("catalog") = 5
  /\ StagesLeft("themes") = 4 /\ StagesLeft("benchmarks") = 3 /\ StagesLeft("visibility") = 2
  /\ StagesLeft("final") = 1 /\ StagesLeft("exited") = 0 /\ StagesLeft("idle") = 0
BY DEF StagesLeft

LEMMA StagesLeftIs ==
  ASSUME NEW at
  PROVE  StagesLeft(at) \in Nat /\ PlacesLeft(at) \in Nat
BY DEF StagesLeft, PlacesLeft

\* What is left is counted, before a step and after it.
Counted ==
  /\ StagesLeft(cli.at) \in Nat /\ BatchesLeft \in Nat /\ PlacesLeft(Process.at) \in Nat
  /\ Len(Process.todo) \in Nat /\ Len(Process.pending) \in Nat

LEMMA WorkIs == SyncInv => Counted
<1> SUFFICES ASSUME SyncInv PROVE Counted
  OBVIOUS
<1>1. cli.next \in Nat \ {0} /\ cli.last \in Nat /\ Process \in Run
  BY CliFacts DEF Process, Child, Runners
<1>2. Process.todo \in Seq(Symbols) /\ Process.pending \in Seq(ToSet(Steps))
  BY <1>1, RunIs
<1>3. Len(Process.todo) \in Nat /\ Len(Process.pending) \in Nat
  BY <1>2, LenProperties
<1>4. BatchesLeft \in Nat
  BY <1>1 DEF BatchesLeft
<1>5. QED
  BY <1>3, <1>4, StagesLeftIs DEF Counted

LEMMA WorkIsNext == (SyncInv => Counted)'
BY WorkIs, PTL

LEMMA CliAt ==
  ASSUME SyncInv
  PROVE  cli.at \in {"idle", "final", "exited", "metadata", "prices", "catalog", "themes",
                     "benchmarks", "visibility"}
<1>1. cli.at \in {"idle", "final", "exited"} \cup Sweeps \cup ToSet(PostProcessing)
  BY CliFacts DEF Cli
<1>2. ToSet(PostProcessing) = {"themes", "benchmarks", "visibility"}
  BY Names
<1>3. QED
  BY <1>1, <1>2 DEF Sweeps

\* The process at work goes on.
LEMMA ProcessNearer ==
  ASSUME SyncInv, SyncInv', cli' = cli, Nearer(Process', Process)
  PROVE  Smaller(WorkLeft', WorkLeft)
<1>1. /\ StagesLeft(cli.at) \in Nat /\ BatchesLeft \in Nat /\ PlacesLeft(Process.at) \in Nat
      /\ Len(Process.todo) \in Nat /\ Len(Process.pending) \in Nat
      /\ (StagesLeft(cli.at) \in Nat)' /\ (BatchesLeft \in Nat)' /\ (PlacesLeft(Process.at) \in Nat)'
      /\ (Len(Process.todo) \in Nat)' /\ (Len(Process.pending) \in Nat)'
  BY WorkIs, WorkIsNext DEF Counted
<1>2. StagesLeft(cli.at)' = StagesLeft(cli.at) /\ BatchesLeft' = BatchesLeft
  BY DEF BatchesLeft
<1>3. \/ PlacesLeft(Process.at)' < PlacesLeft(Process.at)
      \/ PlacesLeft(Process.at)' = PlacesLeft(Process.at) /\ Len(Process.todo)' < Len(Process.todo)
      \/ /\ PlacesLeft(Process.at)' = PlacesLeft(Process.at) /\ Len(Process.todo)' = Len(Process.todo)
         /\ Len(Process.pending)' < Len(Process.pending)
  BY DEF Nearer, Fewer
<1>4. QED
  BY <1>1, <1>2, <1>3, SmallerIs DEF WorkLeft

\* A stage is over, or a batch.
LEMMA CliNearer ==
  ASSUME SyncInv, SyncInv',
         \/ StagesLeft(cli'.at) < StagesLeft(cli.at)
         \/ cli'.at = cli.at /\ BatchesLeft' < BatchesLeft
  PROVE  Smaller(WorkLeft', WorkLeft)
<1>1. /\ StagesLeft(cli.at) \in Nat /\ BatchesLeft \in Nat /\ PlacesLeft(Process.at) \in Nat
      /\ Len(Process.todo) \in Nat /\ Len(Process.pending) \in Nat
      /\ (StagesLeft(cli.at) \in Nat)' /\ (BatchesLeft \in Nat)' /\ (PlacesLeft(Process.at) \in Nat)'
      /\ (Len(Process.todo) \in Nat)' /\ (Len(Process.pending) \in Nat)'
  BY WorkIs, WorkIsNext DEF Counted
<1>2. \/ StagesLeft(cli.at)' < StagesLeft(cli.at)
      \/ StagesLeft(cli.at)' = StagesLeft(cli.at) /\ BatchesLeft' < BatchesLeft
  OBVIOUS
<1>3. QED
  BY <1>1, <1>2, SmallerIs DEF WorkLeft

LEMMA ExitIsNearer ==
  ASSUME SyncInv, SyncInv', cli.at \notin {"idle", "exited"}, cli'.at = "exited"
  PROVE  Smaller(WorkLeft', WorkLeft)
<1>1. cli.at \in {"metadata", "prices", "catalog", "themes", "benchmarks", "visibility", "final"}
  BY CliAt
<1>2. StagesLeft(cli'.at) < StagesLeft(cli.at)
  BY <1>1, StagesLeftAre
<1>3. QED
  BY <1>2, CliNearer

LEMMA SweepDoneAdvances ==
  ASSUME SyncInv, SyncInv', SweepDone
  PROVE  Smaller(WorkLeft', WorkLeft)
<1> DEFINE final == cli.list # <<>> /\ (args.cap = NoCap \/ args.cap >= BatchCount(Len(cli.list)))
           next == CASE args.entry = "catalog" -> Exit(cli, "0")
                     [] args.entry = "prices" -> IF final THEN Stage("final") ELSE Exit(cli, "0")
                     [] args.entry = "production" ->
                          IF cli.at = "metadata" THEN AfterMetadata(args) ELSE AfterPrices(args)
<1>1. cli.at \in Sweeps /\ cli' = next
  BY DEF SweepDone, Move
<1>2. args.entry \in {"production", "prices", "catalog"}
  BY CliFacts DEF Args
<1> HIDE DEF final
<1>3. /\ \A c, code : Exit(c, code).at = "exited"
      /\ Stage("final").at = "final"
      /\ AfterPrices(args).at \in {"exited", "themes"}
      /\ AfterMetadata(args).at \in {"exited", "themes", "prices"}
  BY DEF Exit, Stage, NoCli, AfterPrices, AfterMetadata, Enter, PostProcessing
<1>4. \/ cli'.at \in {"exited", "final", "themes"}
      \/ cli'.at = "prices" /\ cli.at = "metadata"
  BY <1>1, <1>2, <1>3
<1>5. cli.at \in {"metadata", "prices", "catalog"}
  BY <1>1 DEF Sweeps
<1>6. StagesLeft(cli'.at) < StagesLeft(cli.at)
  BY <1>4, <1>5, StagesLeftAre
<1>7. QED
  BY <1>6, CliNearer

LEMMA PostProcessAdvances ==
  ASSUME SyncInv, SyncInv', PostProcess
  PROVE  Smaller(WorkLeft', WorkLeft)
<1>1. PICK i \in {1, 2, 3} :
        /\ cli.at = PostProcessing[i]
        /\ \/ cli' = Stage(IF i = 3 THEN "final" ELSE PostProcessing[i + 1])
           \/ cli' = Exit(cli, "1")
  BY DEF PostProcess, PostProcessing
<1>2. /\ Exit(cli, "1").at = "exited" /\ \A at : Stage(at).at = at
      /\ PostProcessing[1] = "themes" /\ PostProcessing[2] = "benchmarks"
      /\ PostProcessing[3] = "visibility"
  BY DEF Exit, Stage, NoCli, PostProcessing
<1>3. \/ cli'.at = "exited" /\ cli.at \in {"themes", "benchmarks", "visibility"}
      \/ cli.at = "themes" /\ cli'.at = "benchmarks"
      \/ cli.at = "benchmarks" /\ cli'.at = "visibility"
      \/ cli.at = "visibility" /\ cli'.at = "final"
  <2>1. CASE i = 1
    BY <1>1, <1>2, <2>1
  <2>2. CASE i = 2
    BY <1>1, <1>2, <2>2
  <2>3. CASE i = 3
    BY <1>1, <1>2, <2>3
  <2>4. QED
    BY <2>1, <2>2, <2>3
<1>4. StagesLeft(cli'.at) < StagesLeft(cli.at)
  BY <1>3, StagesLeftAre
<1>5. QED
  BY <1>4, CliNearer

LEMMA BatchCompletedAdvances ==
  ASSUME SyncInv, SyncInv', BatchCompleted
  PROVE  Smaller(WorkLeft', WorkLeft)
<1>1. cli.next \in Nat \ {0} /\ cli.last \in Nat /\ cli \in Cli
  BY CliFacts
<1>2. Child.at = "ended"
  BY DEF BatchCompleted, ChildCompleted, Running, Child
<1>3. cli.next <= cli.last
  BY <1>2 DEF SyncInv, ProcessesFit
<1>4. cli'.at = cli.at /\ cli'.next = cli.next + 1 /\ cli'.last = cli.last
  BY <1>1 DEF BatchCompleted, Cli
<1>5. BatchesLeft' < BatchesLeft
  BY <1>1, <1>3, <1>4 DEF BatchesLeft
<1>6. QED
  BY <1>4, <1>5, CliNearer

\* A process is started: RunBatch the child, FinalScoring the parent's run.
LEMMA StartedAdvances ==
  ASSUME SyncInv, SyncInv', RunBatch \/ FinalScoring
  PROVE  Smaller(WorkLeft', WorkLeft)
<1>1. runs \in [Runners -> Run] /\ "child" \in Runners /\ "parent" \in Runners
  BY DEF SyncInv, SyncTyped, Runners
<1>2. Process.at = "off" /\ cli' = cli /\ Process'.at \in {"booting", "resolving"}
  <2>1. CASE RunBatch
    <3>1. cli.at # "final" /\ cli' = cli
      BY <2>1 DEF RunBatch, Sweeps
    <3>2. Child.at = "off" /\ Child'.at = "booting"
      BY <1>1, <2>1 DEF RunBatch, Running, Begin, Child
    <3>3. QED
      BY <3>1, <3>2 DEF Process
  <2>2. CASE FinalScoring
    BY <1>1, <2>2 DEF FinalScoring, Running, Begin, Process
  <2>3. QED
    BY <2>1, <2>2
<1>3. Nearer(Process', Process)
  BY <1>2, PlacesAre DEF Nearer
<1>4. QED
  BY <1>2, <1>3, ProcessNearer

\* A step of the process at work, or its end.
LEMMA RunAdvances ==
  ASSUME SyncInv, SyncInv', NEW r \in {"child", "parent"}, cli' = cli, runs[r].at # "off",
         NEW new, Nearer(new, runs[r]), runs' = [runs EXCEPT ![r] = new]
  PROVE  Smaller(WorkLeft', WorkLeft)
<1>1. runs \in [Runners -> Run] /\ r \in Runners
  BY DEF SyncInv, SyncTyped, Runners
<1>2. IF r = "child" THEN cli.at \in Sweeps ELSE cli.at = "final"
  BY DEF SyncInv, ProcessesFit, Child
<1>3. Process = runs[r] /\ Process' = new
  <2>1. runs'[r] = new
    BY <1>1
  <2>2. QED
    BY <1>2, <2>1 DEF Process, Child, Sweeps
<1>4. QED
  BY <1>3, ProcessNearer

LEMMA ChildAdvances ==
  ASSUME SyncInv, SyncInv', Boot \/ ChildDies \/ WrapperDies
  PROVE  Smaller(WorkLeft', WorkLeft)
<1> DEFINE q == runs["child"]
<1>1. /\ cli' = cli /\ q.at # "off" /\ q.at # "ended" /\ q \in Run
      /\ q.at \in {"booting", "resolving", "syncing", "scoring"}
  BY DEF Boot, ChildDies, WrapperDies, Running, Outside, SyncInv, SyncTyped, Runners, Run
<1>2. \/ q.at = "booting" /\ runs' = [runs EXCEPT !["child"] = [q EXCEPT !.at = "resolving"]]
      \/ \E cut \in {"thrown", "killed"} :
           runs' = [runs EXCEPT !["child"] = [Ended(q) EXCEPT !.cut = cut]]
  BY DEF Boot, ChildDies, WrapperDies, Running, SyncInv, SyncTyped
<1>3. /\ [q EXCEPT !.at = "resolving"].at = "resolving"
      /\ \A cut \in {"thrown", "killed"} : [Ended(q) EXCEPT !.cut = cut].at = "ended"
  BY <1>1, ChangedIs DEF RunOf
<1>4. PICK new : Nearer(new, q) /\ runs' = [runs EXCEPT !["child"] = new]
  <2>1. CASE q.at = "booting" /\ runs' = [runs EXCEPT !["child"] = [q EXCEPT !.at = "resolving"]]
    <3>1. Nearer([q EXCEPT !.at = "resolving"], q)
      BY <1>3, <2>1, PlacesAre DEF Nearer
    <3>2. QED
      BY <2>1, <3>1
  <2>2. ASSUME NEW cut \in {"thrown", "killed"},
               runs' = [runs EXCEPT !["child"] = [Ended(q) EXCEPT !.cut = cut]]
        PROVE  \E new : Nearer(new, q) /\ runs' = [runs EXCEPT !["child"] = new]
    <3>1. Nearer([Ended(q) EXCEPT !.cut = cut], q)
      BY <1>1, <1>3, PlacesAre DEF Nearer
    <3>2. QED
      BY <2>2, <3>1
  <2>3. QED
    BY <1>2, <2>1, <2>2
<1>5. QED
  BY <1>1, <1>4, RunAdvances

LEMMA AdvancesStep ==
  ASSUME SyncAssumption, SyncInv, SyncInv', [SyncNext]_syncVars,
         cli.at \notin {"idle", "exited"}, ~UNCHANGED <<cli, Child, runs["parent"]>>
  PROVE  Smaller(WorkLeft', WorkLeft)
<1>1. runs \in [Runners -> Run] /\ Runners = {"child", "parent", "server"}
  BY DEF SyncInv, SyncTyped, Runners
<1>2. CASE Launch \/ Resume
  BY <1>2 DEF Launch, Resume
<1>3. CASE Interrupt \/ BatchAborted \/ FinalScoringEnds
  <2>1. \E code : cli' = Exit(cli, code)
    BY <1>3 DEF Interrupt, BatchAborted, FinalScoringEnds
  <2>2. cli'.at = "exited"
    BY <2>1 DEF Exit
  <2>3. QED
    BY <2>2, ExitIsNearer
<1>4. CASE RunBatch \/ FinalScoring
  BY <1>4, StartedAdvances
<1>5. CASE BatchCompleted
  BY <1>5, BatchCompletedAdvances
<1>6. CASE SweepDone
  BY <1>6, SweepDoneAdvances
<1>7. CASE PostProcess
  BY <1>7, PostProcessAdvances
<1>8. CASE Boot \/ ChildDies \/ WrapperDies
  BY <1>8, ChildAdvances
<1>9. ASSUME NEW r \in Runners, RunStep(r)
      PROVE  Smaller(WorkLeft', WorkLeft)
  <2>1. PICK new : Outside /\ runs[r].at # "off" /\ Nearer(new, runs[r]) /\ runs' = [runs EXCEPT ![r] = new]
    BY <1>9, StepGoesOn
  <2>2. cli' = cli
    BY <2>1 DEF Outside
  <2>3. r # "server"
    BY <1>1, <2>1, <2>2 DEF Child
  <2>4. r \in {"child", "parent"}
    BY <1>1, <2>3
  <2>5. QED
    BY <2>1, <2>2, <2>4, RunAdvances
<1>10. CASE RunScheduledSync \/ ScheduledSyncEnds
  <2>1. cli' = cli /\ \E new : runs' = [runs EXCEPT !["server"] = new]
    BY <1>10 DEF RunScheduledSync, ScheduledSyncEnds, Outside, Begin
  <2>2. QED
    BY <1>1, <2>1 DEF Child
<1>11. CASE UNCHANGED syncVars
  BY <1>11 DEF syncVars, Child
<1>12. QED
  BY <1>2, <1>3, <1>4, <1>5, <1>6, <1>7, <1>8, <1>9, <1>10, <1>11 DEF SyncNext, CliStep

-----------------------------------------------------------------------------
(* Theorems.                                                               *)

\* Every variable of the synchronisation keeps its type, and a run that is
\* syncing has a symbol and a step before it, whatever dies or is resumed.
THEOREM SyncTypeSafe ==
  ASSUME SyncAssumption
  PROVE  SyncSpec => []SyncTyped
<1>1. SyncInv => SyncTyped
  BY DEF SyncInv
<1>2. QED
  BY <1>1, SyncInvAlways, PTL

\* A whole production pipeline that exits 0 (runProductionSync) has accounted
\* for every US fund that had no prices when it came to them.
THEOREM ExitZeroAccounts ==
  ASSUME SyncAssumption
  PROVE  SyncSpec => []ExitZeroAccountsForPrices
<1>1. SyncInv => ExitZeroAccountsForPrices
  BY DEF SyncInv, PricesAccounted, ExitZeroAccountsForPrices, PricesSwept
<1>2. QED
  BY <1>1, SyncInvAlways, PTL

\* Metadata resumed at the batch that stopped, from a list of funds read
\* afresh, misses none of the funds that were listed and not completed.
THEOREM ResumeMissesNothing ==
  ASSUME SyncAssumption
  PROVE  SyncSpec => []ResumedMetadataMissesNothing
<1>1. SyncInv => ResumedMetadataMissesNothing
  BY DEF SyncInv, MetadataAccounted
<1>2. QED
  BY <1>1, SyncInvAlways, PTL

\* The batches a CLI cuts and starts (runBatchedFundSyncPhase, chunkFundSymbols,
\* runDiscoverCatalogSync) are one pass over the symbols of its sweep.
THEOREM SweepsImplemented ==
  ASSUME SyncAssumption
  PROVE  SyncSpec => EachSweepIsOnePass
<1>1. SyncInit => Sweep!Init
  <2> SUFFICES ASSUME SyncInit PROVE Sweep!Init
    OBVIOUS
  <2>1. cli.at \notin Sweeps /\ trail.handed = {}
    BY DEF SyncInit, NoCli, Sweeps
  <2>2. QED
    BY <2>1, LeftIs DEF Sweep!Init
<1>2. SyncInv /\ SyncInv' /\ [SyncNext]_syncVars => [Sweep!Next]_(Sweep!vars)
  BY SweepStep
<1>3. QED
  BY <1>1, <1>2, SyncInvAlways, PTL DEF SyncSpec, EachSweepIsOnePass, Sweep!Spec

\* No pipeline goes round in circles, however its children fail: every step of a
\* pipeline or of its processes (runBatchedFundSyncPhase, syncSymbolsWithSteps)
\* takes from what it has before it, which is counted in natural numbers and which
\* no scheduled run adds to, until it exits.
THEOREM PipelinesAdvance ==
  ASSUME SyncAssumption
  PROVE  SyncSpec => []Counted /\ EachStepAdvances
<1>1. SyncInv /\ SyncInv' /\ [SyncNext]_syncVars =>
        [ \/ cli.at \notin {"idle", "exited"} /\ UNCHANGED <<cli, Child, runs["parent"]>>
          \/ cli.at \in {"idle", "exited"} \/ Smaller(WorkLeft', WorkLeft) ]_syncVars
  BY AdvancesStep
<1>2. QED
  BY <1>1, SyncInvAlways, WorkIs, PTL DEF SyncSpec, EachStepAdvances

-----------------------------------------------------------------------------
(* The composition.                                                        *)

ListNames == {"holdings", "allocations"}
Late == {"insertAllocations", "commit"}
Of(n, d) == n \in DOMAIN written /\ written[n].date = d

\* Ranks have no gaps below them.
WrittenFit ==
  \A n \in DOMAIN written : written[n].keys \cap Ranks # {} => 1 \in written[n].keys

OneImport(d) == rows[d] = {} \/ \E n \in DOMAIN written : Of(n, d) /\ rows[d] = RowsOf(n)

\* What a transaction is and what it has added.
Known(i) ==
  txs[i].at # "idle" =>
    /\ txs[i].id \in DOMAIN written /\ txs[i].date \in Dates
    /\ written[txs[i].id].date = txs[i].date /\ written[txs[i].id].keys = txs[i].keys
Added(i) ==
  /\ txs[i].at \notin Late => txs[i].added = {}
  /\ txs[i].at = "insertAllocations" => txs[i].added = Holdings(RowsOf(txs[i].id))
  /\ txs[i].at = "commit" => txs[i].added = RowsOf(txs[i].id)
\* The rows it has deleted are there, for the others.
GoneIsThere(i) ==
  /\ txs[i].at = "idle" => txs[i].gone = {}
  /\ txs[i].at # "idle" => txs[i].gone \subseteq rows[txs[i].date]

\* What it has deleted, statement by statement, where all imports have holdings.
Whole(i) ==
  LET date == txs[i].date  targets == txs[i].targets  gone == txs[i].gone IN
  (txs[i].at # "idle" /\ HaveHoldings(date)) =>
    /\ txs[i].at = "deletingHoldings" =>
         gone = {} /\ (targets = {} \/ \E n \in DOMAIN written : Of(n, date) /\ targets = Holdings(RowsOf(n)))
    /\ txs[i].at = "deleteAllocations" => gone = {} \/ gone = Holdings(rows[date])
    /\ txs[i].at = "deletingAllocations" =>
         /\ Holdings(targets) = {}
         /\ gone = {} \/ (gone = Holdings(rows[date]) /\ targets = Allocations(rows[date]))
    /\ txs[i].at = "insertHoldings" => Holdings(gone) = {} \/ gone = rows[date]
    /\ txs[i].at \in Late => rows[date] \subseteq gone

Fit(i) == Known(i) /\ Added(i) /\ GoneIsThere(i) /\ Whole(i)

\* Two transactions of one date.
Apart(i, o) ==
  (txs[i].date = txs[o].date /\ txs[i].at # "idle" /\ txs[o].at # "idle") =>
    /\ txs[i].gone \cap txs[o].gone = {}
    /\ HaveHoldings(txs[i].date) => ~(txs[i].at \in Late /\ txs[o].at \in Late)

\* What a reader found, and read.
Found(r) ==
  \A list \in ListNames :
    LET date == readers[r].latest[list] IN
    (date \in Dates /\ HaveHoldings(date)) => rows[date] # {}
ListFits(r, list) ==
  \/ \E n \in DOMAIN written :
       Of(n, ResolvedAsOf(r)) /\ readers[r].read[list] = <<List(list, RowsOf(n))>>
  \/ readers[r].read[list] = <<{}>> /\ readers[r].latest[list] # ResolvedAsOf(r)
Read(r) ==
  \A list \in ListNames : readers[r].read[list] # NotRead =>
    /\ readers[r].ask # "nothing" /\ Resolved(r)
    /\ HaveHoldings(ResolvedAsOf(r)) => ListFits(r, list)

TxInv ==
  /\ \A i \in Importers : Fit(i)
  /\ \A i \in Importers : \A o \in Importers \ {i} : Apart(i, o)
RowInv == WrittenFit /\ \A d \in Dates : HaveHoldings(d) => OneImport(d)
ReadInv == \A r \in Readers : Found(r) /\ Read(r)
Inv == TypeOK /\ RowInv /\ TxInv /\ ReadInv

-----------------------------------------------------------------------------
\* What does not change keeps what is said of it.
LEMMA FitKept ==
  ASSUME NEW i \in Importers, Fit(i), txs'[i] = txs[i], UNCHANGED <<rows, written>>
  PROVE  Fit(i)'
BY DEF Fit, Known, Added, GoneIsThere, Whole, HaveHoldings, Of, RowsOf, Holdings, Allocations,
       Ranks

LEMMA ApartKept ==
  ASSUME NEW i \in Importers, NEW o \in Importers, Apart(i, o), txs'[i] = txs[i],
         txs'[o] = txs[o], UNCHANGED written
  PROVE  Apart(i, o)'
BY DEF Apart, HaveHoldings, Ranks

LEMMA ApartBothWays ==
  ASSUME NEW i \in Importers, NEW o \in Importers, Apart(i, o)
  PROVE  Apart(o, i)
BY DEF Apart

LEMMA RowsKept ==
  ASSUME RowInv, UNCHANGED <<rows, written>>
  PROVE  RowInv'
BY DEF RowInv, WrittenFit, HaveHoldings, OneImport, Of, RowsOf, Ranks

LEMMA ReadsKept ==
  ASSUME ReadInv, UNCHANGED <<rows, written, readers>>
  PROVE  ReadInv'
<1>1. \A r \in Readers : Found(r)'
  BY DEF ReadInv, Found, HaveHoldings, Ranks
<1>2. \A r \in Readers : ResolvedAsOf(r)' = ResolvedAsOf(r) /\ Resolved(r)' = Resolved(r)
  BY DEF Resolved, ResolvedAsOf, Asked
<1>3. \A r \in Readers : \A list \in ListNames : ListFits(r, list)' = ListFits(r, list)
  BY <1>2 DEF ListFits, Of, RowsOf, List, Holdings, Allocations, Ranks
<1>4. \A r \in Readers : Read(r)'
  BY <1>2, <1>3 DEF ReadInv, Read, HaveHoldings, Ranks
<1>5. QED
  BY <1>1, <1>4 DEF ReadInv

\* A step of one transaction that commits nothing.
LEMMA TxMoves ==
  ASSUME Inv, NEW i \in Importers, NEW t \in Tx, txs' = [txs EXCEPT ![i] = t],
         UNCHANGED <<rows, written, readers>>,
         Fit(i)', \A o \in Importers \ {i} : Apart(i, o)'
  PROVE  Inv'
<1>1. txs' \in [Importers -> Tx] /\ \A o \in Importers \ {i} : txs'[o] = txs[o]
  BY DEF Inv, TypeOK
<1>2. TypeOK'
  BY <1>1 DEF Inv, TypeOK
<1>3. RowInv' /\ ReadInv'
  BY RowsKept, ReadsKept DEF Inv
<1>4. \A o \in Importers : Fit(o)'
  <2>1. \A o \in Importers \ {i} : Fit(o)'
    BY <1>1, FitKept DEF Inv, TxInv
  <2>2. QED
    BY <2>1
<1>5. \A o \in Importers : \A p \in Importers \ {o} : Apart(o, p)'
  <2>1. \A o \in Importers \ {i} : \A p \in Importers \ {o, i} : Apart(o, p)'
    BY <1>1, ApartKept DEF Inv, TxInv
  <2>2. \A o \in Importers \ {i} : Apart(o, i)'
    BY DEF Apart
  <2>3. QED
    BY <2>1, <2>2
<1>6. QED
  BY <1>2, <1>3, <1>4, <1>5 DEF Inv, TxInv

-----------------------------------------------------------------------------
(* The steps of an import.                                                 *)

\* A transaction that ends, or has not begun, stands in nobody's way.
LEMMA IdleFits ==
  ASSUME NEW i \in Importers, txs[i] = Idle
  PROVE  Fit(i) /\ \A o \in Importers : Apart(i, o)
BY DEF Fit, Known, Added, GoneIsThere, Whole, Apart, Idle, Late

LEMMA IdleTyped == ASSUME ConstantsAssumption PROVE Idle \in Tx
BY DEF ConstantsAssumption, Idle, Tx

LEMMA RollbackStep ==
  ASSUME ConstantsAssumption, Inv, NEW i \in Importers, Rollback(i)
  PROVE  Inv'
<1>1. txs' = [txs EXCEPT ![i] = Idle] /\ UNCHANGED <<rows, written, readers>> /\ Idle \in Tx
  BY IdleTyped DEF Rollback
<1>2. txs'[i] = Idle
  BY <1>1 DEF Inv, TypeOK
<1>3. Fit(i)' /\ \A o \in Importers : Apart(i, o)'
  BY <1>2 DEF Fit, Known, Added, GoneIsThere, Whole, Apart, Idle, Late
<1>4. QED
  BY <1>1, <1>3, TxMoves

\* The rows of two imports differ, and so do those of two lists.
LEMMA ImportsDiffer ==
  ASSUME NEW n, NEW m, n # m
  PROVE  Holdings(RowsOf(n)) \cap RowsOf(m) = {}
BY DEF Holdings, RowsOf

LEMMA ListsOfRows ==
  ASSUME ConstantsAssumption, NEW S \in SUBSET Row
  PROVE  /\ S = Holdings(S) \cup Allocations(S)
         /\ Holdings(Allocations(S)) = {} /\ Holdings(S) \subseteq S /\ Allocations(S) \subseteq S
<1>1. Ranks \cap Labels = {}
  BY DEF ConstantsAssumption, Ranks
<1>2. QED
  BY <1>1 DEF Holdings, Allocations, Row, Keys

\* Records of transactions, written out.
Targeting(x, a, b) == [x EXCEPT !.at = a, !.targets = b]
Adding(x, a, c) == [x EXCEPT !.at = a, !.added = c]
Deleting(x, b, c) == [x EXCEPT !.gone = c, !.targets = b]
LEMMA TxRewritten ==
  ASSUME NEW x \in Tx, NEW a, NEW b, NEW c
  PROVE  /\ Targeting(x, a, b) =
              [at |-> a, id |-> x.id, date |-> x.date, keys |-> x.keys, repeated |-> x.repeated,
               targets |-> b, gone |-> x.gone, added |-> x.added]
         /\ Adding(x, a, c) =
              [at |-> a, id |-> x.id, date |-> x.date, keys |-> x.keys, repeated |-> x.repeated,
               targets |-> x.targets, gone |-> x.gone, added |-> c]
         /\ Deleting(x, b, c) =
              [at |-> x.at, id |-> x.id, date |-> x.date, keys |-> x.keys, repeated |-> x.repeated,
               targets |-> b, gone |-> c, added |-> x.added]
<1>1. x = [at |-> x.at, id |-> x.id, date |-> x.date, keys |-> x.keys,
           repeated |-> x.repeated, targets |-> x.targets, gone |-> x.gone, added |-> x.added]
  BY DEF Tx
<1> DEFINE begun == [at |-> a, id |-> x.id, date |-> x.date, keys |-> x.keys,
           repeated |-> x.repeated, targets |-> x.targets, gone |-> x.gone, added |-> x.added]
           cut == [at |-> x.at, id |-> x.id, date |-> x.date, keys |-> x.keys,
           repeated |-> x.repeated, targets |-> x.targets, gone |-> c, added |-> x.added]
           cleared == [at |-> x.at, id |-> x.id, date |-> x.date, keys |-> x.keys,
           repeated |-> x.repeated, targets |-> b, gone |-> c, added |-> x.added]
<1>2. [x EXCEPT !.at = a] = begun /\ [x EXCEPT !.gone = c] = cut
  BY <1>1
<1>3. /\ [x EXCEPT !.at = a, !.targets = b] = [[x EXCEPT !.at = a] EXCEPT !.targets = b]
      /\ [x EXCEPT !.at = a, !.added = c] = [[x EXCEPT !.at = a] EXCEPT !.added = c]
      /\ [x EXCEPT !.gone = c, !.targets = b] = [[x EXCEPT !.gone = c] EXCEPT !.targets = b]
  BY DEF Tx
<1>4. [begun EXCEPT !.targets = b] = [at |-> a, id |-> x.id, date |-> x.date, keys |-> x.keys,
           repeated |-> x.repeated, targets |-> b, gone |-> x.gone, added |-> x.added]
  OBVIOUS
<1>5. [begun EXCEPT !.added = c] = [at |-> a, id |-> x.id, date |-> x.date, keys |-> x.keys,
           repeated |-> x.repeated, targets |-> x.targets, gone |-> x.gone, added |-> c]
  OBVIOUS
<1>6. [cut EXCEPT !.targets = b] = cleared
  OBVIOUS
<1> HIDE DEF begun, cut
<1>7. QED
  BY <1>2, <1>3, <1>4, <1>5, <1>6 DEF Targeting, Adding, Deleting

\* A DELETE ends: the transaction has deleted what it saw that is still there.
LEMMA DeletesFacts ==
  ASSUME ConstantsAssumption, Inv, NEW i \in Importers,
         txs[i].at # "idle", NotLocked(i), NEW at \in {"deleteAllocations", "insertHoldings"},
         txs' = [txs EXCEPT ![i] = [Deletes(i) EXCEPT !.at = at]], UNCHANGED rows
  PROVE  \E t \in Tx :
           /\ txs' = [txs EXCEPT ![i] = t] /\ txs'[i] = t
           /\ t = [at |-> at, id |-> txs[i].id, date |-> txs[i].date, keys |-> txs[i].keys,
                   repeated |-> txs[i].repeated, targets |-> {},
                   gone |-> txs[i].gone \cup (txs[i].targets \cap rows[txs[i].date]),
                   added |-> txs[i].added]
           /\ \A o \in Importers \ {i} : Apart(i, o)'
           /\ GoneIsThere(i)'
<1> DEFINE c == txs[i].gone \cup (txs[i].targets \cap rows[txs[i].date])
           t == [at |-> at, id |-> txs[i].id, date |-> txs[i].date, keys |-> txs[i].keys,
                 repeated |-> txs[i].repeated, targets |-> {}, gone |-> c,
                 added |-> txs[i].added]
<1>1. txs[i] \in Tx /\ txs \in [Importers -> Tx]
  BY DEF Inv, TypeOK
<1>2. [Deletes(i) EXCEPT !.at = at] = t
  <2> DEFINE cut == [at |-> txs[i].at, id |-> txs[i].id, date |-> txs[i].date,
                     keys |-> txs[i].keys, repeated |-> txs[i].repeated, targets |-> {},
                     gone |-> c, added |-> txs[i].added]
  <2>1. Deletes(i) = Deleting(txs[i], {}, c)
    BY DEF Deletes, Deleting
  <2>2. Deleting(txs[i], {}, c) = cut
    BY <1>1, TxRewritten
  <2> HIDE DEF c
  <2>3. [cut EXCEPT !.at = at] = t
    OBVIOUS
  <2>4. QED
    BY <2>1, <2>2, <2>3
<1>3. t \in Tx
  <2>1. /\ txs[i].gone \in SUBSET Row /\ txs[i].targets \in SUBSET Row /\ txs[i].id \in 0..MaxImports
        /\ txs[i].date \in Dates \cup {NoDate} /\ txs[i].keys \in SUBSET Keys
        /\ txs[i].repeated \in BOOLEAN /\ txs[i].added \in SUBSET Row
    BY <1>1 DEF Tx
  <2>2. t.gone \in SUBSET Row /\ t.at = at
    BY <2>1
  <2>3. QED
    BY <2>1, <2>2 DEF Tx
<1>4. txs' = [txs EXCEPT ![i] = t] /\ txs'[i] = t /\ \A o \in Importers \ {i} : txs'[o] = txs[o]
  BY <1>1, <1>2
<1>5. \A o \in Importers \ {i} : Apart(i, o)'
  <2>1. SUFFICES ASSUME NEW o \in Importers \ {i}, t.date = txs[o].date, txs[o].at # "idle"
                 PROVE  t.gone \cap txs[o].gone = {} /\ ~(t.at \in Late)
    BY <1>4 DEF Apart
  <2>2. txs[i].gone \cap txs[o].gone = {}
    BY <2>1 DEF Inv, TxInv, Apart
  <2>3. txs[o].gone \cap txs[i].targets = {}
    BY <2>1 DEF NotLocked, Others
  <2>4. t.gone \cap txs[o].gone = {}
    BY <2>2, <2>3
  <2>5. QED
    BY <2>4 DEF Late
<1>6. GoneIsThere(i)'
  <2>1. txs[i].gone \subseteq rows[txs[i].date]
    BY DEF Inv, TxInv, Fit, GoneIsThere
  <2>2. t.gone \subseteq rows[t.date] /\ t.at # "idle"
    BY <2>1
  <2>3. QED
    BY <1>4, <2>2 DEF GoneIsThere
<1>7. QED
  BY <1>3, <1>4, <1>5, <1>6

LEMMA DeleteHoldingsStep ==
  ASSUME ConstantsAssumption, Inv, NEW i \in Importers, DeleteHoldings(i)
  PROVE  Inv'
<1>1. PICK t \in Tx :
        /\ txs' = [txs EXCEPT ![i] = t] /\ txs'[i] = t
        /\ t = [at |-> "deleteAllocations", id |-> txs[i].id, date |-> txs[i].date,
                keys |-> txs[i].keys, repeated |-> txs[i].repeated, targets |-> {},
                gone |-> txs[i].gone \cup (txs[i].targets \cap rows[txs[i].date]),
                added |-> txs[i].added]
        /\ \A o \in Importers \ {i} : Apart(i, o)'
        /\ GoneIsThere(i)'
  BY DeletesFacts DEF DeleteHoldings
<1>2. txs[i].at = "deletingHoldings" /\ UNCHANGED <<rows, written, readers>>
  BY DEF DeleteHoldings
<1>3. Known(i)' /\ Added(i)'
  BY <1>1, <1>2 DEF Inv, TxInv, Fit, Known, Added, Late
<1>4. HaveHoldings(t.date) => t.gone = {} \/ t.gone = Holdings(rows[t.date])
  <2>1. HAVE HaveHoldings(t.date)
  <2>2. /\ txs[i].gone = {}
        /\ txs[i].targets = {} \/ \E n \in DOMAIN written : Of(n, t.date) /\ txs[i].targets = Holdings(RowsOf(n))
    BY <1>1, <1>2, <2>1 DEF Inv, TxInv, Fit, Whole
  <2>3. OneImport(t.date)
    BY <1>1, <1>2, <2>1 DEF Inv, TxInv, RowInv, Fit, Known
  <2>4. t.gone = txs[i].targets \cap rows[t.date]
    BY <1>1, <2>2
  <2>5. CASE txs[i].targets = {} \/ rows[t.date] = {}
    BY <2>4, <2>5
  <2>6. CASE txs[i].targets # {} /\ rows[t.date] # {}
    <3>1. PICK n \in DOMAIN written : txs[i].targets = Holdings(RowsOf(n))
      BY <2>2, <2>6
    <3>2. PICK m \in DOMAIN written : rows[t.date] = RowsOf(m)
      BY <2>3, <2>6 DEF OneImport
    <3>3. CASE n = m
      BY <2>4, <3>1, <3>2, <3>3 DEF Holdings
    <3>4. CASE n # m
      BY <2>4, <3>1, <3>2, <3>4, ImportsDiffer
    <3>5. QED
      BY <3>3, <3>4
  <2>7. QED
    BY <2>5, <2>6
<1>5. Whole(i)'
  BY <1>1, <1>2, <1>4 DEF Whole, Late, HaveHoldings, Ranks, Holdings
<1>6. QED
  BY <1>1, <1>2, <1>3, <1>5, TxMoves DEF Fit

LEMMA StartDeletingAllocationsStep ==
  ASSUME ConstantsAssumption, Inv, NEW i \in Importers, StartDeletingAllocations(i)
  PROVE  Inv'
<1> DEFINE t == [at |-> "deletingAllocations", id |-> txs[i].id, date |-> txs[i].date,
                 keys |-> txs[i].keys, repeated |-> txs[i].repeated,
                 targets |-> Allocations(rows[txs[i].date]),
                 gone |-> txs[i].gone, added |-> txs[i].added]
<1>1. /\ txs[i].at = "deleteAllocations" /\ UNCHANGED <<rows, written, readers>>
      /\ txs[i] \in Tx /\ txs \in [Importers -> Tx]
  BY DEF StartDeletingAllocations, Inv, TypeOK
<1>2. txs' = [txs EXCEPT ![i] = t] /\ txs'[i] = t /\ \A o \in Importers \ {i} : txs'[o] = txs[o]
  <2>1. txs' = [txs EXCEPT ![i] = [txs[i] EXCEPT !.at = "deletingAllocations",
                                                 !.targets = Allocations(rows[txs[i].date])]]
    BY <1>1 DEF StartDeletingAllocations
  <2>2. txs' = [txs EXCEPT ![i] =
                 Targeting(txs[i], "deletingAllocations", Allocations(rows[txs[i].date]))]
    BY <2>1 DEF Targeting
  <2>3. Targeting(txs[i], "deletingAllocations", Allocations(rows[txs[i].date])) = t
    BY <1>1, TxRewritten
  <2>4. QED
    BY <1>1, <2>2, <2>3
<1>3. Known(i)
  BY DEF Inv, TxInv, Fit
<1>4. rows[t.date] \in SUBSET Row
  BY <1>1, <1>3 DEF Inv, TypeOK, Known
<1>5. t \in Tx
  <2>1. t.targets \in SUBSET Row /\ t.at = "deletingAllocations"
    BY <1>4, ListsOfRows
  <2>2. QED
    BY <1>1, <2>1 DEF Tx
<1>6. Known(i)' /\ Added(i)' /\ GoneIsThere(i)'
  BY <1>1, <1>2 DEF Inv, TxInv, Fit, Known, Added, GoneIsThere, Late
<1>7. \A o \in Importers \ {i} : Apart(i, o)'
  BY <1>1, <1>2 DEF Inv, TxInv, Apart, Late, HaveHoldings
<1>8. Whole(i)'
  <2>1. Holdings(t.targets) = {}
    BY <1>4, ListsOfRows
  <2>2. HaveHoldings(t.date) => t.gone = {} \/ t.gone = Holdings(rows[t.date])
    BY <1>1 DEF Inv, TxInv, Fit, Whole
  <2>3. QED
    BY <1>1, <1>2, <2>1, <2>2 DEF Whole, Late, HaveHoldings, Ranks, Holdings, Allocations
<1>9. QED
  BY <1>1, <1>2, <1>5, <1>6, <1>7, <1>8, TxMoves DEF Fit

LEMMA DeleteAllocationsStep ==
  ASSUME ConstantsAssumption, Inv, NEW i \in Importers, DeleteAllocations(i)
  PROVE  Inv'
<1>1. PICK t \in Tx :
        /\ txs' = [txs EXCEPT ![i] = t] /\ txs'[i] = t
        /\ t = [at |-> "insertHoldings", id |-> txs[i].id, date |-> txs[i].date,
                keys |-> txs[i].keys, repeated |-> txs[i].repeated, targets |-> {},
                gone |-> txs[i].gone \cup (txs[i].targets \cap rows[txs[i].date]),
                added |-> txs[i].added]
        /\ \A o \in Importers \ {i} : Apart(i, o)'
        /\ GoneIsThere(i)'
  BY DeletesFacts DEF DeleteAllocations
<1>2. txs[i].at = "deletingAllocations" /\ UNCHANGED <<rows, written, readers>>
  BY DEF DeleteAllocations
<1>3. Known(i)' /\ Added(i)'
  BY <1>1, <1>2 DEF Inv, TxInv, Fit, Known, Added, Late
<1>4. HaveHoldings(t.date) => Holdings(t.gone) = {} \/ t.gone = rows[t.date]
  <2>1. HAVE HaveHoldings(t.date)
  <2>2. rows[t.date] \in SUBSET Row
    BY <1>1, <1>2 DEF Inv, TypeOK, TxInv, Fit, Known
  <2>3. /\ Holdings(txs[i].targets) = {}
        /\ \/ txs[i].gone = {}
           \/ txs[i].gone = Holdings(rows[t.date]) /\ txs[i].targets = Allocations(rows[t.date])
    BY <1>1, <1>2, <2>1 DEF Inv, TxInv, Fit, Whole
  <2>4. CASE txs[i].gone = {}
    BY <1>1, <2>3, <2>4 DEF Holdings
  <2>5. CASE txs[i].gone # {}
    BY <1>1, <2>2, <2>3, <2>5, ListsOfRows
  <2>6. QED
    BY <2>4, <2>5
<1>5. Whole(i)'
  BY <1>1, <1>2, <1>4 DEF Whole, Late, HaveHoldings, Ranks, Holdings
<1>6. QED
  BY <1>1, <1>2, <1>3, <1>5, TxMoves DEF Fit

\* Where all imports have holdings, each of them has rank 1.
LEMMA RankOne ==
  ASSUME ConstantsAssumption, Inv, NEW n \in DOMAIN written, HaveHoldings(written[n].date)
  PROVE  /\ 1 \in written[n].keys /\ 1 \in Ranks
         /\ [key |-> 1, by |-> n] \in Holdings(RowsOf(n))
         /\ [key |-> 1, by |-> n] \in RowsOf(n)
<1>1. written[n].keys \cap Ranks # {}
  BY DEF HaveHoldings
<1>2. 1 \in written[n].keys
  BY <1>1 DEF Inv, RowInv, WrittenFit
<1>3. 1 \in Ranks
  BY <1>1 DEF Ranks, ConstantsAssumption
<1>4. QED
  BY <1>2, <1>3 DEF Holdings, RowsOf

\* The import of a transaction.
LEMMA ImportFacts ==
  ASSUME ConstantsAssumption, Inv, NEW i \in Importers, txs[i].at # "idle"
  PROVE  /\ txs[i] \in Tx /\ txs[i].date \in Dates
         /\ txs[i].id \in DOMAIN written /\ txs[i].id \in 1..MaxImports
         /\ written[txs[i].id].date = txs[i].date /\ written[txs[i].id].keys = txs[i].keys
         /\ rows[txs[i].date] \in SUBSET Row
         /\ RowsOf(txs[i].id) = {[key |-> k, by |-> txs[i].id] : k \in txs[i].keys}
         /\ RowsOf(txs[i].id) \in SUBSET Row
<1>1. /\ txs[i] \in Tx /\ txs[i].date \in Dates /\ txs[i].id \in DOMAIN written
      /\ written[txs[i].id].date = txs[i].date /\ written[txs[i].id].keys = txs[i].keys
  BY DEF Inv, TypeOK, TxInv, Fit, Known
<1>2. txs[i].id \in 1..MaxImports
  BY <1>1 DEF Inv, TypeOK, ConstantsAssumption
<1>3. rows[txs[i].date] \in SUBSET Row
  BY <1>1 DEF Inv, TypeOK
<1>4. RowsOf(txs[i].id) = {[key |-> k, by |-> txs[i].id] : k \in txs[i].keys}
  BY <1>1 DEF RowsOf
<1>5. RowsOf(txs[i].id) \in SUBSET Row
  BY <1>1, <1>2, <1>4 DEF Tx, Row
<1>6. QED
  BY <1>1, <1>2, <1>3, <1>4, <1>5

LEMMA InsertsFacts ==
  ASSUME ConstantsAssumption, Inv, NEW i \in Importers, txs[i].at # "idle",
         NEW keys \in SUBSET txs[i].keys, NEW next \in Late, Inserts(i, keys, next)
  PROVE  \E t \in Tx :
           /\ txs' = [txs EXCEPT ![i] = t] /\ txs'[i] = t
           /\ t = [at |-> next, id |-> txs[i].id, date |-> txs[i].date, keys |-> txs[i].keys,
                   repeated |-> txs[i].repeated, targets |-> txs[i].targets, gone |-> txs[i].gone,
                   added |-> txs[i].added \cup {[key |-> k, by |-> txs[i].id] : k \in keys}]
           /\ Known(i)' /\ GoneIsThere(i)'
           /\ \A o \in Importers \ {i} : txs'[o] = txs[o]
<1> DEFINE c == txs[i].added \cup {[key |-> k, by |-> txs[i].id] : k \in keys}
           t == [at |-> next, id |-> txs[i].id, date |-> txs[i].date, keys |-> txs[i].keys,
                 repeated |-> txs[i].repeated, targets |-> txs[i].targets, gone |-> txs[i].gone,
                 added |-> c]
<1>1. txs[i] \in Tx /\ txs \in [Importers -> Tx] /\ UNCHANGED <<rows, written>>
  BY DEF Inv, TypeOK, Inserts
<1>2. txs' = [txs EXCEPT ![i] = Adding(txs[i], next, c)]
  <2>1. txs' = [txs EXCEPT ![i] = [txs[i] EXCEPT !.at = next, !.added = c]]
    BY <1>1 DEF Inserts
  <2>2. QED
    BY <2>1 DEF Adding
<1>3. Adding(txs[i], next, c) = t
  BY <1>1, TxRewritten
<1>4. c \in SUBSET Row
  <2>1. \A k \in keys : [key |-> k, by |-> txs[i].id] \in Row
    BY ImportFacts DEF RowsOf
  <2>2. txs[i].added \in SUBSET Row
    BY <1>1 DEF Tx
  <2>3. QED
    BY <2>1, <2>2
<1>5. next \in {"insertAllocations", "commit"}
  BY DEF Late
<1> HIDE DEF c
<1>6. t \in Tx
  BY <1>1, <1>4, <1>5 DEF Tx
<1>7. txs' = [txs EXCEPT ![i] = t] /\ txs'[i] = t /\ \A o \in Importers \ {i} : txs'[o] = txs[o]
  BY <1>1, <1>2, <1>3
<1>8. t.at # "idle" /\ t.id = txs[i].id /\ t.date = txs[i].date /\ t.keys = txs[i].keys
      /\ t.gone = txs[i].gone
  BY <1>5
<1> HIDE DEF t
<1>9. Known(i)' /\ GoneIsThere(i)'
  BY <1>1, <1>7, <1>8 DEF Inv, TxInv, Fit, Known, GoneIsThere
<1>10. QED
  BY <1>6, <1>7, <1>9 DEF t, c

LEMMA InsertHoldingsStep ==
  ASSUME ConstantsAssumption, Inv, NEW i \in Importers, InsertHoldings(i)
  PROVE  Inv'
<1> DEFINE keys == txs[i].keys \cap Ranks
           date == txs[i].date
<1>1. /\ txs[i].at = "insertHoldings" /\ Inserts(i, keys, "insertAllocations")
      /\ UNCHANGED <<rows, written, readers>>
  BY DEF InsertHoldings, Inserts
<1>2. PICK t \in Tx :
        /\ txs' = [txs EXCEPT ![i] = t] /\ txs'[i] = t
        /\ t = [at |-> "insertAllocations", id |-> txs[i].id, date |-> txs[i].date,
                keys |-> txs[i].keys, repeated |-> txs[i].repeated, targets |-> txs[i].targets,
                gone |-> txs[i].gone,
                added |-> txs[i].added \cup {[key |-> k, by |-> txs[i].id] : k \in keys}]
        /\ Known(i)' /\ GoneIsThere(i)'
        /\ \A o \in Importers \ {i} : txs'[o] = txs[o]
  BY <1>1, InsertsFacts DEF Late
<1>3. Added(i)'
  <2>1. txs[i].added = {}
    BY <1>1 DEF Inv, TxInv, Fit, Added, Late
  <2>2. t.added = Holdings(RowsOf(txs[i].id))
    BY <1>1, <1>2, <2>1, ImportFacts DEF Holdings
  <2>3. QED
    BY <1>1, <1>2, <2>2 DEF Added, Late, RowsOf, Holdings, Ranks
<1>4. HaveHoldings(date) => rows[date] \subseteq txs[i].gone
  <2>1. HAVE HaveHoldings(date)
  <2>2. 1 \in keys
    BY <1>1, <2>1, ImportFacts, RankOne
  <2>3. SUFFICES ASSUME rows[date] # {} PROVE rows[date] \subseteq txs[i].gone
    OBVIOUS
  <2>4. PICK n \in DOMAIN written : Of(n, date) /\ rows[date] = RowsOf(n)
    BY <1>1, <2>1, <2>3, ImportFacts DEF Inv, RowInv, OneImport
  <2>5. [key |-> 1, by |-> n] \in rows[date] /\ [key |-> 1, by |-> n].key = 1
    BY <2>1, <2>4, RankOne DEF Of
  <2>6. [key |-> 1, by |-> n] \in txs[i].gone
    BY <1>1, <2>2, <2>5 DEF Inserts, Taken, KeysOf
  <2>7. [key |-> 1, by |-> n] \in Holdings(txs[i].gone)
    BY <2>2, <2>6 DEF Holdings
  <2>8. txs[i].gone = rows[date]
    BY <1>1, <2>1, <2>7 DEF Inv, TxInv, Fit, Whole
  <2>9. QED
    BY <2>8
<1>5. Whole(i)'
  BY <1>1, <1>2, <1>4 DEF Whole, Late, HaveHoldings, Ranks
<1>6. \A o \in Importers \ {i} : Apart(i, o)'
  <2>1. SUFFICES ASSUME NEW o \in Importers \ {i}, date = txs[o].date, txs[o].at # "idle"
                 PROVE  /\ txs[i].gone \cap txs[o].gone = {}
                        /\ HaveHoldings(date) => txs[o].at \notin Late
    BY <1>1, <1>2 DEF Apart, HaveHoldings, Ranks
  <2>2. txs[i].gone \cap txs[o].gone = {}
    BY <1>1, <2>1 DEF Inv, TxInv, Apart
  <2>3. ASSUME HaveHoldings(date), txs[o].at \in Late PROVE FALSE
    <3>1. 1 \in keys
      BY <1>1, <2>3, ImportFacts, RankOne
    <3>2. [key |-> 1, by |-> txs[o].id] \in txs[o].added
      BY <2>1, <2>3, ImportFacts, RankOne DEF Inv, TxInv, Fit, Added, Late
    <3>3. 1 \in KeysOf(txs[o].added \cup txs[o].gone)
      BY <3>2 DEF KeysOf
    <3>4. o \in Others(i)
      BY <2>1 DEF Others
    <3>5. QED
      BY <1>1, <3>1, <3>3, <3>4 DEF Inserts, Waits
  <2>4. QED
    BY <2>2, <2>3
<1>7. QED
  BY <1>1, <1>2, <1>3, <1>5, <1>6, TxMoves DEF Fit

LEMMA InsertAllocationsStep ==
  ASSUME ConstantsAssumption, Inv, NEW i \in Importers, InsertAllocations(i)
  PROVE  Inv'
<1> DEFINE keys == txs[i].keys \cap Labels
<1>1. /\ txs[i].at = "insertAllocations" /\ Inserts(i, keys, "commit")
      /\ UNCHANGED <<rows, written, readers>>
  BY DEF InsertAllocations, Inserts
<1>2. PICK t \in Tx :
        /\ txs' = [txs EXCEPT ![i] = t] /\ txs'[i] = t
        /\ t = [at |-> "commit", id |-> txs[i].id, date |-> txs[i].date,
                keys |-> txs[i].keys, repeated |-> txs[i].repeated, targets |-> txs[i].targets,
                gone |-> txs[i].gone,
                added |-> txs[i].added \cup {[key |-> k, by |-> txs[i].id] : k \in keys}]
        /\ Known(i)' /\ GoneIsThere(i)'
        /\ \A o \in Importers \ {i} : txs'[o] = txs[o]
  BY <1>1, InsertsFacts DEF Late
<1>3. Added(i)'
  <2>1. txs[i].added = Holdings(RowsOf(txs[i].id))
    BY <1>1 DEF Inv, TxInv, Fit, Added
  <2>2. txs[i].keys = (txs[i].keys \cap Ranks) \cup keys
    BY <1>1, ImportFacts DEF Tx, Keys
  <2>3. Holdings(RowsOf(txs[i].id)) = {[key |-> k, by |-> txs[i].id] : k \in txs[i].keys \cap Ranks}
    BY <1>1, ImportFacts DEF Holdings
  <2>4. t.added = RowsOf(txs[i].id)
    BY <1>1, <1>2, <2>1, <2>2, <2>3, ImportFacts
  <2>5. QED
    BY <1>1, <1>2, <2>4 DEF Added, Late, RowsOf
<1>4. Whole(i)'
  BY <1>1, <1>2 DEF Inv, TxInv, Fit, Whole, Late, HaveHoldings, Ranks
<1>5. \A o \in Importers \ {i} : Apart(i, o)'
  BY <1>1, <1>2 DEF Inv, TxInv, Apart, Late, HaveHoldings, Ranks
<1>6. QED
  BY <1>1, <1>2, <1>3, <1>4, <1>5, TxMoves DEF Fit

\* A new import leaves what was known of the others.
Grown == \A n \in DOMAIN written : n \in DOMAIN written' /\ written'[n] = written[n]

LEMMA GrownFacts ==
  ASSUME Grown
  PROVE  /\ \A d : HaveHoldings(d)' => HaveHoldings(d)
         /\ \A n \in DOMAIN written : RowsOf(n)' = RowsOf(n)
         /\ \A n \in DOMAIN written : \A d : Of(n, d) => Of(n, d)'
BY DEF Grown, HaveHoldings, RowsOf, Of, Ranks

LEMMA FitGrown ==
  ASSUME NEW i \in Importers, Fit(i), txs'[i] = txs[i], rows' = rows, Grown
  PROVE  Fit(i)'
<1>1. Known(i)' /\ GoneIsThere(i)'
  BY DEF Fit, Known, GoneIsThere, Grown
<1>2. Added(i)'
  BY GrownFacts DEF Fit, Added, Late, Known, Holdings, Ranks
<1>3. Whole(i)'
  <2>1. SUFFICES ASSUME txs[i].at # "idle", HaveHoldings(txs[i].date)'
                 PROVE  Whole(i)'
    BY DEF Whole
  <2>2. HaveHoldings(txs[i].date)
    BY <2>1, GrownFacts
  <2>3. \A n \in DOMAIN written : Of(n, txs[i].date) => n \in DOMAIN written' /\ Of(n, txs[i].date)'
                                                       /\ RowsOf(n)' = RowsOf(n)
    BY GrownFacts DEF Grown
  <2>4. QED
    BY <2>1, <2>2, <2>3 DEF Fit, Whole, Late, Holdings, Allocations, Ranks
<1>4. QED
  BY <1>1, <1>2, <1>3 DEF Fit

LEMMA ReadGrown ==
  ASSUME NEW r \in Readers, Read(r), readers'[r] = readers[r], Grown
  PROVE  Read(r)'
<1>1. ResolvedAsOf(r)' = ResolvedAsOf(r) /\ Resolved(r)' = Resolved(r)
  BY DEF Resolved, ResolvedAsOf, Asked
<1>2. \A list \in ListNames : ListFits(r, list) => ListFits(r, list)'
  BY <1>1, GrownFacts DEF ListFits, List, Holdings, Allocations, Ranks, Grown
<1>3. QED
  BY <1>1, <1>2, GrownFacts DEF Read

LEMMA FetchStep ==
  ASSUME ConstantsAssumption, Inv, NEW i \in Importers, Fetch(i)
  PROVE  Inv'
<1>1. PICK date \in Dates, last \in 0..MaxRank, labels \in SUBSET Labels, repeated \in BOOLEAN :
        /\ written' = Append(written, [date |-> date, keys |-> (1..last) \cup labels])
        /\ txs' = [txs EXCEPT ![i] =
             [at |-> "deletingHoldings", id |-> Len(written) + 1, date |-> date,
              keys |-> (1..last) \cup labels, repeated |-> repeated,
              targets |-> Holdings(rows[date]), gone |-> {}, added |-> {}]]
  BY DEF Fetch
<1> DEFINE keys == (1..last) \cup labels
           import == [date |-> date, keys |-> keys]
           n == Len(written) + 1
           t == [at |-> "deletingHoldings", id |-> n, date |-> date, keys |-> keys,
                 repeated |-> repeated, targets |-> Holdings(rows[date]), gone |-> {}, added |-> {}]
<1>2. /\ Len(written) < MaxImports /\ UNCHANGED <<rows, readers>>
      /\ written \in Seq([date : Dates, keys : SUBSET Keys]) /\ txs \in [Importers -> Tx]
      /\ rows[date] \in SUBSET Row /\ MaxImports \in Nat /\ MaxRank \in Nat
  BY <1>1 DEF Fetch, Inv, TypeOK, ConstantsAssumption
<1>3. keys \in SUBSET Keys /\ (keys \cap Ranks # {} => 1 \in keys)
  <2>1. keys \in SUBSET Keys
    BY <1>1, <1>2 DEF Keys, Ranks
  <2>2. ASSUME keys \cap Ranks # {} PROVE 1 \in keys
    <3>1. labels \cap Ranks = {}
      BY <1>1 DEF ConstantsAssumption, Ranks
    <3>2. PICK k \in 1..last : TRUE
      BY <2>2, <3>1
    <3>3. QED
      BY <3>2, <1>1, <1>2
  <2>3. QED
    BY <2>1, <2>2
<1> HIDE DEF keys
<1>4. import \in [date : Dates, keys : SUBSET Keys]
  BY <1>1, <1>3
<1>5. /\ written' \in Seq([date : Dates, keys : SUBSET Keys]) /\ Len(written') = n
      /\ n \in DOMAIN written' /\ written'[n] = import /\ Len(written') <= MaxImports
      /\ DOMAIN written' = DOMAIN written \cup {n} /\ n \in 0..MaxImports
      /\ Grown
  <2>1. written' = Append(written, import)
    BY <1>1 DEF keys
  <2> HIDE DEF import
  <2>2. QED
    BY <1>2, <1>4, <2>1 DEF Grown
<1>6. t \in Tx
  <2>1. Holdings(rows[date]) \in SUBSET Row
    BY <1>2 DEF Holdings
  <2> DEFINE targets == Holdings(rows[date])
  <2> HIDE DEF targets, n
  <2>2. [at |-> "deletingHoldings", id |-> n, date |-> date, keys |-> keys, repeated |-> repeated,
         targets |-> targets, gone |-> {}, added |-> {}] \in Tx
    BY <1>1, <1>3, <1>5, <2>1 DEF Tx, targets
  <2>3. QED
    BY <2>2 DEF targets
<1>7. txs'[i] = t /\ txs' \in [Importers -> Tx] /\ \A o \in Importers \ {i} : txs'[o] = txs[o]
  BY <1>1, <1>2, <1>6 DEF keys
<1>8. TypeOK'
  BY <1>2, <1>5, <1>7 DEF Inv, TypeOK
<1>9. RowInv'
  <2>1. WrittenFit'
    BY <1>3, <1>5 DEF Inv, RowInv, WrittenFit, Ranks, Grown
  <2>2. \A d \in Dates : HaveHoldings(d)' => OneImport(d)'
    BY <1>2, <1>5, GrownFacts DEF Inv, RowInv, OneImport, Grown
  <2>3. QED
    BY <2>1, <2>2 DEF RowInv
<1>10. Fit(i)'
  <2>1. Known(i)' /\ Added(i)' /\ GoneIsThere(i)'
    BY <1>1, <1>5, <1>7 DEF Known, Added, GoneIsThere, Late
  <2>2. HaveHoldings(date)' => t.targets = {} \/
          \E m \in DOMAIN written' : Of(m, date)' /\ t.targets = Holdings(RowsOf(m))'
    <3>1. HAVE HaveHoldings(date)'
    <3>2. OneImport(date)'
      BY <3>1, <1>1, <1>9 DEF RowInv
    <3>3. QED
      BY <3>2, <1>2 DEF OneImport, Holdings, Ranks
  <2>3. Whole(i)'
    BY <1>7, <2>2 DEF Whole, Late
  <2>4. QED
    BY <2>1, <2>3 DEF Fit
<1>11. TxInv'
  <2>1. \A o \in Importers \ {i} : Fit(o)'
    BY <1>2, <1>5, <1>7, FitGrown DEF Inv, TxInv
  <2>2. \A o \in Importers \ {i} : Apart(i, o)' /\ Apart(o, i)'
    BY <1>7 DEF Apart, Late
  <2>3. \A o \in Importers \ {i} : \A p \in Importers \ {o, i} : Apart(o, p)'
    BY <1>5, <1>7, GrownFacts DEF Inv, TxInv, Apart
  <2>4. QED
    BY <1>10, <2>1, <2>2, <2>3 DEF TxInv
<1>12. ReadInv'
  <2>1. \A r \in Readers : Read(r)'
    BY <1>2, <1>5, ReadGrown DEF Inv, ReadInv
  <2>2. \A r \in Readers : Found(r)'
    BY <1>2, <1>5, GrownFacts DEF Inv, ReadInv, Found
  <2>3. QED
    BY <2>1, <2>2 DEF ReadInv
<1>13. QED
  BY <1>8, <1>9, <1>11, <1>12 DEF Inv

\* A commit puts one import's rows in the place of all that were there, and
\* whoever else had begun on the date has deleted nothing of it.
LEMMA CommitStep ==
  ASSUME ConstantsAssumption, Inv, NEW i \in Importers, Commit(i)
  PROVE  Inv'
<1> DEFINE date == txs[i].date
           new == (rows[date] \ txs[i].gone) \cup txs[i].added
<1>1. /\ txs[i].at = "commit" /\ rows' = [rows EXCEPT ![date] = new]
      /\ txs' = [txs EXCEPT ![i] = Idle] /\ UNCHANGED <<written, readers>>
  BY DEF Commit
<1>2. /\ date \in Dates /\ txs[i].id \in DOMAIN written /\ Of(txs[i].id, date)
      /\ rows[date] \in SUBSET Row /\ RowsOf(txs[i].id) \in SUBSET Row
  BY <1>1, ImportFacts DEF Of
<1>3. txs[i].added = RowsOf(txs[i].id)
  BY <1>1 DEF Inv, TxInv, Fit, Added
<1>4. HaveHoldings(date) => rows[date] \subseteq txs[i].gone /\ new = RowsOf(txs[i].id) /\ new # {}
  <2>1. HAVE HaveHoldings(date)
  <2>2. rows[date] \subseteq txs[i].gone
    BY <1>1, <2>1 DEF Inv, TxInv, Fit, Whole, Late
  <2>3. RowsOf(txs[i].id) # {}
    BY <1>2, <2>1, RankOne DEF Of
  <2>4. QED
    BY <1>3, <2>2, <2>3
<1>5. new \in SUBSET Row
  BY <1>2, <1>3
<1> HIDE DEF new
<1>6. /\ rows' \in [Dates -> SUBSET Row] /\ rows'[date] = new
      /\ \A d \in Dates \ {date} : rows'[d] = rows[d]
  BY <1>1, <1>2, <1>5 DEF Inv, TypeOK
<1>7. txs' \in [Importers -> Tx] /\ txs'[i] = Idle /\ \A o \in Importers \ {i} : txs'[o] = txs[o]
  BY <1>1, IdleTyped DEF Inv, TypeOK
<1>8. TypeOK'
  BY <1>1, <1>6, <1>7 DEF Inv, TypeOK
<1>9. Grown
  BY <1>1 DEF Grown
<1>10. RowInv'
  <2>1. WrittenFit'
    BY <1>1 DEF Inv, RowInv, WrittenFit, Ranks
  <2>2. ASSUME NEW d \in Dates, HaveHoldings(d)' PROVE OneImport(d)'
    <3>1. HaveHoldings(d)
      BY <2>2, <1>9, GrownFacts
    <3>2. CASE d = date
      BY <1>1, <1>2, <1>4, <1>6, <3>1, <3>2 DEF OneImport, Of, RowsOf
    <3>3. CASE d # date
      BY <1>1, <1>6, <3>1, <3>3 DEF Inv, RowInv, OneImport, Of, RowsOf
    <3>4. QED
      BY <3>2, <3>3
  <2>3. QED
    BY <2>1, <2>2 DEF RowInv
<1>11. ASSUME NEW o \in Importers \ {i} PROVE Fit(o)'
  <2>1. Known(o)' /\ Added(o)'
    BY <1>1, <1>7, <1>11 DEF Inv, TxInv, Fit, Known, Added, Late, RowsOf, Holdings, Ranks
  <2>2. CASE txs[o].at = "idle"
    BY <1>7, <1>11, <2>1, <2>2 DEF Inv, TxInv, Fit, GoneIsThere, Whole
  <2>3. CASE txs[o].at # "idle" /\ txs[o].date # date
    <3>1. rows'[txs[o].date] = rows[txs[o].date]
      BY <1>6, <2>3, ImportFacts
    <3>2. GoneIsThere(o)'
      BY <1>7, <1>11, <2>3, <3>1 DEF Inv, TxInv, Fit, GoneIsThere
    <3>3. Whole(o)'
      BY <1>1, <1>7, <1>11, <2>3, <3>1
      DEF Inv, TxInv, Fit, Whole, Late, HaveHoldings, Of, RowsOf, Holdings, Allocations, Ranks
    <3>4. QED
      BY <2>1, <3>2, <3>3 DEF Fit
  <2>4. CASE txs[o].at # "idle" /\ txs[o].date = date
    <3>1. /\ txs[o].gone \subseteq rows[date] /\ txs[i].gone \cap txs[o].gone = {}
          /\ HaveHoldings(date) => txs[o].at \notin Late
      BY <1>1, <1>11, <2>4 DEF Inv, TxInv, Fit, GoneIsThere, Apart, Late
    <3>2. GoneIsThere(o)'
      BY <1>6, <1>7, <1>11, <2>4, <3>1 DEF GoneIsThere, new
    <3>3. Whole(o)'
      <4>1. SUFFICES ASSUME HaveHoldings(date) PROVE Whole(o)'
        BY <1>1, <1>7, <1>11, <2>4 DEF Whole, HaveHoldings, Ranks
      <4>2. HaveHoldings(date)
        BY <4>1
      <4>3. txs[o].gone = {} /\ Holdings({}) = {}
        BY <1>4, <3>1, <4>2 DEF Holdings
      <4>4. /\ txs[o].at = "deletingHoldings" =>
                 txs[o].targets = {} \/ \E n \in DOMAIN written : Of(n, date) /\ txs[o].targets = Holdings(RowsOf(n))
            /\ txs[o].at = "deletingAllocations" => Holdings(txs[o].targets) = {}
        BY <1>11, <2>4, <4>2 DEF Inv, TxInv, Fit, Whole
      <4>5. txs[o].at \notin Late
        BY <3>1, <4>2
      <4>6. QED
        BY <1>1, <1>7, <1>11, <2>4, <4>3, <4>4, <4>5 DEF Whole, Of, RowsOf, Holdings, Ranks
    <3>4. QED
      BY <2>1, <3>2, <3>3 DEF Fit
  <2>5. QED
    BY <2>2, <2>3, <2>4
<1>12. TxInv'
  <2>1. Fit(i)' /\ \A o \in Importers : Apart(i, o)' /\ Apart(o, i)'
    BY <1>7 DEF Fit, Known, Added, GoneIsThere, Whole, Apart, Idle, Late
  <2>2. \A o \in Importers \ {i} : \A p \in Importers \ {o, i} : Apart(o, p)'
    BY <1>1, <1>7, ApartKept DEF Inv, TxInv
  <2>3. QED
    BY <1>11, <2>1, <2>2 DEF TxInv
<1>13. ReadInv'
  <2>1. \A r \in Readers : Read(r)'
    BY <1>1, <1>9, ReadGrown DEF Inv, ReadInv
  <2>2. \A d \in Dates : HaveHoldings(d) /\ rows[d] # {} => rows'[d] # {}
    BY <1>4, <1>6
  <2>3. \A r \in Readers : Found(r)'
    BY <1>1, <1>9, <2>2, GrownFacts DEF Inv, ReadInv, Found
  <2>4. QED
    BY <2>1, <2>3 DEF ReadInv
<1>14. QED
  BY <1>8, <1>10, <1>12, <1>13 DEF Inv

-----------------------------------------------------------------------------
(* The steps of a reader.                                                  *)

\* A nonempty set of natural numbers has a least element.
LEMMA SomeLeast ==
  ASSUME NEW T \in SUBSET Nat, T # {}
  PROVE  \E x \in T : \A y \in T : x <= y
<1> DEFINE Less == {p \in Nat \X Nat : p[1] < p[2]}
<1>1. IsWellFoundedOn(Less, Nat)
  BY NatLessThanWellFounded DEF OpToRel
<1>2. PICK x \in T : \A y \in T : ~ (<<y, x>> \in Less)
  BY <1>1, WFMin
<1>3. \A y \in T : ~ (y < x)
  BY <1>2
<1>4. QED
  BY <1>3

\* Max yields an element of a nonempty set of naturals with a bound.
LEMMA MaxIsThere ==
  ASSUME NEW n \in Nat, NEW S \in SUBSET (0..n), S # {}
  PROVE  Max(S) \in S
<1> DEFINE T == {n - d : d \in S}
<1>0. \A d \in S : n - d \in Nat
  OBVIOUS
<1>1. T \in SUBSET Nat /\ T # {}
  BY <1>0
<1>2. PICK x \in T : \A y \in T : x <= y
  BY <1>1, SomeLeast
<1>3. PICK m \in S : x = n - m
  OBVIOUS
<1>4. \A d \in S : m >= d
  <2>1. SUFFICES ASSUME NEW d \in S PROVE m >= d
    OBVIOUS
  <2>2. n - m <= n - d
    BY <1>2, <1>3
  <2>3. QED
    BY <2>2
<1>5. QED
  BY <1>4 DEF Max

LEMMA MaxOfDates ==
  ASSUME ConstantsAssumption, NEW S \in SUBSET (Dates \cup {NoDate}), S # {}
  PROVE  Max(S) \in S
<1>1. PICK last \in Dates : \A d \in Dates : d <= last
  BY DEF ConstantsAssumption
<1>2. S \in SUBSET (0..last) /\ last \in Nat
  BY <1>1 DEF ConstantsAssumption, NoDate
<1>3. QED
  BY <1>2, MaxIsThere

LEMMA LatestFacts ==
  ASSUME ConstantsAssumption, NEW list
  PROVE  /\ Latest(list) \in Dates \cup {NoDate}
         /\ Latest(list) \in Dates => List(list, rows[Latest(list)]) # {}
<1> DEFINE S == {d \in Dates : List(list, rows[d]) # {}} \cup {NoDate}
<1>1. Max(S) \in S
  BY MaxOfDates
<1>2. NoDate \notin Dates
  BY DEF ConstantsAssumption, NoDate
<1>3. QED
  BY <1>1, <1>2 DEF Latest

LEMMA ResolvedFacts ==
  ASSUME ConstantsAssumption, Inv, NEW r \in Readers, readers[r].ask # "nothing", Resolved(r)
  PROVE  ResolvedAsOf(r) \in Dates \cup {NoDate}
<1>1. readers[r] \in Reader
  BY DEF Inv, TypeOK
<1>2. Asked(r) # {} /\ Asked(r) \subseteq ListNames
  BY <1>1 DEF Asked, Reader, ListNames
<1>3. \A list \in Asked(r) : readers[r].latest[list] \in Dates \cup {NoDate}
  BY <1>1, <1>2 DEF Resolved, Reader, ListNames
<1> DEFINE S == {readers[r].latest[list] : list \in Asked(r)}
<1>4. S \in SUBSET (Dates \cup {NoDate}) /\ S # {}
  BY <1>2, <1>3
<1>5. ResolvedAsOf(r) = Max(S)
  BY DEF ResolvedAsOf
<1> HIDE DEF S
<1>6. Max(S) \in S
  BY <1>4, MaxOfDates
<1>7. QED
  BY <1>4, <1>5, <1>6

\* A step of one reader leaves the tables alone.
LEMMA ReaderMoves ==
  ASSUME Inv, NEW r \in Readers, readers' \in [Readers -> Reader],
         \A q \in Readers \ {r} : readers'[q] = readers[q],
         UNCHANGED <<rows, written, txs>>, Found(r)', Read(r)'
  PROVE  Inv'
<1>1. TypeOK'
  BY DEF Inv, TypeOK
<1>2. RowInv'
  BY RowsKept DEF Inv
<1>3. TxInv'
  BY FitKept, ApartKept DEF Inv, TxInv
<1>4. \A q \in Readers \ {r} : Found(q)' /\ Read(q)'
  BY ReadGrown DEF Inv, ReadInv, Found, Grown, HaveHoldings, Ranks
<1>5. QED
  BY <1>1, <1>2, <1>3, <1>4 DEF Inv, ReadInv

\* A reader that has looked at nothing.
LEMMA AskStep ==
  ASSUME ConstantsAssumption, Inv, NEW r \in Readers, Ask(r)
  PROVE  Inv'
<1>1. PICK ask \in {"snapshot", "holdings", "allocations"} :
        readers' = [readers EXCEPT ![r].ask = ask]
  BY DEF Ask
<1>2. readers[r] = Quiet /\ readers \in [Readers -> Reader] /\ UNCHANGED <<rows, written, txs>>
  BY DEF Ask, Inv, TypeOK
<1>3. /\ readers' \in [Readers -> Reader] /\ \A q \in Readers \ {r} : readers'[q] = readers[q]
      /\ readers'[r].latest = Quiet.latest /\ readers'[r].read = Quiet.read
  BY <1>1, <1>2 DEF Reader
<1>4. \A list \in ListNames : readers'[r].latest[list] = -1 /\ readers'[r].read[list] = NotRead
  BY <1>3 DEF Quiet, ListNames
<1>5. Found(r)' /\ Read(r)'
  BY <1>4 DEF Found, Read, ConstantsAssumption
<1>6. QED
  BY <1>2, <1>3, <1>5, ReaderMoves

LEMMA RespondStep ==
  ASSUME ConstantsAssumption, Inv, NEW r \in Readers, Respond(r)
  PROVE  Inv'
<1>1. Quiet \in Reader
  <2>1. NotRead \in Seq(SUBSET Row)
    BY DEF NotRead
  <2>2. QED
    BY <2>1 DEF Quiet, Reader
<1>2. /\ readers' \in [Readers -> Reader] /\ \A q \in Readers \ {r} : readers'[q] = readers[q]
      /\ readers'[r] = Quiet /\ UNCHANGED <<rows, written, txs>>
  BY <1>1 DEF Respond, Inv, TypeOK
<1>3. \A list \in ListNames : readers'[r].latest[list] = -1 /\ readers'[r].read[list] = NotRead
  BY <1>2 DEF Quiet, ListNames
<1>4. Found(r)' /\ Read(r)'
  BY <1>3 DEF Found, Read, ConstantsAssumption
<1>5. QED
  BY <1>2, <1>4, ReaderMoves

\* A latest date is looked up before any row is read, and has rows, which are
\* replaced but never removed while every import has some.
LEMMA FindLatestStep ==
  ASSUME ConstantsAssumption, Inv, NEW r \in Readers, FindLatest(r)
  PROVE  Inv'
<1>1. PICK list \in Asked(r) :
        /\ readers[r].latest[list] = -1
        /\ readers' = [readers EXCEPT ![r].latest[list] = Latest(list)]
  BY DEF FindLatest
<1>2. /\ readers[r].ask # "nothing" /\ UNCHANGED <<rows, written, txs>>
      /\ readers \in [Readers -> Reader] /\ readers[r] \in Reader
  BY DEF FindLatest, Inv, TypeOK
<1>3. list \in ListNames /\ Asked(r) \subseteq ListNames
  BY <1>1, <1>2 DEF Asked, Reader, ListNames
<1> DEFINE v == Latest(list)
<1>4. v \in Dates \cup {NoDate} /\ (v \in Dates => rows[v] # {})
  BY LatestFacts DEF List, Holdings, Allocations
<1>5. readers' = [readers EXCEPT ![r].latest[list] = v]
  BY <1>1
<1> HIDE DEF v
<1>6. /\ readers' \in [Readers -> Reader] /\ \A q \in Readers \ {r} : readers'[q] = readers[q]
      /\ readers'[r].read = readers[r].read
      /\ readers'[r].latest[list] = v
      /\ \A l \in ListNames \ {list} : readers'[r].latest[l] = readers[r].latest[l]
  BY <1>2, <1>3, <1>4, <1>5 DEF Reader, ListNames
<1>7. \A l \in ListNames : readers[r].read[l] = NotRead
  BY <1>1, <1>2 DEF Inv, ReadInv, Read, Resolved
<1>8. Read(r)'
  BY <1>6, <1>7 DEF Read
<1>9. Found(r)'
  BY <1>2, <1>3, <1>4, <1>6 DEF Inv, ReadInv, Found, HaveHoldings, Ranks
<1>10. QED
  BY <1>2, <1>6, <1>8, <1>9, ReaderMoves

LEMMA FindRowsStep ==
  ASSUME ConstantsAssumption, Inv, NEW r \in Readers, FindRows(r)
  PROVE  Inv'
<1>1. PICK list \in Asked(r) :
        readers' = [readers EXCEPT ![r].read[list] = <<List(list, rows[ResolvedAsOf(r)])>>]
  BY DEF FindRows
<1>2. /\ readers[r].ask # "nothing" /\ Resolved(r) /\ ResolvedAsOf(r) # NoDate
      /\ UNCHANGED <<rows, written, txs>>
      /\ readers \in [Readers -> Reader] /\ readers[r] \in Reader
  BY DEF FindRows, Inv, TypeOK
<1>3. list \in ListNames
  BY <1>1, <1>2 DEF Asked, Reader, ListNames
<1> DEFINE date == ResolvedAsOf(r)
           v == <<List(list, rows[date])>>
<1>4. date \in Dates
  BY <1>2, ResolvedFacts
<1>5. v \in Seq(SUBSET Row)
  <2>1. List(list, rows[date]) \in SUBSET Row
    BY <1>4 DEF Inv, TypeOK, List, Holdings, Allocations
  <2>2. QED
    BY <2>1
<1>6. readers' = [readers EXCEPT ![r].read[list] = v]
  BY <1>1
<1>7. HaveHoldings(date) =>
        \/ \E n \in DOMAIN written : Of(n, date) /\ v = <<List(list, RowsOf(n))>>
        \/ v = <<{}>> /\ readers[r].latest[list] # date
  <2>1. HAVE HaveHoldings(date)
  <2>2. CASE rows[date] = {}
    <3>1. readers[r].latest[list] # date
      BY <1>3, <1>4, <2>1, <2>2 DEF Inv, ReadInv, Found
    <3>2. v = <<{}>>
      BY <2>2 DEF List, Holdings, Allocations
    <3>3. QED
      BY <3>1, <3>2
  <2>3. CASE rows[date] # {}
    BY <1>4, <2>1, <2>3 DEF Inv, RowInv, OneImport
  <2>4. QED
    BY <2>2, <2>3
<1> HIDE DEF v
<1>8. /\ readers' \in [Readers -> Reader] /\ \A q \in Readers \ {r} : readers'[q] = readers[q]
      /\ readers'[r].latest = readers[r].latest /\ readers'[r].ask = readers[r].ask
      /\ readers'[r].read[list] = v
      /\ \A l \in ListNames \ {list} : readers'[r].read[l] = readers[r].read[l]
  BY <1>2, <1>3, <1>5, <1>6 DEF Reader, ListNames
<1>9. ResolvedAsOf(r)' = date /\ Resolved(r)'
  BY <1>2, <1>8 DEF Resolved, ResolvedAsOf, Asked
<1> HIDE DEF date
<1>10. Read(r)'
  <2>1. SUFFICES ASSUME NEW l \in ListNames, readers'[r].read[l] # NotRead,
                        HaveHoldings(date)
                 PROVE  ListFits(r, l)'
    BY <1>2, <1>8, <1>9 DEF Read, HaveHoldings, Ranks
  <2>2. CASE l = list
    BY <1>2, <1>7, <1>8, <1>9, <2>1, <2>2 DEF ListFits, Of, RowsOf, List, Holdings, Allocations, Ranks
  <2>3. CASE l # list
    <3>1. ListFits(r, l)
      BY <1>8, <2>1, <2>3 DEF Inv, ReadInv, Read, date
    <3>2. QED
      BY <1>2, <1>8, <1>9, <2>3, <3>1 DEF ListFits, Of, RowsOf, List, Holdings, Allocations, Ranks,
         date
  <2>4. QED
    BY <2>2, <2>3
<1>11. Found(r)'
  BY <1>2, <1>8 DEF Inv, ReadInv, Found, HaveHoldings, Ranks
<1>12. QED
  BY <1>2, <1>8, <1>10, <1>11, ReaderMoves

-----------------------------------------------------------------------------
LEMMA InitInv == ASSUME ConstantsAssumption, Init PROVE Inv
<1>1. TypeOK
  <2>1. Quiet \in Reader
    <3>1. NotRead \in Seq(SUBSET Row)
      BY DEF NotRead
    <3>2. QED
      BY <3>1 DEF Quiet, Reader
  <2>2. written \in Seq([date : Dates, keys : SUBSET Keys]) /\ Len(written) <= MaxImports
    BY DEF Init, ConstantsAssumption
  <2>3. QED
    BY <2>1, <2>2, IdleTyped DEF Init, TypeOK
<1>2. RowInv
  BY DEF Init, RowInv, WrittenFit, OneImport
<1>3. TxInv
  BY IdleFits DEF Init, TxInv
<1>4. ReadInv
  <2>1. \A r \in Readers : \A list \in ListNames :
          readers[r].latest[list] = -1 /\ readers[r].read[list] = NotRead
    BY DEF Init, Quiet, ListNames
  <2>2. QED
    BY <2>1 DEF ReadInv, Found, Read, ConstantsAssumption
<1>5. QED
  BY <1>1, <1>2, <1>3, <1>4 DEF Inv

LEMMA StutterInv == ASSUME Inv, UNCHANGED vars PROVE Inv'
<1>1. UNCHANGED <<rows, written, txs, readers>>
  BY DEF vars
<1>2. TypeOK' /\ RowInv' /\ ReadInv'
  BY <1>1, RowsKept, ReadsKept DEF Inv, TypeOK
<1>3. TxInv'
  BY <1>1, FitKept, ApartKept DEF Inv, TxInv
<1>4. QED
  BY <1>2, <1>3 DEF Inv

LEMMA NextInv == ASSUME ConstantsAssumption, Inv, [Next]_vars PROVE Inv'
<1>1. ASSUME NEW i \in Importers,
             \/ Fetch(i) \/ DeleteHoldings(i) \/ StartDeletingAllocations(i) \/ DeleteAllocations(i)
             \/ InsertHoldings(i) \/ InsertAllocations(i) \/ Commit(i) \/ Rollback(i)
      PROVE  Inv'
  BY <1>1, FetchStep, DeleteHoldingsStep, StartDeletingAllocationsStep, DeleteAllocationsStep,
     InsertHoldingsStep, InsertAllocationsStep, CommitStep, RollbackStep
<1>2. ASSUME NEW r \in Readers, Ask(r) \/ FindLatest(r) \/ FindRows(r) \/ Respond(r)
      PROVE  Inv'
  BY <1>2, AskStep, FindLatestStep, FindRowsStep, RespondStep
<1>3. QED
  BY <1>1, <1>2, StutterInv DEF Next

\* The invariant of FundComposition.
LEMMA Invariance == ASSUME ConstantsAssumption PROVE Spec => []Inv
<1>1. Init => Inv
  BY InitInv
<1>2. Inv /\ [Next]_vars => Inv'
  BY NextInv
<1>3. QED
  BY <1>1, <1>2, PTL DEF Spec

\* Every variable of FundComposition has its type, for all importers, readers,
\* dates, ranks and labels.
THEOREM TypeSafe == ASSUME ConstantsAssumption PROVE Spec => []TypeOK
<1>1. Inv => TypeOK
  BY DEF Inv
<1>2. QED
  BY <1>1, Invariance, PTL

\* However the four statements of replaceSnapshot of any number of imports
\* interleave at READ COMMITTED, the rows of a date are those of one import,
\* as long as all imports of the date have holdings.
THEOREM OneImportOnly == ASSUME ConstantsAssumption PROVE Spec => []SnapshotIsOneImport
<1>1. Inv => SnapshotIsOneImport
  BY DEF Inv, RowInv, OneImport, Of, RowsOf, SnapshotIsOneImport
<1>2. QED
  BY <1>1, Invariance, PTL

\* A list that findSnapshot or one of the other reads has read is the whole
\* list of one import, or is empty because the date is the other table's latest.
THEOREM ListsWhole == ASSUME ConstantsAssumption PROVE Spec => []ReadListsAreWhole
<1>1. Inv => ReadListsAreWhole
  <2>1. SUFFICES ASSUME Inv, NEW r \in Readers, NEW list \in ListNames,
                        readers[r].read[list] # NotRead, HaveHoldings(ResolvedAsOf(r))
                 PROVE  LET date == ResolvedAsOf(r)
                            read == Head(readers[r].read[list])
                        IN  \/ \E n \in DOMAIN written :
                                 /\ written[n].date = date
                                 /\ read = List(list, RowsOf(n))
                            \/ read = {} /\ readers[r].latest[list] # date
    BY DEF ReadListsAreWhole, ListNames
  <2>2. ListFits(r, list)
    BY <2>1 DEF Inv, ReadInv, Read
  <2>3. QED
    BY <2>2 DEF ListFits, Of, RowsOf
<1>2. QED
  BY <1>1, Invariance, PTL

-----------------------------------------------------------------------------
(* Imports as a reader of the store should see them.                       *)

\* Unfinished imports have numbers of their own.
NumbersDiffer ==
  \A i \in Importers : \A o \in Importers \ {i} :
    txs[i].at # "idle" /\ txs[o].at # "idle" => txs[i].id # txs[o].id

\* NumberOf and RowsOf, of any history of imports.
RowsIn(w, n) == {[key |-> k, by |-> n] : k \in w[n].keys}
NumberIn(w, S) ==
  IF S = {} THEN 0
  ELSE IF \E n \in DOMAIN w : S = RowsIn(w, n)
  THEN CHOOSE n \in DOMAIN w : S = RowsIn(w, n) ELSE -2

\* The rows of an import tell its number.
LEMMA RowsTell ==
  ASSUME NEW w, NEW n \in DOMAIN w, w[n].keys # {}
  PROVE  NumberIn(w, RowsIn(w, n)) = n /\ RowsIn(w, n) # {}
<1>1. PICK k \in w[n].keys : TRUE
  OBVIOUS
<1>2. [key |-> k, by |-> n] \in RowsIn(w, n)
  BY <1>1 DEF RowsIn
<1>3. ASSUME NEW m \in DOMAIN w, RowsIn(w, n) = RowsIn(w, m) PROVE m = n
  <2>1. PICK l \in w[m].keys : [key |-> k, by |-> n] = [key |-> l, by |-> m]
    BY <1>2, <1>3 DEF RowsIn
  <2>2. QED
    BY <2>1
<1>4. QED
  BY <1>2, <1>3 DEF NumberIn

LEMMA ShownIs ==
  ASSUME NEW d \in Dates
  PROVE  /\ Shown[d] = IF HaveHoldings(d) THEN NumberIn(written, rows[d]) ELSE -1
         /\ Shown'[d] = IF HaveHoldings(d)' THEN NumberIn(written', rows'[d]) ELSE -1
<1>1. \A n : RowsOf(n) = RowsIn(written, n)
  BY DEF RowsOf, RowsIn
<1>2. Shown = [e \in Dates |-> IF HaveHoldings(e) THEN NumberIn(written, rows[e]) ELSE -1]
  BY <1>1 DEF Shown, NumberOf, NumberIn
<1>3. \A n : RowsOf(n)' = RowsIn(written', n)
  BY DEF RowsOf, RowsIn
<1>4. Shown' = [e \in Dates |-> IF HaveHoldings(e)' THEN NumberIn(written', rows'[e]) ELSE -1]
  BY <1>3 DEF Shown, NumberOf, NumberIn
<1>5. QED
  BY <1>2, <1>4

\* What a date shows while nothing of it is replaced and all its imports have
\* holdings.
LEMMA ShownKept ==
  ASSUME ConstantsAssumption, Inv, Grown, NEW d \in Dates, rows'[d] = rows[d],
         HaveHoldings(d) <=> HaveHoldings(d)'
  PROVE  Shown'[d] = Shown[d]
<1>1. CASE ~HaveHoldings(d)
  BY <1>1, ShownIs
<1>2. CASE HaveHoldings(d) /\ rows[d] = {}
  BY <1>2, ShownIs DEF NumberIn
<1>3. CASE HaveHoldings(d) /\ rows[d] # {}
  <2>1. PICK n \in DOMAIN written : Of(n, d) /\ rows[d] = RowsOf(n)
    BY <1>3 DEF Inv, RowInv, OneImport
  <2>2. written[n].keys # {} /\ n \in DOMAIN written' /\ written'[n] = written[n]
    BY <1>3, <2>1 DEF HaveHoldings, Of, Grown
  <2>3. rows[d] = RowsIn(written, n) /\ rows[d] = RowsIn(written', n)
    BY <2>1, <2>2 DEF RowsOf, RowsIn
  <2>4. NumberIn(written, rows[d]) = n
    BY <2>2, <2>3, RowsTell
  <2>5. NumberIn(written', rows[d]) = n
    BY <2>2, <2>3, RowsTell
  <2>6. QED
    BY <1>3, <2>4, <2>5, ShownIs
<1>4. QED
  BY <1>1, <1>2, <1>3

\* Numbers of imports are no other marks.
LEMMA ShownIsNumber ==
  ASSUME ConstantsAssumption, Inv, NEW d \in Dates, HaveHoldings(d)
  PROVE  Shown[d] # -1
<1>1. CASE rows[d] = {}
  BY <1>1, ShownIs DEF NumberIn
<1>2. CASE rows[d] # {}
  <2>1. PICK n \in DOMAIN written : Of(n, d) /\ rows[d] = RowsOf(n)
    BY <1>2 DEF Inv, RowInv, OneImport
  <2>2. rows[d] = RowsIn(written, n) /\ written[n].keys # {}
    BY <2>1 DEF RowsOf, RowsIn, HaveHoldings, Of
  <2>3. Shown[d] = n
    BY <2>2, RowsTell, ShownIs
  <2>4. n \in Nat
    BY <2>1 DEF Inv, TypeOK
  <2>5. QED
    BY <2>3, <2>4
<1>3. QED
  BY <1>1, <1>2

\* A statement but the last leaves the store, and the number of its import.
Statement(i) ==
  \/ DeleteHoldings(i) \/ StartDeletingAllocations(i) \/ DeleteAllocations(i)
  \/ InsertHoldings(i) \/ InsertAllocations(i)

LEMMA StatementKeeps ==
  ASSUME Inv, NEW i \in Importers, Statement(i)
  PROVE  /\ txs[i].at # "idle" /\ txs'[i].at # "idle" /\ txs'[i].id = txs[i].id
         /\ \A o \in Importers \ {i} : txs'[o] = txs[o]
         /\ UNCHANGED <<rows, written>>
<1>1. txs[i] \in Tx /\ txs \in [Importers -> Tx]
  BY DEF Inv, TypeOK
<1>2. CASE DeleteHoldings(i) \/ DeleteAllocations(i)
  <2>1. PICK at \in {"deleteAllocations", "insertHoldings"} :
          txs' = [txs EXCEPT ![i] = [Deletes(i) EXCEPT !.at = at]]
    BY <1>2 DEF DeleteHoldings, DeleteAllocations
  <2>2. Deletes(i).id = txs[i].id /\ DOMAIN Deletes(i) = DOMAIN txs[i]
    BY <1>1 DEF Deletes, Tx
  <2>3. txs'[i] = [Deletes(i) EXCEPT !.at = at]
    BY <1>1, <2>1
  <2>4. txs'[i].at = at /\ txs'[i].id = txs[i].id
    BY <1>1, <2>2, <2>3 DEF Tx
  <2>5. QED
    BY <1>1, <1>2, <2>1, <2>4 DEF DeleteHoldings, DeleteAllocations
<1>3. CASE StartDeletingAllocations(i)
  BY <1>1, <1>3 DEF StartDeletingAllocations, Tx
<1>4. CASE InsertHoldings(i) \/ InsertAllocations(i)
  <2>1. \E next \in {"insertAllocations", "commit"} : \E c :
          /\ txs' = [txs EXCEPT ![i].at = next, ![i].added = c]
          /\ UNCHANGED <<rows, written>> /\ txs[i].at # "idle"
    BY <1>4 DEF InsertHoldings, InsertAllocations, Inserts
  <2>2. QED
    BY <1>1, <2>1 DEF Tx
<1>5. QED
  BY <1>2, <1>3, <1>4 DEF Statement

LEMMA UnfinishedIs ==
  /\ \A n : n \in Unfinished <=> \E i \in Importers : txs[i].at # "idle" /\ txs[i].id = n
  /\ \A n : n \in Unfinished' <=> \E i \in Importers : txs'[i].at # "idle" /\ txs'[i].id = n
BY DEF Unfinished

\* An import that has begun.
LEMMA FetchIsImport ==
  ASSUME ConstantsAssumption, Inv, Inv', NumbersDiffer, NEW i \in Importers, Fetch(i)
  PROVE  NumbersDiffer' /\ Store!Next
<1>1. PICK date \in Dates, last \in 0..MaxRank, labels \in SUBSET Labels, repeated \in BOOLEAN :
        /\ written' = Append(written, [date |-> date, keys |-> (1..last) \cup labels])
        /\ txs' = [txs EXCEPT ![i] =
             [at |-> "deletingHoldings", id |-> Len(written) + 1, date |-> date,
              keys |-> (1..last) \cup labels, repeated |-> repeated,
              targets |-> Holdings(rows[date]), gone |-> {}, added |-> {}]]
        /\ UNCHANGED rows /\ txs[i] = Idle
  BY DEF Fetch
<1> DEFINE keys == (1..last) \cup labels
           n == Len(written) + 1
           import == [date |-> date, keys |-> keys]
<1>2. keys \in SUBSET Keys
  BY <1>1 DEF Keys, Ranks, ConstantsAssumption
<1> HIDE DEF keys
<1>3. /\ txs'[i].at # "idle" /\ txs'[i].id = n /\ txs[i].at = "idle"
      /\ \A o \in Importers \ {i} : txs'[o] = txs[o]
  BY <1>1 DEF Inv, TypeOK, Idle
<1>4. /\ DOMAIN written = 1..Len(written) /\ Len(written) \in Nat
      /\ written \in Seq([date : Dates, keys : SUBSET Keys])
  BY DEF Inv, TypeOK
<1>5. import \in [date : Dates, keys : SUBSET Keys] /\ import.date = date /\ import.keys = keys
  BY <1>2
<1>6. /\ written' = Append(written, import) /\ DOMAIN written' = DOMAIN written \cup {n}
      /\ written'[n] = import /\ n \notin DOMAIN written /\ Grown
  <2>1. written' = Append(written, import)
    BY <1>1 DEF keys
  <2> HIDE DEF import
  <2>2. QED
    BY <1>4, <1>5, <2>1 DEF Grown
<1>7. \A o \in Importers \ {i} : txs[o].at # "idle" => txs[o].id \in DOMAIN written
  BY DEF Inv, TxInv, Fit, Known
<1>8. NumbersDiffer'
  BY <1>3, <1>6, <1>7 DEF NumbersDiffer
<1>9. Unfinished' = Unfinished \cup {n}
  BY <1>3, UnfinishedIs
<1>10. ASSUME NEW d \in Dates
       PROVE  HaveHoldings(d)' <=> HaveHoldings(d) /\ (d = date => keys \cap Ranks # {})
  BY <1>5, <1>6 DEF HaveHoldings, Grown, Ranks
<1>11. ASSUME NEW d \in Dates, d # date \/ keys \cap Ranks # {} PROVE Shown'[d] = Shown[d]
  BY <1>1, <1>6, <1>10, <1>11, ShownKept
<1>12. keys \cap Ranks = {} => Shown'[date] = -1
  BY <1>10, ShownIs
<1>13. Shown' = IF keys \cap Ranks = {} THEN [Shown EXCEPT ![date] = -1] ELSE Shown
  <2>1. /\ Shown = [d \in Dates |-> Shown[d]]
        /\ Shown' = [d \in Dates |-> Shown'[d]]
    BY DEF Shown
  <2> HIDE DEF keys
  <2>2. CASE keys \cap Ranks = {}
    BY <1>11, <1>12, <2>1, <2>2
  <2>3. CASE keys \cap Ranks # {}
    BY <1>11, <2>1, <2>3
  <2>4. QED
    BY <2>2, <2>3
<1>14. Store!Import(date, keys)
  BY <1>6, <1>9, <1>13 DEF Store!Import, Store!Anybody
<1>15. QED
  BY <1>1, <1>2, <1>8, <1>14 DEF Store!Next

\* A commit replaces, a rollback gives up.
LEMMA EndIsEnd ==
  ASSUME ConstantsAssumption, Inv, Inv', NumbersDiffer, NEW i \in Importers,
         Commit(i) \/ Rollback(i)
  PROVE  NumbersDiffer' /\ Store!Next
<1> DEFINE date == txs[i].date
           n == txs[i].id
<1>1. txs[i].at # "idle" /\ txs' = [txs EXCEPT ![i] = Idle] /\ UNCHANGED written
  BY DEF Commit, Rollback
<1>2. txs'[i].at = "idle" /\ \A o \in Importers \ {i} : txs'[o] = txs[o]
  BY <1>1 DEF Inv, TypeOK, Idle
<1>3. NumbersDiffer'
  BY <1>2 DEF NumbersDiffer
<1>4. n \in Unfinished /\ Unfinished' = Unfinished \ {n}
  BY <1>1, <1>2, UnfinishedIs DEF NumbersDiffer
<1>5. date \in Dates /\ n \in DOMAIN written /\ written[n].date = date
  BY <1>1, ImportFacts
<1>6. Grown /\ \A d \in Dates : HaveHoldings(d)' <=> HaveHoldings(d)
  BY <1>1 DEF Grown, HaveHoldings, Ranks
<1>7. /\ Shown = [d \in Dates |-> Shown[d]]
      /\ Shown' = [d \in Dates |-> Shown'[d]]
  BY DEF Shown
<1>8. CASE Commit(i)
  <2>1. rows' = [rows EXCEPT ![date] = (rows[date] \ txs[i].gone) \cup txs[i].added]
        /\ txs[i].at = "commit"
    BY <1>8 DEF Commit
  <2>2. \A d \in Dates \ {date} : rows'[d] = rows[d]
    BY <2>1 DEF Inv, TypeOK
  <2>3. \A d \in Dates \ {date} : Shown'[d] = Shown[d]
    BY <1>6, <2>2, ShownKept
  <2>4. HaveHoldings(date) => Shown'[date] = n /\ Shown[date] # -1
    <3>1. HAVE HaveHoldings(date)
    <3>2. txs[i].added = RowsOf(n) /\ rows[date] \subseteq txs[i].gone
      BY <2>1, <3>1 DEF Inv, TxInv, Fit, Added, Whole, Late
    <3>3. rows'[date] = RowsOf(n)
      BY <1>5, <2>1, <3>2 DEF Inv, TypeOK
    <3>4. rows'[date] = RowsIn(written', n) /\ n \in DOMAIN written' /\ written'[n].keys # {}
      BY <1>1, <1>5, <3>1, <3>3 DEF RowsOf, RowsIn, HaveHoldings
    <3>5. Shown'[date] = n
      BY <1>5, <1>6, <3>1, <3>4, RowsTell, ShownIs
    <3>6. QED
      BY <1>5, <3>1, <3>5, ShownIsNumber
  <2>5. ~HaveHoldings(date) => Shown'[date] = -1 /\ Shown[date] = -1
    BY <1>5, <1>6, ShownIs
  <2>6. Shown' = [Shown EXCEPT ![date] = IF @ = -1 THEN -1 ELSE n]
    BY <1>5, <1>7, <2>3, <2>4, <2>5
  <2>7. Store!Replace(n)
    BY <1>1, <1>4, <1>5, <2>6 DEF Store!Replace, Store!Anybody
  <2>8. QED
    BY <1>3, <1>4, <2>7 DEF Store!Next
<1>9. CASE Rollback(i)
  <2>1. UNCHANGED rows
    BY <1>9 DEF Rollback
  <2>2. \A d \in Dates : Shown'[d] = Shown[d]
    BY <1>6, <2>1, ShownKept
  <2>3. Shown' = Shown
    BY <1>7, <2>2
  <2>4. Store!GiveUp(n)
    BY <1>1, <1>4, <2>3 DEF Store!GiveUp
  <2>5. QED
    BY <1>3, <1>4, <2>4 DEF Store!Next
<1>10. QED
  BY <1>8, <1>9

\* Nothing else is seen.
LEMMA RestStutters ==
  ASSUME ConstantsAssumption, Inv, NumbersDiffer,
         \/ \E i \in Importers : Statement(i)
         \/ UNCHANGED <<rows, written, txs>>
  PROVE  NumbersDiffer' /\ UNCHANGED Store!storeVars
<1>1. UNCHANGED <<rows, written>> /\ NumbersDiffer' /\ Unfinished' = Unfinished
  <2>1. ASSUME NEW i \in Importers, Statement(i)
        PROVE  UNCHANGED <<rows, written>> /\ NumbersDiffer' /\ Unfinished' = Unfinished
    <3>1. /\ txs[i].at # "idle" /\ txs'[i].at # "idle" /\ txs'[i].id = txs[i].id
          /\ \A o \in Importers \ {i} : txs'[o] = txs[o]
          /\ UNCHANGED <<rows, written>>
      BY <2>1, StatementKeeps
    <3>2. NumbersDiffer'
      BY <3>1 DEF NumbersDiffer
    <3>3. Unfinished' = Unfinished
      <4>1. ASSUME NEW o \in Importers
            PROVE  (txs'[o].at # "idle" <=> txs[o].at # "idle") /\ txs'[o].id = txs[o].id
        BY <3>1
      <4>2. ASSUME NEW n PROVE n \in Unfinished' <=> n \in Unfinished
        <5> DEFINE open(o) == txs[o].at # "idle" /\ txs[o].id = n
                   after(o) == txs'[o].at # "idle" /\ txs'[o].id = n
        <5>1. \A o \in Importers : after(o) <=> open(o)
          BY <4>1
        <5>2. n \in Unfinished <=> \E o \in Importers : open(o)
          BY UnfinishedIs
        <5>3. n \in Unfinished' <=> \E o \in Importers : after(o)
          BY UnfinishedIs
        <5> HIDE DEF open, after
        <5>4. QED
          BY <5>1, <5>2, <5>3
      <4>3. QED
        BY <4>2
    <3>4. QED
      BY <3>1, <3>2, <3>3
  <2>2. ASSUME UNCHANGED <<rows, written, txs>>
        PROVE  NumbersDiffer' /\ Unfinished' = Unfinished
    BY <2>2 DEF NumbersDiffer, Unfinished
  <2>3. QED
    BY <2>1, <2>2
<1>2. Shown' = Shown
  BY <1>1 DEF Shown, HaveHoldings, NumberOf, RowsOf, Ranks
<1>3. QED
  BY <1>1, <1>2 DEF Store!storeVars

\* However the statements of any number of overlapping imports interleave, and
\* whichever of them roll back, replaceSnapshot is atomic to its readers: the rows
\* of a date change only by all the rows of one import taking the place of all of
\* them, once per import at most.
THEOREM StoreImplemented ==
  ASSUME ConstantsAssumption
  PROVE  Spec => ImportsReplaceSnapshots
<1>1. Init => Store!Init /\ NumbersDiffer
  <2> SUFFICES ASSUME Init PROVE Store!Init /\ NumbersDiffer
    OBVIOUS
  <2>1. \A i \in Importers : txs[i].at = "idle"
    BY DEF Init, Idle
  <2>2. NumbersDiffer /\ Unfinished = {}
    BY <2>1, UnfinishedIs DEF NumbersDiffer
  <2>3. written = <<>> /\ \A d \in Dates : rows[d] = {}
    BY DEF Init
  <2>4. Shown = [d \in Dates |-> 0]
    BY <2>3 DEF Shown, HaveHoldings, NumberOf
  <2>5. QED
    BY <2>2, <2>3, <2>4 DEF Store!Init, Store!Nobody
<1>2. Inv /\ Inv' /\ NumbersDiffer /\ [Next]_vars
        => NumbersDiffer' /\ [Store!Next]_(Store!storeVars)
  <2> SUFFICES ASSUME Inv, Inv', NumbersDiffer, [Next]_vars
               PROVE  NumbersDiffer' /\ [Store!Next]_(Store!storeVars)
    OBVIOUS
  <2>1. CASE \E i \in Importers : Fetch(i)
    BY <2>1, FetchIsImport
  <2>2. CASE \E i \in Importers : Commit(i) \/ Rollback(i)
    BY <2>2, EndIsEnd
  <2>3. CASE \E i \in Importers : Statement(i)
    BY <2>3, RestStutters
  <2>4. CASE UNCHANGED vars \/ \E r \in Readers : Ask(r) \/ FindLatest(r) \/ FindRows(r) \/ Respond(r)
    <3>1. UNCHANGED <<rows, written, txs>>
      BY <2>4 DEF vars, Ask, FindLatest, FindRows, Respond
    <3>2. QED
      BY <3>1, RestStutters
  <2>5. QED
    BY <2>1, <2>2, <2>3, <2>4 DEF Next, Statement
<1>3. QED
  BY <1>1, <1>2, Invariance, PTL DEF Spec, ImportsReplaceSnapshots, Store!Spec
===============================================================================
