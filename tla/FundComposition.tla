--------------------------- MODULE FundComposition ---------------------------
(***************************************************************************)
(* The composition of one fund: the holdings and allocation rows of its    *)
(* dated snapshots.  An import fetches a composition and replaces the      *)
(* snapshot of its date in one transaction of four statements; imports of  *)
(* overlapping syncs meet in the database, at READ COMMITTED, where only   *)
(* row locks and the two unique keys order them.  Readers look up the      *)
(* latest date and read the rows of that date in statements of their own.  *)
(*                                                                         *)
(* A row is its unique key within the date -- a rank, or the label of an   *)
(* allocation with its category -- and the import that wrote it.           *)
(***************************************************************************)
EXTENDS Integers, Sequences, FiniteSets, FiniteSetsExt

CONSTANTS Importers, Readers,
          Dates,       \* snapshot dates, numbers
          MaxRank,     \* bound on the holdings of a composition
          Labels,      \* categories and labels of allocations
          MaxImports   \* bound on the imports

\* What the constants are taken to be; asserted where they get their values.
ConstantsAssumption ==
  /\ Dates \subseteq Nat \ {0} /\ \E last \in Dates : \A d \in Dates : d <= last
  /\ MaxRank \in Nat /\ MaxImports \in Nat
  /\ Labels \cap Nat = {}

VARIABLES rows,      \* the committed rows of each date
          written,   \* history: the keys of each import, by its number
          txs, readers

vars == <<rows, written, txs, readers>>

Ranks == 1..MaxRank
Keys == Ranks \cup Labels
Row == [key : Keys, by : 1..MaxImports]
NoDate == 0

Idle == [at |-> "idle", id |-> 0, date |-> NoDate, keys |-> {}, repeated |-> FALSE,
         targets |-> {}, gone |-> {}, added |-> {}]
Tx == [at : {"idle", "deletingHoldings", "deleteAllocations", "deletingAllocations",
             "insertHoldings", "insertAllocations", "commit"},
       id : 0..MaxImports, date : Dates \cup {NoDate}, keys : SUBSET Keys,
       repeated : BOOLEAN, targets : SUBSET Row, gone : SUBSET Row, added : SUBSET Row]
\* What a reader asks for, and what it has read: a list, once it is read, as a
\* sequence of one.
NotRead == <<>>
Reader == [ask : {"nothing", "snapshot", "holdings", "allocations"},
           latest : [{"holdings", "allocations"} -> Dates \cup {NoDate, -1}],
           read : [{"holdings", "allocations"} -> Seq(SUBSET Row)]]
Quiet == [ask |-> "nothing", latest |-> [l \in {"holdings", "allocations"} |-> -1],
          read |-> [l \in {"holdings", "allocations"} |-> NotRead]]

\* Every variable has its type.
TypeOK ==
  /\ rows \in [Dates -> SUBSET Row]
  /\ written \in Seq([date : Dates, keys : SUBSET Keys]) /\ Len(written) <= MaxImports
  /\ txs \in [Importers -> Tx]
  /\ readers \in [Readers -> Reader]

Init ==
  /\ rows = [d \in Dates |-> {}]
  /\ written = <<>>
  /\ txs = [i \in Importers |-> Idle]
  /\ readers = [r \in Readers |-> Quiet]

Holdings(S) == {r \in S : r.key \in Ranks}
Allocations(S) == {r \in S : r.key \in Labels}
Others(i) == {o \in Importers \ {i} : txs[o].at # "idle" /\ txs[o].date = txs[i].date}

-----------------------------------------------------------------------------
(* Imports.                                                                *)

\* A composition has ranks without gaps, allocations from two endpoints, and
\* a label may come twice in it (nothing merges the rows of an endpoint).  The
\* first statement sees the rows committed when it starts.
Fetch(i) ==
  /\ txs[i] = Idle /\ Len(written) < MaxImports
  /\ \E date \in Dates, last \in 0..MaxRank, labels \in SUBSET Labels, repeated \in BOOLEAN :
       /\ repeated => labels # {}
       /\ written' = Append(written, [date |-> date, keys |-> (1..last) \cup labels])
       /\ txs' = [txs EXCEPT ![i] =
            [at |-> "deletingHoldings", id |-> Len(written) + 1, date |-> date,
             keys |-> (1..last) \cup labels, repeated |-> repeated,
             targets |-> Holdings(rows[date]), gone |-> {}, added |-> {}]]
  /\ UNCHANGED <<rows, readers>>

\* A DELETE waits for the transactions that deleted rows it saw; what they
\* inserted meanwhile it does not see.
Deletes(i) == [txs[i] EXCEPT !.gone = @ \cup (txs[i].targets \cap rows[txs[i].date]),
                             !.targets = {}]
NotLocked(i) == \A o \in Others(i) : txs[o].gone \cap txs[i].targets = {}

\* Mutant: the holdings are deleted outside the transaction.
DeleteHoldingsAtOnce(i) ==
  /\ txs[i].at = "deletingHoldings" /\ NotLocked(i)
  /\ rows' = [rows EXCEPT ![txs[i].date] = @ \ txs[i].targets]
  /\ txs' = [txs EXCEPT ![i].at = "deleteAllocations", ![i].targets = {}]
  /\ UNCHANGED <<written, readers>>

DeleteHoldings(i) ==
  /\ txs[i].at = "deletingHoldings" /\ NotLocked(i)
  /\ txs' = [txs EXCEPT ![i] = [Deletes(i) EXCEPT !.at = "deleteAllocations"]]
  /\ UNCHANGED <<rows, written, readers>>

StartDeletingAllocations(i) ==
  /\ txs[i].at = "deleteAllocations"
  /\ txs' = [txs EXCEPT ![i].at = "deletingAllocations",
                        ![i].targets = Allocations(rows[txs[i].date])]
  /\ UNCHANGED <<rows, written, readers>>

DeleteAllocations(i) ==
  /\ txs[i].at = "deletingAllocations" /\ NotLocked(i)
  /\ txs' = [txs EXCEPT ![i] = [Deletes(i) EXCEPT !.at = "insertHoldings"]]
  /\ UNCHANGED <<rows, written, readers>>

\* The unique keys: an INSERT waits for the transactions that hold one of its
\* keys, and fails on a key that is then taken.
KeysOf(S) == {r.key : r \in S}
Waits(i, keys) ==
  \E o \in Others(i) : keys \cap KeysOf(txs[o].added \cup txs[o].gone) # {}
\* Mutant: the unique keys are missing.
TakenByNobody(i, keys) == FALSE
Taken(i, keys) ==
  keys \cap KeysOf((rows[txs[i].date] \ txs[i].gone) \cup txs[i].added) # {}

Inserts(i, keys, next) ==
  /\ ~Waits(i, keys) /\ ~Taken(i, keys)
  /\ txs' = [txs EXCEPT ![i].at = next,
                        ![i].added = @ \cup {[key |-> k, by |-> txs[i].id] : k \in keys}]
  /\ UNCHANGED <<rows, written, readers>>

InsertHoldings(i) ==
  /\ txs[i].at = "insertHoldings"
  /\ Inserts(i, txs[i].keys \cap Ranks, "insertAllocations")

InsertAllocations(i) ==
  /\ txs[i].at = "insertAllocations" /\ ~txs[i].repeated
  /\ Inserts(i, txs[i].keys \cap Labels, "commit")

Commit(i) ==
  /\ txs[i].at = "commit"
  /\ rows' = [rows EXCEPT ![txs[i].date] = (@ \ txs[i].gone) \cup txs[i].added]
  /\ txs' = [txs EXCEPT ![i] = Idle]
  /\ UNCHANGED <<written, readers>>

\* A violated key, a lost connection or a crash: nothing of it stays.
Rollback(i) ==
  /\ txs[i].at # "idle"
  /\ txs' = [txs EXCEPT ![i] = Idle]
  /\ UNCHANGED <<rows, written, readers>>

-----------------------------------------------------------------------------
(* Reads.                                                                  *)

List(list, S) == IF list = "holdings" THEN Holdings(S) ELSE Allocations(S)
Asked(r) == IF readers[r].ask = "snapshot" THEN {"holdings", "allocations"}
                                           ELSE {readers[r].ask}

Ask(r) ==
  /\ readers[r] = Quiet
  /\ \E ask \in {"snapshot", "holdings", "allocations"} :
       readers' = [readers EXCEPT ![r].ask = ask]
  /\ UNCHANGED <<rows, written, txs>>

Latest(list) == Max({d \in Dates : List(list, rows[d]) # {}} \cup {NoDate})

\* The latest dates of the two tables, in either order.
FindLatest(r) ==
  /\ readers[r].ask # "nothing"
  /\ \E list \in Asked(r) :
       /\ readers[r].latest[list] = -1
       /\ readers' = [readers EXCEPT ![r].latest[list] = Latest(list)]
  /\ UNCHANGED <<rows, written, txs>>

ResolvedAsOf(r) == Max({readers[r].latest[list] : list \in Asked(r)})
Resolved(r) == \A list \in Asked(r) : readers[r].latest[list] # -1

\* The rows of the later of the two, again in either order.
FindRows(r) ==
  /\ readers[r].ask # "nothing" /\ Resolved(r) /\ ResolvedAsOf(r) # NoDate
  /\ \E list \in Asked(r) :
       /\ readers[r].read[list] = NotRead
       /\ readers' = [readers EXCEPT ![r].read[list] = <<List(list, rows[ResolvedAsOf(r)])>>]
  /\ UNCHANGED <<rows, written, txs>>

Answered(r) ==
  /\ readers[r].ask # "nothing" /\ Resolved(r)
  /\ ResolvedAsOf(r) = NoDate \/ \A list \in Asked(r) : readers[r].read[list] # NotRead

Respond(r) ==
  /\ Answered(r)
  /\ readers' = [readers EXCEPT ![r] = Quiet]
  /\ UNCHANGED <<rows, written, txs>>

-----------------------------------------------------------------------------
Next ==
  \/ \E i \in Importers :
       \/ Fetch(i) \/ DeleteHoldings(i) \/ StartDeletingAllocations(i) \/ DeleteAllocations(i)
       \/ InsertHoldings(i) \/ InsertAllocations(i) \/ Commit(i) \/ Rollback(i)
  \/ \E r \in Readers : Ask(r) \/ FindLatest(r) \/ FindRows(r) \/ Respond(r)

Spec == Init /\ [][Next]_vars

-----------------------------------------------------------------------------
(* Properties.                                                             *)

HaveHoldings(date) ==
  \A n \in DOMAIN written : written[n].date = date => written[n].keys \cap Ranks # {}

\* The rows of an import, and the number of the import that S is all the rows of.
RowsOf(n) == {[key |-> k, by |-> n] : k \in written[n].keys}
NumberOf(S) ==
  IF S = {} THEN 0
  ELSE IF \E n \in DOMAIN written : S = RowsOf(n)
  THEN CHOOSE n \in DOMAIN written : S = RowsOf(n) ELSE -2

\* The import a date shows, or -1 once an import of it had no holdings.
Shown == [d \in Dates |-> IF HaveHoldings(d) THEN NumberOf(rows[d]) ELSE -1]
Unfinished == {txs[i].id : i \in {j \in Importers : txs[j].at # "idle"}}

Store == INSTANCE SnapshotStore WITH
  imported <- written, pending <- Unfinished, current <- Shown

\* Overlapping imports never blend: as long as the imports of a date all have
\* holdings, each of them puts all of its rows in the place of all of the date's,
\* in one step, or leaves them alone (replaceSnapshot and the two unique keys).
\* Rank 1 is the key they meet on.
ImportsReplaceSnapshots == Store!Spec

\* So the rows of such a date are all the rows of one import.
SnapshotIsOneImport ==
  \A d \in Dates : HaveHoldings(d) =>
    rows[d] = {} \/ \E n \in DOMAIN written : rows[d] = RowsOf(n)

\* Whatever imports do meanwhile, a list that was read is the whole list of
\* one import of the date that was resolved, and a list whose latest date was
\* resolved is not read back empty unless an import of that date had none
\* (findSnapshot, findHoldings, findAllocationsByCategory).
ReadListsAreWhole ==
  \A r \in Readers : \A list \in {"holdings", "allocations"} :
    LET date == ResolvedAsOf(r)
        Imported(S) == \E n \in DOMAIN written :
          /\ written[n].date = date
          /\ S = List(list, RowsOf(n))
    IN ( /\ readers[r].ask # "nothing"
         /\ readers[r].read[list] # NotRead
         /\ HaveHoldings(date) )
       => LET read == Head(readers[r].read[list])
          IN Imported(read) \/ (read = {} /\ readers[r].latest[list] # date)
=============================================================================
