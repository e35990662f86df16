---------------------------- MODULE SnapshotStore ----------------------------
(***************************************************************************)
(* What the store of a fund's compositions promises its readers, however   *)
(* many imports overlap: an import shows all of its rows in the place of   *)
(* all of its date's, at once and at most once, or it is given up and      *)
(* shows none.  Imports need not replace a date in the order they began.   *)
(*                                                                         *)
(* Only holdings make two imports of a date meet on a unique key.  Once an *)
(* import of a date has none, nothing is promised of the date any more.    *)
(* FundComposition is shown to implement this module.                      *)
(***************************************************************************)
EXTENDS Integers, Sequences

CONSTANTS Dates,
          Keys,
          Ranks   \* the keys of holdings

VARIABLES
  imported,   \* the imports, in the order they began: their date and keys
  pending,    \* the numbers of those that have not ended
  current     \* the number of the import that a date shows

storeVars == <<imported, pending, current>>

Nobody == 0
Anybody == -1

Init ==
  /\ imported = <<>>
  /\ pending = {}
  /\ current = [d \in Dates |-> Nobody]

Import(date, keys) ==
  /\ imported' = Append(imported, [date |-> date, keys |-> keys])
  /\ pending' = pending \cup {Len(imported) + 1}
  /\ current' = IF keys \cap Ranks = {} THEN [current EXCEPT ![date] = Anybody] ELSE current

Replace(n) ==
  /\ n \in pending
  /\ pending' = pending \ {n}
  /\ current' = [current EXCEPT ![imported[n].date] = IF @ = Anybody THEN Anybody ELSE n]
  /\ UNCHANGED imported

GiveUp(n) ==
  /\ n \in pending
  /\ pending' = pending \ {n}
  /\ UNCHANGED <<imported, current>>

Next ==
  \/ \E date \in Dates : \E keys \in SUBSET Keys : Import(date, keys)
  \/ \E n \in pending : Replace(n) \/ GiveUp(n)

Spec == Init /\ [][Next]_storeVars
=============================================================================
