-------------------------- MODULE VisibilityLedger --------------------------
(***************************************************************************)
(* What the catalog promises about the visibility of a fund, whatever its  *)
(* writers do: a fund enters the catalog visible, or as the migrations     *)
(* left it, every later change of its visibility appends one audit entry   *)
(* that names the new state, and only an administrator puts a fund into    *)
(* the blocked state.                                                      *)
(* FundCatalog is shown to implement this module.                          *)
(***************************************************************************)
EXTENDS Sequences

CONSTANT Funds

VARIABLES
  visibility,   \* visibility[f]: "absent" before the fund is created
  ledger        \* ledger[f]: the audit entries of f, oldest first

ledgerVars == <<visibility, ledger>>

Visibility == {"visible", "quarantined", "blocked"}
Actor      == {"system", "admin"}
Entry      == [previous : Visibility, new : Visibility, actor : Actor]

Init ==
  /\ visibility \in [Funds -> {"absent", "visible", "quarantined"}]
  /\ ledger = [f \in Funds |-> <<>>]

\* A provider synchronisation creates the row.
Create(f) ==
  /\ visibility[f] = "absent"
  /\ visibility' = [visibility EXCEPT ![f] = "visible"]
  /\ UNCHANGED ledger

\* The change and its audit entry become visible together. The entry's
\* "previous" is what the writer had read, which a concurrent writer may have
\* changed since: the ledger does not promise more.
Change(f, entry) ==
  /\ visibility[f] # "absent"
  /\ entry.new = "blocked" => entry.actor = "admin"
  /\ visibility' = [visibility EXCEPT ![f] = entry.new]
  /\ ledger' = [ledger EXCEPT ![f] = Append(@, entry)]

Next == \E f \in Funds : Create(f) \/ \E entry \in Entry : Change(f, entry)

Spec == Init /\ [][Next]_ledgerVars
=============================================================================
