----------------------------- MODULE SymbolSweep -----------------------------
(***************************************************************************)
(* What a batched pass over the funds promises: it fixes the symbols it    *)
(* covers when it begins, hands each of them out exactly once, never more  *)
(* than a batch at a time (the provider's quota is per minute and a batch  *)
(* is what fits in one), and finishes only when none is left.              *)
(***************************************************************************)
EXTENDS Integers, FiniteSets

CONSTANTS Symbols, BatchSize

VARIABLES left,     \* the symbols still to be handed out
          handed,   \* the symbols handed out
          sweeping

vars == <<left, handed, sweeping>>

Init == left = {} /\ handed = {} /\ sweeping = FALSE

Begin ==
  /\ ~sweeping
  /\ sweeping' = TRUE
  /\ left' \in SUBSET Symbols
  /\ handed' = {}

HandOut ==
  /\ sweeping
  /\ \E batch \in SUBSET left :
       /\ Cardinality(batch) \in 1..BatchSize
       /\ left' = left \ batch
       /\ handed' = handed \cup batch
  /\ UNCHANGED sweeping

\* The next pass may begin in the step that finishes this one.
Finish ==
  /\ sweeping /\ left = {}
  /\ \/ sweeping' = FALSE /\ UNCHANGED <<left, handed>>
     \/ sweeping' = TRUE /\ left' \in SUBSET Symbols /\ handed' = {}

Abort == sweeping /\ sweeping' = FALSE /\ left' = {} /\ UNCHANGED handed

Next == Begin \/ HandOut \/ Finish \/ Abort

Spec == Init /\ [][Next]_vars
=============================================================================
