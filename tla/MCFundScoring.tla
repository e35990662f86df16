--------------------------- MODULE MCFundScoring ---------------------------
(* FundScoring with three funds and two benchmarks. *)
EXTENDS FundScoring

CONSTANTS w1, w2

MCWorkers == {w1, w2}
MCFunds == {1, 2, 3}
MCBenchmarks == {1, 2}
MCTer == {1, 2}

Seed(benchmark, ter) ==
  [benchmark |-> benchmark, ter |-> ter, hidden |-> FALSE,
   score |-> None, group |-> None, rank |-> None]

\* A fund of the first benchmark, and one without a benchmark.
MCSeeds == {Seed(1, 1), Seed(None, 2)}
=============================================================================
