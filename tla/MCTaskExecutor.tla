--------------------------- MODULE MCTaskExecutor ---------------------------
(***************************************************************************)
(* The graph of main() in src/Executor/sema.cpp for TLC: six vertices, two *)
(* joins, durations in units of 50 ms, fewer workers than vertices.        *)
(***************************************************************************)
EXTENDS TaskExecutor

MainOutEdges ==
  [t \in 0..5 |-> CASE t = 0 -> <<1, 2>>
                    [] t \in {1, 2} -> <<3>>
                    [] t \in {3, 4} -> <<5>>
                    [] t = 5 -> <<>>]

MainDuration == [t \in 0..5 |-> t + 1]
=============================================================================
