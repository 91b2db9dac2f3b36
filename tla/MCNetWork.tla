----------------------------- MODULE MCNetWork -----------------------------
(* Instances of NetWork for TLC, with its properties (NetWorkProps) and the *)
(* inductive invariants of the proofs (NetWorkRefs, NetWorkService).        *)
EXTENDS NetWorkService, TLC

\* Connections are interchangeable, and so are application threads that make
\* the same calls; used where only safety is checked.
ConnSymmetry == Permutations(Conns)
AppSymmetry  == Permutations(Conns) \cup Permutations(Apps)
=============================================================================
