---------------------------- MODULE MCRawCollection ----------------------------
(***************************************************************************)
(* Bounded instances of RawCollection for TLC.                             *)
(***************************************************************************)
EXTENDS RawCollection

CONSTANTS d1, d2, d3, p1, p2

(* Two one-shot processes that share the local directory; one, of a feed   *)
(* collector, that fails twice; one resident process over MinIO.           *)
MCDeployments ==
    {[docs |-> {d1, d2}, procs |-> {p1, p2}, resident |-> {}, minio |-> FALSE,
      kind |-> "list", batch |-> 2, faults |-> 1],
     [docs |-> {d1, d2}, procs |-> {p1}, resident |-> {}, minio |-> FALSE,
      kind |-> "feed", batch |-> 2, faults |-> 2],
     [docs |-> {d1, d2, d3}, procs |-> {p1}, resident |-> {p1}, minio |-> TRUE,
      kind |-> "paged", batch |-> 1, faults |-> 3]}
===============================================================================
