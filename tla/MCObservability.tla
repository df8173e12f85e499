--------------------------- MODULE MCObservability ---------------------------
(***************************************************************************)
(* Instances of Observability for TLC.                                     *)
(***************************************************************************)
EXTENDS Observability

Pair(c, m) == [res \in Resource |-> IF res = "cpu" THEN c ELSE m]

MCObject(mode, status) ==
  [spec |-> [budget |-> 80, override |-> Pair(NULL, NULL), mode |-> mode,
             namespaces |-> {"monitoring"}, classes |-> {}],
   status |-> status]

MCStatus(allocated, stamp) ==
  [allocated |-> allocated, ceiling |-> Pair(4, 6), budgets |-> Pair(80, 80),
   stamp |-> stamp]

\* No object; a status with room for cpu only; the same in dry-run mode; one with
\* room for both and an unreadable stamp.
MCAllocations ==
  {NULL, MCObject(NULL, MCStatus(Pair(1, 6), 0)),
   MCObject("dry-run", MCStatus(Pair(1, 6), 0)),
   MCObject(NULL, MCStatus(Pair(0, 2), NULL))}

MCCapacities == {[totals |-> Pair(5, 8), stamp |-> 0]}

Review(ns, new) ==
  [operation |-> "CREATE", namespace |-> ns, class |-> NULL, new |-> new, old |-> NULL]

MCRequests ==
  {Review("monitoring", Pair(1, 1)), Review("team", Pair(1, 1)),
   Review("team", Pair(0, 0)), Review("team", NULL)}
=============================================================================
