----------------------------- MODULE Singleton -----------------------------
(***************************************************************************)
(* What ensure_singleton promises of cluster-allocation and of             *)
(* cluster-capacity: the part of the object that operators own appears as  *)
(* the default when there is no object, and is theirs from then on.        *)
(*                                                                         *)
(* No operator writes the default itself, so a default that replaces       *)
(* anything can only be the work of a controller.                          *)
(***************************************************************************)
CONSTANTS
  Absent,     \* content when there is no object
  Default,    \* what a controller creates
  Written     \* what operators write

VARIABLE content

Init == content = Absent

\* A controller: create only what is missing.
Appear == content = Absent /\ content' = Default

\* Operators: kubectl apply, patch and delete.
Write  == content' \in Written
Remove == content # Absent /\ content' = Absent

Next == Appear \/ Write \/ Remove

Spec == Init /\ [][Next]_content
=============================================================================
