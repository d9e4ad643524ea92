--------------------------- MODULE MCArtRequests ----------------------------
(***************************************************************************)
(* An upload beside an operation of every other kind (a thumbnail is a     *)
(* read before it is a transfer), and two favourite changes, whose answers *)
(* without an id look the same.                                            *)
(***************************************************************************)
EXTENDS ArtRequests

MCWorks ==
  {[o1 |-> "upload", o2 |-> k] : k \in {"probe", "favourite", "thumbnail"}}
    \cup {[o1 |-> "favourite", o2 |-> "favourite"]}
=============================================================================
