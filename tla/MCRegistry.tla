----------------------------- MODULE MCRegistry -----------------------------
(* Model-checking instance of Registry: all ranges in eight addresses. *)
EXTENDS Registry

SmallRanges ==
  {r \in [start : 1 .. 8, len : 1 .. 8] : r.start + r.len <= 9}

=============================================================================
