----------------------------- MODULE MCLiveEvents -----------------------------
(* Small instances of LiveEvents for TLC. *)
EXTENDS LiveEvents, TLC

CONSTANTS o1, o2, m1, m2, x, f, n

\* Two contents the selector passes, one it drops, one it drops and that cannot
\* be mapped, and one whose mapping fails.
KindOf == [c \in Content |->
             CASE c = x -> "exclude" [] c = f -> "fail" [] c = n -> "none"
               [] OTHER -> "match"]

Interchangeable == Permutations({o1, o2}) \cup Permutations({m1, m2})
==============================================================================
