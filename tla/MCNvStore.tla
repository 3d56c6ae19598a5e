----------------------------- MODULE MCNvStore -----------------------------
(* Small instances of NvStore for TLC. *)
EXTENDS NvStore, TLC

CONSTANTS a, b, v1, v2

MCItems == {a, b}
MCVals == {v1, v2}
MCLenAligned == a :> 4 @@ b :> 8

\* a is kept single with two payloads, b is not: the copies of b accumulate.
WritesMixed == {<<a, v1, TRUE>>, <<a, v2, TRUE>>, <<b, v1, FALSE>>}

=============================================================================
