------------------------ MODULE MCRawListingConsumer ------------------------
(* Small instances of RawListingConsumer: one process per worker, or one   *)
(* process with two prefetch slots.                                        *)
EXTENDS RawListingConsumer_inv, TLC

CONSTANTS e1, e2, m1, m2, m3, w1, w2, p1, p2

OneEach   == (w1 :> p1) @@ (w2 :> p2)
BothOnOne == (w1 :> p1) @@ (w2 :> p1)

CopySymmetry == Permutations(Msgs)
=============================================================================
