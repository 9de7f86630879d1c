----------------------------- MODULE MCChannel -----------------------------
(* Channel with the symmetries of its model values, for TLC.                 *)
EXTENDS Channel

Symmetry ==
    Permutations(Requests \ SegmentRequests)
        \cup Permutations(SegmentRequests) \cup Permutations(Channels)

\* The bound of the run with a segment request: with it there is one on_init at
\* a time, and the live requests share its channel object.
SegmentInOneChannel ==
    (\E r \in SegmentRequests : play[r] # "new") =>
        /\ Cardinality({r \in Requests : play[r] = "probe"}) <= 1
        /\ Cardinality({channel[r] : r \in Requests} \ {Null}) <= 1
=============================================================================
