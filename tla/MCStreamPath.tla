---------------------------- MODULE MCStreamPath ----------------------------
(* StreamPath with its symmetry and the bound of its runs, for TLC.          *)
EXTENDS StreamPath

Symmetry == Permutations(Viewers)

\* A second viewer joins only a short stream without Content-Length.
SecondOfShort ==
    Cardinality({v \in Viewers : out[v] # "off"}) > 1 =>
        total = 4 /\ length = Null
=============================================================================
