------------------------------- MODULE MCWire -------------------------------
(* Wire under TLC: two threads at either end of a stream, two receivers. *)
EXTENDS Wire, TLC

CONSTANTS w1, w2, k1, k2, c1, c2,   \* threads and receivers
          bfv, other                \* contexts

WireSymmetry == Permutations({w1, w2}) \cup Permutations({k1, k2})
                      \cup Permutations({c1, c2})

\* The second query comes from a receiver with other parameters.
MCOperations ==
    {ParmsRequest, OPRFRequest,
     QueryRequest(bfv, [e \in {1, 3} |-> <<bfv>>]), QueryRequest(other, [e \in {1} |-> <<other, other>>])}
MCReplies ==
    {ParmsResponse, OPRFResponse, QueryResponse(2),
     ResultPackage(bfv, 0, 16, <<>>), ResultPackage(bfv, 8, 16, <<bfv, bfv>>)}
=============================================================================
