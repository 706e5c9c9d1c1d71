--------------------------- MODULE MCPolicyStore ---------------------------
EXTENDS PolicyStore, TLC

CONSTANTS h1, h2, n1

MCRank == h1 :> 1 @@ h2 :> 2 @@ n1 :> 3

\* h1 was created, joined by h2, which adopted the anchor; h2 let n1 in.
MCRoot == h1 :> h1 @@ h2 :> h1 @@ n1 :> h2
=============================================================================
