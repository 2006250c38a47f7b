---------------------------- MODULE MCCredentials ----------------------------
\* Two processes, and one pair that an older version has left.
EXTENDS CredentialFiles, TLC

CONSTANTS a, b, k1, k2, k3, id1, id2, old

\* The processes are alike, and so are the pairs and ids yet to be made.
Symmetry == Permutations({a, b}) \cup Permutations({k1, k2, k3})
            \cup Permutations({id1, id2})
=============================================================================
