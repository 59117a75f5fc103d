------------------------ MODULE MCOperationApproval ------------------------
EXTENDS OperationApproval, TLC

CONSTANTS t1, t2, t3, r1, r2

\* Links and requests are interchangeable.
Interchangeable == Permutations(Tokens) \cup Permutations(Reqs)
=============================================================================
