----------------------------- MODULE MCMockClient -----------------------------
EXTENDS MockClient
CONSTANTS r1, r2
MCSizes == [r \in {r1, r2} |-> IF r = r1 THEN 1 ELSE 2]
==============================================================================
