---------------------------- MODULE MCRefreshLoop ----------------------------
\* The durations of src/config in units of ten seconds.
EXTENDS RefreshLoop

CONSTANTS a, b, h, good, bad

Prod(d) == [period  |-> [new |-> 24, update |-> 5],
            timeout |-> [new |-> 2, update |-> 4], request |-> 2, answer |-> d]
Dev(d)  == [period  |-> [new |-> 6, update |-> 2],
            timeout |-> [new |-> 2, update |-> 1], request |-> 1, answer |-> d]

\* A configuration file that leaves time for the calls that hang.
Roomy(d) == [period  |-> [new |-> 8, update |-> 4],
             timeout |-> [new |-> 4, update |-> 2], request |-> 1, answer |-> d]

\* Answers take no time or, under dev.toml, up to the whole request timeout.
AllSettings  == {Prod(0), Dev(0), Dev(1), Roomy(0)}
ProdSettings == {Prod(0)}

\* The theorem about missed ticks is about settings like these.
ASSUME SettingsAreLight == LightLoad

ALeads  == [c \in {good, bad} |-> a]
Follows == [c \in {good, bad} |-> IF c = good THEN b ELSE h]
==============================================================================
