---------------------------- MODULE MCBatchRounds ----------------------------
EXTENDS BatchRounds, TLC

\* Numbers of UTXOs and their values for each function: none, one, and enough
\* for two workers in the first round and for a second round; six token UTXOs
\* to convert leave two batches also after a transaction was given up.
MCCounts == [k \in Kinds |-> CASE k \in {"TokenV1", "TokenV2"} -> {4}
                               [] k = "ConvertToken" -> {0, 1, 6}
                               [] OTHER -> {0, 1, 4}]
MCValues == [k \in Kinds |-> IF k \in {"TokenV2", "ConvertToken"} THEN {1} ELSE {1, 3}]
MCMaxFaults == [k \in Kinds |-> IF k \in {"PRV", "ConvertPRV"} THEN 2 ELSE 1]

NoFaults == [k \in Kinds |-> 0]
OneFault == [k \in Kinds |-> 1]

\* Four and three UTXOs worth two each.
FourCounts == [k \in Kinds |-> {4}]
ThreeCounts == [k \in Kinds |-> {3}]
TwoValues == [k \in Kinds |-> {2}]
=============================================================================
