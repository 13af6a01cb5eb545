--------------------------- MODULE MCSbomEvidence ---------------------------
(* Instances of SbomEvidence: a lockfile with both kinds of line ending, one *)
(* with another graph, one with the same graph and another text, and one    *)
(* with a package whose license is not declared.                            *)
EXTENDS SbomEvidence

CONSTANTS W1, W2, C1

MCLocks == {"lock", "lock, CRLF", "other", "reordered", "unlicensed"}

MCNormalised == [l \in MCLocks |-> IF l = "lock, CRLF" THEN "lock" ELSE l]

MCGraphs == {"graph", "other graph", "unlicensed graph"}

MCGraph ==
    [l \in MCLocks |-> CASE l = "other" -> "other graph"
                         [] l = "unlicensed" -> "unlicensed graph"
                         [] OTHER -> "graph"]

MCLicensed == {"graph", "other graph"}

\* Both licensed graphs have the same counts.
MCSummary == [g \in MCGraphs |-> IF g \in MCLicensed THEN 1 ELSE 2]

WriteAndRefresh == [w \in {W1, W2} |-> IF w = W1 THEN "--write" ELSE "--refresh"]
WriteTwice      == [w \in {W1, W2} |-> "--write"]
=============================================================================
