-------------------------- MODULE MCContractBundle --------------------------
(* Instances of ContractBundle: two files, two texts, one of them with both *)
(* kinds of line ending.                                                    *)
EXTENDS ContractBundle

CONSTANTS B1, B2, A1, A2, V1

MCContents == {"text", "text, CRLF", "other text"}

MCNormalised ==
    [c \in MCContents |-> IF c = "text, CRLF" THEN "text" ELSE c]

\* The source tree starts with one text; edits bring in the others.
MCInit == Init /\ source = [f \in Files |-> "text"]
============================================================================
