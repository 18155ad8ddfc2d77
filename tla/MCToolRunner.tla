----------------------------- MODULE MCToolRunner -----------------------------
(***************************************************************************)
(* The plan of the agent, with the attempts its tools declare.             *)
(***************************************************************************)
EXTENDS ToolRunner

CONSTANTS retrieve, vendor, order, history, register

\* POLICY_QUERIES, then the vendor, the order, the history and the supplier's documents.
DefaultPlan ==
    << << retrieve, retrieve, retrieve, retrieve >>, << vendor, order, history, retrieve >> >>

DefaultAttempts ==
    [ t \in {retrieve, vendor, order, history, register} |-> IF t = retrieve THEN 2 ELSE 3 ]

\* A local index answers; a record system may do anything.
LocalIndex ==
    [ t \in {retrieve, vendor, order, history, register} |->
        IF t = retrieve THEN {"VALUE"} ELSE AnswerKinds ]
=============================================================================
