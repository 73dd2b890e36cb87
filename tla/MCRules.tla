------------------------------- MODULE MCRules -------------------------------
(* Expressions of rules for TLC.                                           *)
EXTENDS RuleEvaluation

Expression(kind, full, empty) ==
    [kind |-> kind, full |-> full, empty |-> empty, blank |-> FALSE]

\* "version is x" for a file of that version, "signature is not y" for a file
\* signed by y, "hash is z" for a file with that hash: each is true once the
\* field is there or before, not both.
LateExpressions ==
    {Expression("version", TRUE, FALSE), Expression("signed", FALSE, TRUE),
     Expression("hash", TRUE, FALSE)}

\* Fields the driver fills in: hashes always, the version if a rule needs it.
DriverExpressions ==
    {Expression("hash", TRUE, FALSE), Expression("version", TRUE, FALSE)}
=============================================================================
