---------------------------- MODULE MCRuleRuntime ----------------------------
(* Contents of the driver's configuration key for TLC.                     *)
EXTENDS RuleRuntime

Key(found, dwords, rules, loggable) ==
    [key |-> found, dwords |-> dwords, rules |-> [kind |-> rules, loggable |-> loggable]]

Unreadable == Key("unreadable", [i \in 1..6 |-> "absent"], "absent", {})

\* A driver that is configured, and one whose key cannot be read.
PlainRegistries ==
    {Key("found", <<"1", "absent", "absent", "1", "absent", "absent">>, "blob",
         {"RawAccessRead"}), Unreadable}

\* One with a value of the wrong type; one that is switched off, whose rules log
\* nothing.
MistypedRegistries ==
    {Key("found", <<"1", "absent", "absent", "1", "mistyped", "absent">>, "empty", {}),
     Key("found", <<"0", "absent", "1", "absent", "absent", "absent">>, "blob",
         {"RawAccessRead"})}

\* No rules; rules, some switched off; rules that are refused.
MixedRegistries ==
    {Key("found", <<"1", "absent", "absent", "1", "mistyped", "absent">>, "absent", {}),
     Key("found", <<"0", "absent", "absent", "absent", "mistyped", "absent">>, "blob",
         {"ProcessTampering", "RawAccessRead"}),
     Key("missing", [i \in 1..6 |-> "absent"], "refused", {})}
=============================================================================
