---------------------------- MODULE RuleConditions ----------------------------
(***************************************************************************)
(* The conditions of a rule expression ("is", "contains any", "end with"   *)
(* and so on): what the driver (SysmonDrv/src/rules.c) and the service     *)
(* (SysmonUser/src/rules.cpp) make of a field's value and a rule's value.  *)
(*                                                                         *)
(* A text is a sequence of numbers; the letters that differ in case only   *)
(* are one number.  Every field and rule value of bounded length is a      *)
(* state.                                                                  *)
(***************************************************************************)
EXTENDS Integers, SequencesExt

CONSTANTS
    Letters,        \* numbers of the letters, in the order of _wcsicmp
    MaxFieldText,   \* bound: length of a field's value
    MaxRuleText,    \* bound: length of a rule's value
    MaxToken        \* the longest token the driver compares whole (259)

Blank == 0          \* a space, tab or line break
Semicolon == 100

ASSUME TextAssumption == Letters \subseteq 1 .. 99 /\ MaxToken \in Nat

VARIABLES fieldText, ruleText

textVars == <<fieldText, ruleText>>

TextInit == fieldText = <<>> /\ ruleText = <<>>

WriteFieldText ==
    /\ Len(fieldText) < MaxFieldText /\ ruleText = <<>>
    /\ \E c \in Letters : fieldText' = Append(fieldText, c)
    /\ UNCHANGED ruleText

WriteRuleText ==
    /\ Len(ruleText) < MaxRuleText
    /\ \E c \in Letters \cup {Blank, Semicolon} : ruleText' = Append(ruleText, c)
    /\ UNCHANGED fieldText

TextNext == WriteFieldText \/ WriteRuleText

TextSpec == TextInit /\ [][TextNext]_textVars

-----------------------------------------------------------------------------
(* The loops over a rule's value.                                          *)

\* SysmonTrimSpan: without its leading and trailing blanks.
TrimSpan(text) ==
    LET solid == {i \in DOMAIN text : text[i] # Blank}
    IN IF solid = {} THEN <<>> ELSE SubSeq(text, Min(solid), Max(solid))

\* A span between two separators is one more token, unless it is blank.
WithToken(tokens, span) ==
    IF TrimSpan(span) = <<>> THEN tokens ELSE Append(tokens, TrimSpan(span))

\* One more letter: a separator ends the open span.
Turned(scan, c) ==
    IF c = Semicolon
    THEN [tokens |-> WithToken(scan.tokens, scan.open), open |-> <<>>]
    ELSE [tokens |-> scan.tokens, open |-> Append(scan.open, c)]

\* The tokens before the last separator, and what follows it.
Scan(text) == FoldLeft(Turned, [tokens |-> <<>>, open |-> <<>>], text)

\* Faulty variant, for the mutation runs: what follows the last separator is not looked at.
TokensUnfinished(text) == Scan(text).tokens

\* The values between the separators, trimmed, without the empty ones.
Tokens(text) == WithToken(Scan(text).tokens, Scan(text).open)

ContainsInsensitive(text, part) ==
    \E i \in 0 .. Len(text) - Len(part) : SubSeq(text, i + 1, i + Len(part)) = part

\* _wcsicmp: less.
Less(a, b) ==
    LET same == {i \in 0 .. Len(a) : i <= Len(b) /\ \A k \in 1 .. i : a[k] = b[k]}
        n == CHOOSE i \in same : \A k \in same : k <= i
    IN n < Len(b) /\ (n = Len(a) \/ a[n + 1] < b[n + 1])

\* SysmonMatchAnyToken; without tokens nothing matches.
MatchAnyToken(text, tokens, requireAll, invert) ==
    LET hit(t) == ContainsInsensitive(text, t) # invert
    IN /\ tokens # <<>>
       /\ IF requireAll THEN \A t \in ToSet(tokens) : hit(t)
          ELSE \E t \in ToSet(tokens) : hit(t)

\* SysmonEvaluateRuleCondition, for a rule value with these tokens.
EvaluateCondition(condition, text, value, tokens) ==
    CASE condition = "is" -> text = value
      [] condition = "is not" -> text # value
      [] condition = "contains" -> ContainsInsensitive(text, value)
      [] condition = "excludes" -> ~ContainsInsensitive(text, value)
      [] condition = "is any" -> text \in ToSet(tokens)
      [] condition = "contains any" -> MatchAnyToken(text, tokens, FALSE, FALSE)
      [] condition = "contains all" -> MatchAnyToken(text, tokens, TRUE, FALSE)
      [] condition = "excludes any" -> MatchAnyToken(text, tokens, FALSE, TRUE)
      [] condition = "excludes all" -> MatchAnyToken(text, tokens, TRUE, TRUE)
      [] condition = "begin with" -> IsPrefix(value, text)
      [] condition = "not begin with" -> ~IsPrefix(value, text)
      [] condition \in {"end with", "image"} -> IsSuffix(value, text)
      [] condition = "not end with" -> ~IsSuffix(value, text)
      [] condition = "less than" -> Less(text, value)
      [] condition = "more than" -> Less(value, text)

\* The driver cuts a token that does not fit its buffer; the service compares
\* it whole.
DriverCondition(condition, text, value) ==
    LET tokens == Tokens(value)
    IN EvaluateCondition(condition, text, value,
         [i \in DOMAIN tokens |->
            SubSeq(tokens[i], 1, IF Len(tokens[i]) > MaxToken THEN MaxToken
                                 ELSE Len(tokens[i]))])

ServiceCondition(condition, text, value) ==
    EvaluateCondition(condition, text, value, Tokens(value))

-----------------------------------------------------------------------------
(* The conditions as the help text of the installer explains them.         *)

Conditions == {"is", "is not", "contains", "excludes", "is any", "contains any",
               "contains all", "excludes any", "excludes all", "begin with",
               "not begin with", "end with", "not end with", "less than",
               "more than", "image"}

\* The ";"-delimited values: what lies between two separators, or an end,
\* blanks around it left out.
Delimited(value) ==
    LET isValue(i, j) ==
          /\ i <= j /\ value[i] # Blank /\ value[j] # Blank
          /\ \A k \in i .. j : value[k] # Semicolon
          /\ \A k \in DOMAIN value :
               /\ (k < i /\ \A l \in k + 1 .. i - 1 : value[l] = Blank)
                    => value[k] \in {Blank, Semicolon}
               /\ (k > j /\ \A l \in j + 1 .. k - 1 : value[l] = Blank)
                    => value[k] \in {Blank, Semicolon}
    IN {SubSeq(value, p[1], p[2]) :
          p \in {q \in (DOMAIN value) \X (DOMAIN value) : isValue(q[1], q[2])}}

Occurs(part, text) ==
    \E before, after \in 0 .. Len(text) :
      before + after <= Len(text) /\ SubSeq(text, before + 1, Len(text) - after) = part

Documented(condition, text, value) ==
    LET values == Delimited(value)
    IN CASE condition = "is" -> text = value
         [] condition = "is not" -> text # value
         [] condition = "contains" -> Occurs(value, text)
         [] condition = "excludes" -> ~Occurs(value, text)
         [] condition = "is any" -> \E v \in values : text = v
         [] condition = "contains any" -> \E v \in values : Occurs(v, text)
         [] condition = "contains all" -> \A v \in values : Occurs(v, text)
         [] condition = "excludes any" -> \E v \in values : ~Occurs(v, text)
         [] condition = "excludes all" -> \A v \in values : ~Occurs(v, text)
         [] condition = "begin with" -> \E n \in 0 .. Len(text) : value = SubSeq(text, 1, n)
         [] condition = "not begin with" -> \A n \in 0 .. Len(text) : value # SubSeq(text, 1, n)
         [] condition \in {"end with", "image"} ->
              \E n \in 1 .. Len(text) + 1 : value = SubSeq(text, n, Len(text))
         [] condition = "not end with" ->
              \A n \in 1 .. Len(text) + 1 : value # SubSeq(text, n, Len(text))
         [] condition = "less than" ->
              \/ Len(text) < Len(value) /\ text = SubSeq(value, 1, Len(text))
              \/ \E k \in DOMAIN text \cap DOMAIN value :
                   text[k] < value[k] /\ \A i \in 1 .. k - 1 : text[i] = value[i]
         [] condition = "more than" ->
              \/ Len(value) < Len(text) /\ value = SubSeq(text, 1, Len(value))
              \/ \E k \in DOMAIN text \cap DOMAIN value :
                   text[k] > value[k] /\ \A i \in 1 .. k - 1 : text[i] = value[i]

\* Driver and service mean by a condition what the help text says
\* (installer.cpp 1370-1386), as long as no value is longer than the driver's
\* buffer (rules.c 1146-1400, rules.cpp 1022-1296).
ConditionsAsDocumented ==
    (/\ Delimited(ruleText) # {}
     /\ \A v \in Delimited(ruleText) : Len(v) <= MaxToken)
      => \A c \in Conditions :
           /\ DriverCondition(c, fieldText, ruleText) <=> Documented(c, fieldText, ruleText)
           /\ ServiceCondition(c, fieldText, ruleText) <=> Documented(c, fieldText, ruleText)
=============================================================================
