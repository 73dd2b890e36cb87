---------------------------- MODULE RuleEvaluation ----------------------------
(***************************************************************************)
(* Rules, from the configuration file to the verdict on an image event.    *)
(* The service parses EventFiltering into groups of event rules            *)
(* (SysmonUser/src/xml_config.cpp), writes them to a blob of flat arrays   *)
(* (SysmonUser/src/rules.cpp), and the driver reads the blob back, indexes *)
(* it by event and evaluates it (SysmonDrv/src/rules.c).  The service      *)
(* evaluates the same rules a second time, with code of its own.           *)
(*                                                                         *)
(* The values of an event's fields are left out: an expression says which  *)
(* kind of field it looks at and whether it holds of the field's value,    *)
(* and of the empty string the field has while nobody has filled it in.    *)
(* Image and driver loads are the events with fields filled in late:       *)
(* hashes by the driver if it can read the file, the version resource by   *)
(* the driver if a rule may need it, and by the service the signature and  *)
(* whatever of the two is missing still.                                   *)
(*                                                                         *)
(* The behaviour is a configuration file that grows: every file of the     *)
(* bounded size is a state, and the properties compare the algorithms.     *)
(***************************************************************************)
EXTENDS Integers, SequencesExt

CONSTANTS
    Expressions,   \* the expressions rules are made of
    MaxGroups,     \* bound: RuleGroup elements
    MaxNodes,      \* bound: event elements
    MaxFields,     \* bound: field elements
    MaxRules       \* bound: Rule elements

Kinds == {"raw", "hash", "version", "signed"}
Relations == {"or", "and"}
ImageLoad == 7
DriverLoad == 6

ASSUME ExpressionShape ==
    Expressions \subseteq [kind : Kinds, full : BOOLEAN, empty : BOOLEAN,
                           blank : BOOLEAN]

VARIABLE xml       \* the EventFiltering element

ruleVars == <<xml>>

-----------------------------------------------------------------------------
(* The configuration file grows.                                           *)

RuleInit == xml = <<>>

\* The elements of s at the chosen places.
Picked(s, chosen) == FlattenSeq([k \in DOMAIN s |-> IF k \in chosen THEN <<s[k]>> ELSE <<>>])

Nodes == FlattenSeq([g \in DOMAIN xml |-> xml[g].nodes])
Children == LET all == Nodes IN FlattenSeq([n \in DOMAIN all |-> all[n].children])
Fields == LET all == Children IN FlattenSeq([c \in DOMAIN all |-> all[c].expressions])
RuleElements == LET all == Children IN Picked(all, {c \in DOMAIN all : all[c].tag = "rule"})
LastGroup == xml[Len(xml)]
LastNode == LastGroup.nodes[Len(LastGroup.nodes)]

WriteGroup(r) ==
    /\ Len(xml) < MaxGroups
    /\ xml' = Append(xml, [relation |-> r, nodes |-> <<>>])

WriteNode(id, m, r) ==
    /\ xml # <<>>
    /\ Len(Nodes) < MaxNodes
    /\ xml' = [xml EXCEPT ![Len(xml)].nodes =
                 Append(@, [id |-> id, match |-> m, relation |-> r, children |-> <<>>])]

WriteChild(c) ==
    /\ xml # <<>> /\ LastGroup.nodes # <<>>
    /\ xml' = [xml EXCEPT ![Len(xml)].nodes[Len(LastGroup.nodes)].children = Append(@, c)]

WriteField(e) ==
    /\ Len(Fields) < MaxFields
    /\ WriteChild([tag |-> "field", expressions |-> <<e>>])

WriteRule(r) ==
    /\ Len(RuleElements) < MaxRules
    /\ WriteChild([tag |-> "rule", relation |-> r, expressions |-> <<>>])

\* One more field of the last Rule element.
WriteRuleField(e) ==
    /\ Len(Fields) < MaxFields
    /\ xml # <<>> /\ LastGroup.nodes # <<>> /\ LastNode.children # <<>>
    /\ Last(LastNode.children).tag = "rule"
    /\ xml' = [xml EXCEPT ![Len(xml)].nodes[Len(LastGroup.nodes)]
                 .children[Len(LastNode.children)].expressions = Append(@, e)]

RuleNext ==
    \/ \E r \in Relations : WriteGroup(r)
    \/ \E m \in {"include", "exclude"}, r \in Relations : WriteNode(ImageLoad, m, r)
    \/ /\ xml # <<>> /\ LastGroup.nodes = <<>>
       /\ WriteNode(DriverLoad, "include", "or")
    \/ \E e \in Expressions : WriteField(e)
    \/ \E r \in Relations : WriteRule(r)
    \/ \E e \in Expressions : WriteRuleField(e)

RuleSpec == RuleInit /\ [][RuleNext]_ruleVars

-----------------------------------------------------------------------------
(* SysmonParseEventFiltering: the rule set of a file.                      *)

\* The Rule elements are rules of their own; the fields beside them make up
\* one more, appended last, that combines like the event element.
EventRuleOf(node) ==
    LET tagged(t) == Picked(node.children,
                            {c \in DOMAIN node.children : node.children[c].tag = t})
        nested == tagged("rule")
        fields == tagged("field")
    IN [id |-> node.id, match |-> node.match, relation |-> node.relation,
        rules |->
          [i \in DOMAIN nested |-> [relation |-> nested[i].relation,
                                    expressions |-> nested[i].expressions]]
          \o IF fields = <<>> THEN <<>>
             ELSE <<[relation |-> node.relation,
                     expressions |-> FlattenSeq([i \in DOMAIN fields |->
                                                   fields[i].expressions])]>>]

\* Groups without event rules are not kept.
RuleSet ==
    LET groups == [g \in DOMAIN xml |->
                     [relation |-> xml[g].relation,
                      eventRules |-> [n \in DOMAIN xml[g].nodes |->
                                        EventRuleOf(xml[g].nodes[n])]]]
    IN Picked(groups, {g \in DOMAIN groups : groups[g].eventRules # <<>>})

-----------------------------------------------------------------------------
(* SysmonSerializeRules: four arrays, each element with the range of its   *)
(* children in the next array.                                             *)

\* The number of elements of the first i parts.
Before(parts, i) == Len(FlattenSeq(SubSeq(parts, 1, i)))

Serialize(rs) ==
    LET eventRules == FlattenSeq([g \in DOMAIN rs |-> rs[g].eventRules])
        rules == FlattenSeq([i \in DOMAIN eventRules |-> eventRules[i].rules])
        perGroup == [g \in DOMAIN rs |-> rs[g].eventRules]
        perEvent == [i \in DOMAIN eventRules |-> eventRules[i].rules]
        perRule == [i \in DOMAIN rules |-> rules[i].expressions]
    IN [groups |-> [g \in DOMAIN rs |->
          [relation |-> rs[g].relation,
           start |-> Before(perGroup, g - 1), count |-> Len(perGroup[g])]],
        eventRules |-> [i \in DOMAIN eventRules |->
          [id |-> eventRules[i].id, match |-> eventRules[i].match,
           relation |-> eventRules[i].relation,
           start |-> Before(perEvent, i - 1), count |-> Len(perEvent[i])]],
        rules |-> [i \in DOMAIN rules |->
          [relation |-> rules[i].relation,
           start |-> Before(perRule, i - 1), count |-> Len(perRule[i])]],
        expressions |-> FlattenSeq(perRule)]

\* SysmonValidateRuleBlob: ranges stay inside the next array, and every event
\* rule belongs to exactly one group.
InRange(part, array) == part.start + part.count <= Len(array)
Members(part) == part.start + 1 .. part.start + part.count

DriverAccepts(blob) ==
    /\ \A i \in DOMAIN blob.groups : InRange(blob.groups[i], blob.eventRules)
    /\ \A i \in DOMAIN blob.eventRules :
         /\ InRange(blob.eventRules[i], blob.rules)
         /\ \E g \in DOMAIN blob.groups :
              /\ i \in Members(blob.groups[g])
              /\ \A h \in DOMAIN blob.groups \ {g} : i \notin Members(blob.groups[h])
    /\ \A i \in DOMAIN blob.rules : InRange(blob.rules[i], blob.expressions)

\* SysmonLoadRuleRuntime and SysmonBuildRuleRuntimeEventIndex: the blob, and for
\* each event its event rules with the group each belongs to, in the order of
\* the groups.
LoadRuleRuntime(blob) ==
    LET refs(g) == [k \in 1 .. blob.groups[g].count |->
                      [group |-> g, eventRule |-> blob.groups[g].start + k]]
        ofEvent(g, id) == {k \in 1 .. blob.groups[g].count :
                             blob.eventRules[blob.groups[g].start + k].id = id}
    IN [groups |-> blob.groups, eventRules |-> blob.eventRules, rules |-> blob.rules,
        expressions |-> blob.expressions,
        index |-> [id \in {blob.eventRules[i].id : i \in DOMAIN blob.eventRules} |->
                     FlattenSeq([g \in DOMAIN blob.groups |->
                                   Picked(refs(g), ofEvent(g, id))])]]

\* SysmonFindEventRuleBucket.
Bucket(rt, id) == IF id \in DOMAIN rt.index THEN rt.index[id] ELSE <<>>

-----------------------------------------------------------------------------
(* Evaluation by the driver, of an event with the kinds in "have" filled   *)
(* in.                                                                     *)

Holds(e, have) == IF e.kind \in have THEN e.full ELSE e.empty

\* An expression without a value never holds for the driver.
DriverExpression(e, have) == ~e.blank /\ Holds(e, have)

Combined(relation, set, hits) ==
    IF relation = "and" THEN set \subseteq hits ELSE set \cap hits # {}

DriverRule(rt, i, have) ==
    \/ rt.rules[i].count = 0
    \/ Combined(rt.rules[i].relation, Members(rt.rules[i]),
                {x \in Members(rt.rules[i]) : DriverExpression(rt.expressions[x], have)})

\* An event element without rules matches every event.
DriverEventRule(rt, i, have) ==
    \/ rt.eventRules[i].count = 0
    \/ Combined(rt.eventRules[i].relation, Members(rt.eventRules[i]),
                {x \in Members(rt.eventRules[i]) : DriverRule(rt, x, have)})

\* Faulty variant: a conjunction that begins with the absent first result.
GroupVerdictFromFalse(relation, matches) ==
    FoldLeft(LAMBDA acc, m :
              [has |-> TRUE,
               matched |-> IF relation = "and" THEN acc.matched /\ m ELSE acc.matched \/ m],
            [has |-> FALSE, matched |-> FALSE], matches)

\* One group's verdict, folded over its event rules in the order of the bucket:
\* the first of each match type counts alone, the others as the group combines.
GroupVerdict(relation, matches) ==
    FoldLeft(LAMBDA acc, m :
              [has |-> TRUE,
               matched |-> IF ~acc.has THEN m
                           ELSE IF relation = "and" THEN acc.matched /\ m
                           ELSE acc.matched \/ m],
            [has |-> FALSE, matched |-> FALSE], matches)

DriverGroup(rt, refs, g, match, have) ==
    LET mine == Picked(refs, {k \in DOMAIN refs :
                  /\ refs[k].group = g
                  /\ rt.eventRules[refs[k].eventRule].match = match})
    IN GroupVerdict(rt.groups[g].relation,
                    [k \in DOMAIN mine |-> DriverEventRule(rt, mine[k].eventRule, have)])

\* SysmonShouldCaptureEvent of rules.c.  The scan of a bucket relies on the
\* groups coming in order: it gives up when one comes back.
DriverCapture(rt, id, have) ==
    LET refs == Bucket(rt, id)
        groups == {refs[k].group : k \in DOMAIN refs}
        exclude(g) == DriverGroup(rt, refs, g, "exclude", have)
        include(g) == DriverGroup(rt, refs, g, "include", have)
    IN /\ refs # <<>>
       /\ \A k \in 1 .. Len(refs) - 1 : refs[k].group <= refs[k + 1].group
       /\ \A g \in groups : ~exclude(g).matched
       /\ \/ \A g \in groups : ~include(g).has
          \/ \E g \in groups : include(g).matched

\* SysmonRuleRuntimeEventCanProduceLogs of rules.c: what the producers' flags
\* are derived from.
DriverCanProduceLogs(rt, id) ==
    LET refs == Bucket(rt, id)
        rule(k) == rt.eventRules[refs[k].eventRule]
    IN /\ refs # <<>>
       /\ \/ \A k \in DOMAIN refs : ~(rule(k).match = "exclude" /\ rule(k).count = 0)
          \/ \E k \in DOMAIN refs : rule(k).match = "include"

-----------------------------------------------------------------------------
(* What the driver fills in before it evaluates (SysmonDrv/src/image.c).   *)

\* SysmonGetImageRuleRequirements.
Requirements(rt, id) ==
    {rt.expressions[x].kind : x \in
       UNION {UNION {Members(rt.rules[r]) :
                       r \in Members(rt.eventRules[Bucket(rt, id)[k].eventRule])} :
                k \in DOMAIN Bucket(rt, id)}} \ {"raw"}

NeedsVersion(rt, r) ==
    \E x \in Members(rt.rules[r]) : rt.expressions[x].kind = "version"

\* SysmonMayNeedImageVersionInfoForRule: in a conjunction the other fields are
\* looked at first.
MayNeedVersion(rt, r, have) ==
    /\ NeedsVersion(rt, r)
    /\ \/ rt.rules[r].relation # "and"
       \/ \A x \in Members(rt.rules[r]) :
            \/ rt.expressions[x].kind = "version"
            \/ DriverExpression(rt.expressions[x], have)

\* SysmonShouldCollectImageVersionInfoForEvent.
CollectsVersion(rt, id, have) ==
    \E k \in DOMAIN Bucket(rt, id) :
      LET i == Bucket(rt, id)[k].eventRule
      IN \E r \in Members(rt.eventRules[i]) :
           IF rt.eventRules[i].relation # "or" THEN NeedsVersion(rt, r)
           ELSE MayNeedVersion(rt, r, have)

\* SysmonProcessImageWorkContext for an image load: the hashes are computed
\* when an algorithm is configured or a rule names them; whether to read the
\* version resource is decided on the event before it has its hashes.
DriverFills(rt, hashing) ==
    LET need == Requirements(rt, ImageLoad)
    IN {"raw"}
         \cup (IF hashing \/ "hash" \in need THEN {"hash"} ELSE {})
         \cup (IF "version" \in need /\ CollectsVersion(rt, ImageLoad, {"raw"})
               THEN {"version"} ELSE {})

-----------------------------------------------------------------------------
(* Evaluation by the service (SysmonUser/src/rules.cpp).                   *)

ServiceRule(rule, have) ==
    \/ rule.expressions = <<>>
    \/ Combined(rule.relation, DOMAIN rule.expressions,
                {x \in DOMAIN rule.expressions : Holds(rule.expressions[x], have)})

\* An event element without rules matches no event.
ServiceEventRule(eventRule, have) ==
    /\ eventRule.rules # <<>>
    /\ Combined(eventRule.relation, DOMAIN eventRule.rules,
                {r \in DOMAIN eventRule.rules : ServiceRule(eventRule.rules[r], have)})

OfEvent(group, id, match) ==
    Picked(group.eventRules,
           {n \in DOMAIN group.eventRules :
              group.eventRules[n].id = id /\ group.eventRules[n].match = match})

\* SysmonShouldCaptureEvent of rules.cpp, which scans the groups themselves.
ServiceCapture(rs, id, have) ==
    LET verdict(g, match) ==
          LET mine == OfEvent(rs[g], id, match)
          IN GroupVerdict(rs[g].relation,
                          [k \in DOMAIN mine |-> ServiceEventRule(mine[k], have)])
    IN /\ \E g \in DOMAIN rs : \E k \in DOMAIN rs[g].eventRules : rs[g].eventRules[k].id = id
       /\ \A g \in DOMAIN rs : ~verdict(g, "exclude").matched
       /\ \/ \A g \in DOMAIN rs : ~verdict(g, "include").has
          \/ \E g \in DOMAIN rs : verdict(g, "include").matched

\* Three-valued evaluation: what the service fills in later is not known yet.
And3(a, b) == IF "false" \in {a, b} THEN "false"
              ELSE IF {a, b} = {"true"} THEN "true" ELSE "unknown"
Or3(a, b) == IF "true" \in {a, b} THEN "true"
             ELSE IF {a, b} = {"false"} THEN "false" ELSE "unknown"

\* SysmonAccumulatePartialMatch over a sequence; none of an empty one is true
\* for a rule, false for the rest.
Partial(relation, results) ==
    IF results = <<>> THEN "false"
    ELSE FoldLeft(LAMBDA acc, x : IF relation = "and" THEN And3(acc, x) ELSE Or3(acc, x),
                 Head(results), Tail(results))

\* Faulty variant: the version resource is taken to be known already.
PartialExpressionKnown(e, have) ==
    IF e.kind = "signed" THEN "unknown"
    ELSE IF Holds(e, have) THEN "true" ELSE "false"

\* SysmonEvaluateEventExpressionPartial.
PartialExpression(e, have) ==
    IF e.kind \in {"signed", "version"} THEN "unknown"
    ELSE IF Holds(e, have) THEN "true" ELSE "false"

PartialRule(rule, have) ==
    IF rule.expressions = <<>> THEN "true"
    ELSE Partial(rule.relation,
                 [x \in DOMAIN rule.expressions |->
                    PartialExpression(rule.expressions[x], have)])

PartialGroup(group, id, match, have) ==
    LET mine == OfEvent(group, id, match)
    IN Partial(group.relation,
               [k \in DOMAIN mine |->
                  Partial(mine[k].relation,
                          [r \in DOMAIN mine[k].rules |->
                             PartialRule(mine[k].rules[r], have)])])

\* SysmonGetImageRuleRequirements of rules.cpp.
ServiceRequirements(rs, id) ==
    {k \in Kinds \ {"raw"} :
       \E g \in DOMAIN rs : \E n \in DOMAIN rs[g].eventRules :
         /\ rs[g].eventRules[n].id = id
         /\ \E r \in DOMAIN rs[g].eventRules[n].rules :
              \E x \in DOMAIN rs[g].eventRules[n].rules[r].expressions :
                rs[g].eventRules[n].rules[r].expressions[x].kind = k}

\* SysmonCanEarlyRejectImageEvent: the event is dropped before its signature
\* is verified.  It is asked of an event the service has added nothing to; the
\* hash of a file the driver could not read counts as that of the empty string.
EarlyReject(rs, id, have) ==
    LET excluded == {g \in DOMAIN rs : PartialGroup(rs[g], id, "exclude", have) = "true"}
        including == {g \in DOMAIN rs : OfEvent(rs[g], id, "include") # <<>>}
        open == {g \in including : PartialGroup(rs[g], id, "include", have) # "false"}
    IN \/ excluded # {}
       \/ including # {} /\ open = {}

-----------------------------------------------------------------------------
(* Properties.                                                             *)

Runtime == LoadRuleRuntime(Serialize(RuleSet))
Complete == Kinds

\* The rules as the driver's own text describes them (docs/configuration.md, the
\* comment in rules.c on elements without rules): an exclusion that matches
\* wins; if there are inclusions one must match; an event element or a Rule
\* element that names no field stands for every event; the fields of an event
\* element combine as the element says, the elements of a group as the group
\* says.  The repository contradicts itself here: for the comment in rules.cpp
\* (1643-1647), the service's evaluator and a sample of the installer (1258)
\* an element without fields matches nothing, and the installer's help
\* (1399-1411) has the fields combine as the group says, where the parser
\* takes the element's own groupRelation (xml_config.cpp 1591-1595).
Meant(match) ==
    \E g \in DOMAIN xml :
      LET nodes == {n \in DOMAIN xml[g].nodes :
                      xml[g].nodes[n].id = ImageLoad /\ xml[g].nodes[n].match = match}
          holds(e) == ~e.blank /\ e.full
          fields(n) == {c \in DOMAIN xml[g].nodes[n].children :
                          xml[g].nodes[n].children[c].tag = "field"}
          nested(n) == DOMAIN xml[g].nodes[n].children \ fields(n)
          expression(n, c, x) == xml[g].nodes[n].children[c].expressions[x]
          byFields(n) == Combined(xml[g].nodes[n].relation, fields(n),
                                  {c \in fields(n) : holds(expression(n, c, 1))})
          byRule(n, c) ==
            \/ xml[g].nodes[n].children[c].expressions = <<>>
            \/ Combined(xml[g].nodes[n].children[c].relation,
                        DOMAIN xml[g].nodes[n].children[c].expressions,
                        {x \in DOMAIN xml[g].nodes[n].children[c].expressions :
                            holds(expression(n, c, x))})
          hit(n) == IF xml[g].nodes[n].relation = "and"
                    THEN byFields(n) /\ \A c \in nested(n) : byRule(n, c)
                    ELSE \/ xml[g].nodes[n].children = <<>>
                         \/ byFields(n)
                         \/ \E c \in nested(n) : byRule(n, c)
      IN nodes # {} /\ Combined(xml[g].relation, nodes, {n \in nodes : hit(n)})

HasNode(match) ==
    \E n \in DOMAIN Nodes : Nodes[n].id = ImageLoad /\ Nodes[n].match = match

\* The way through parser, blob, index and scan does not change what the
\* configuration file says: the driver captures a complete image event exactly
\* when the file means it to (rules.c 1648-1833, xml_config.cpp 1572-1836).
CaptureIsWhatTheFileMeans ==
    DriverCapture(Runtime, ImageLoad, Complete)
      <=> /\ HasNode("include") \/ HasNode("exclude")
          /\ ~Meant("exclude")
          /\ HasNode("include") => Meant("include")

\* Every blob the service writes is one the driver accepts (rules.cpp 403-600
\* against rules.c 112-330), otherwise a reload would keep the old rules.
DriverAcceptsTheBlob == DriverAccepts(Serialize(RuleSet))

\* The rules arrive in the driver, and mean there what the file means.
RulesArrive == DriverAcceptsTheBlob /\ CaptureIsWhatTheFileMeans

\* An image or driver load that is dropped before its signature is verified
\* would have been dropped later, whatever the service then fills in (rules.cpp
\* 1706-1804 against 1604-1704).  Not so if a rule names the hash and the driver
\* has not filled it in: the shortcut takes the empty string for final, but the
\* service hashes such a driver load itself, or finds the hash of an image in
\* its cache, only later (pipeline.cpp 1676-1708 against 2956).
EarlyRejectIsFinal ==
    LET rs == RuleSet
    IN \A id \in {ImageLoad, DriverLoad}, have \in SUBSET {"hash", "version"} :
         /\ EarlyReject(rs, id, {"raw"} \cup have)
         /\ "hash" \in ServiceRequirements(rs, id) => "hash" \in have
         => \A late \in SUBSET (Kinds \ {"raw"}) :
              ~ServiceCapture(rs, id, {"raw"} \cup have \cup late)

\* A group that combines, by "and", an exclusion without fields with one that
\* has some excludes only what the latter matches.
ExcludesLess(group) ==
    /\ group.relation = "and"
    /\ \E i, k \in {n \in DOMAIN group.eventRules : /\ group.eventRules[n].id = ImageLoad
                                                    /\ group.eventRules[n].match = "exclude"} :
         group.eventRules[i].rules = <<>> /\ group.eventRules[k].rules # <<>>

\* A producer the driver switches off because its event cannot be logged has
\* nothing to log (rules.c 869-907 against 1648-1833), unless an exclusion
\* without fields is combined with another: the switch does not look at that.
SwitchedOffHasNothingToLog ==
    LET rt == Runtime
        rs == RuleSet
    IN /\ ~DriverCanProduceLogs(rt, ImageLoad)
       /\ \A g \in DOMAIN rs : ~ExcludesLess(rs[g])
       => \A have \in SUBSET Kinds : ~DriverCapture(rt, ImageLoad, have)

\* Neither shortcut, dropping an event early or not producing it, changes a
\* verdict.
ShortcutsKeepTheVerdict == EarlyRejectIsFinal /\ SwitchedOffHasNothingToLog

\* Violated.  Leaving the version resource unread must not change the verdict
\* ("preserve behavior", rules.c 1560).
PruningPreservesBehavior ==
    LET rt == Runtime
    IN DriverCapture(rt, ImageLoad, DriverFills(rt, TRUE))
         <=> DriverCapture(rt, ImageLoad, {"raw", "hash", "version"})
=============================================================================
