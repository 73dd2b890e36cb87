INIT RuleInit
NEXT RuleNext
CONSTANTS
    Expressions <- DriverExpressions
    MaxGroups = 1
    MaxNodes = 2
    MaxFields = 2
    MaxRules = 1
INVARIANTS
    PruningPreservesBehavior
CHECK_DEADLOCK FALSE
