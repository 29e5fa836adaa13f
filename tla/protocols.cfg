CONSTANTS
    Malformed = Malformed
    TemplateV3 <- SmallV3
    TemplateV5 <- SmallV5
    Arguments <- SmallArguments
    Procedures <- SmallProcedures
    Columns <- SmallColumns
    Strings = {"x", "y", "z"}
    MaxWanted = 3
    MaxRetrys = 1
    MaxCalls = 2
SPECIFICATION Spec
INVARIANTS
    RunsTemplate
    OnlyCheckedRuns
    UniqueStrings
\* Calls are bounded.
CHECK_DEADLOCK FALSE
