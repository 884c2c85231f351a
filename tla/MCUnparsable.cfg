SPECIFICATION TSpec
CONSTANTS
    Upper <- MCUpper
    Wide = {"ae"}
    Digit = {"2"}
    Separator = {"_"}
    Initialisms <- MCInitialisms
    Keyword <- MCKeyword
    New <- MCNew
    Name <- MCName
    Dialect = {"mysql", "postgresql", "sqlite"}
    Expanding = {"mysql", "sqlite"}
    TextTime = {"sqlite"}
    Path <- MCPath
    Standard <- MCStandard
    LastElement <- MCLastElement
    Declares <- MCDeclares
    PackageSet <- NarrowlyNamed
    YearDigits = 1
    Base = 10
    YearLength = 4
    Moments <- MCMoments
    MaxElements = 1
    MaxCalls = 2
INVARIANT
    AlwaysParses
\* a package is rendered and called a few times
CHECK_DEADLOCK FALSE
