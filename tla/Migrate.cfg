SPECIFICATION Spec
CONSTANTS
    Source <- MCSource
    BatchSize = 2
    MaxRun = 2
CHECK_DEADLOCK FALSE
INVARIANTS FreshRunIsFaithful ReportIsTruthful MoneyDiffIsExplained
