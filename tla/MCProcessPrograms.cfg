SPECIFICATION FairProcessSpec
CONSTANTS
    MaxPid = 4
    MaxPipes = 3
    Capacity = 1
    MaxTyped = 2
    JobLines <- MCJobLines
    PipeLines <- MCPipeLines
INVARIANTS ChildrenCounted WiredAsWritten ShownRight
PROPERTIES PipelinesEnd PipeProgramsEnd
CHECK_DEADLOCK FALSE
