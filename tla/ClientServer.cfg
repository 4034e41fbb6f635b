SPECIFICATION Spec
CONSTANTS
    program = program
    signal = signal
    Stoppers <- OneProgram
    Signal = signal
    MaxStarts = 1
    MaxSockets = 2
    MaxCalls = 3
    MaxWork = 4
    MaxRequestId = 2
INVARIANTS
    AnswersFindTheirCall
    NoCallForgotten
    NoSocketLeaks
    EngineOutlivesSessions
PROPERTIES
    
    PromisesSettle
    StopsReturn
CHECK_DEADLOCK FALSE
