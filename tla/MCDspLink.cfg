SPECIFICATION Spec
CONSTANTS
    MaxWord = 7
    Args <- MCArgs
    Data = {d1, d2}
    NoData = NoData
INVARIANTS
    TypeOK
    InStep
    AnswerIsForCaller
    WindowExclusion
PROPERTIES
    ImplementsService
    CallReturns
