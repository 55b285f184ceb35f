SPECIFICATION Spec
CONSTANTS
    Families <- MCFamilies
    SourcesOf <- MCSourcesOf
    AnswersTo <- MCAnswersTo
    Params <- MCParams
    Upvalues = {"u", "me"}
    Globals = {"f", "g", "set", "h", "len", "push", "S"}
    Inline <- MCInline
    Shared = {"c"}
    Small = {"1", "2", "0"}
    Below <- MCBelow
    MaxRegisters = 256
INVARIANTS Accepted Faithful Parses Sound
PROPERTY Progress
CHECK_DEADLOCK FALSE
