SPECIFICATION PromptSpec
CONSTANTS
    MaxPrompts = 2
    MaxTurns = 1
    MaxStops = 0
    MaxPhone = 1
    Phones = TRUE
INVARIANT AnswerFits
CHECK_DEADLOCK FALSE
