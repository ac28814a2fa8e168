SPECIFICATION Spec
CONSTANTS
    Dialects = {"anthropic", "openai", "anthropic-openai", "gemini", "bedrock"}
    Usages <- MCUsages
    Price <- MCPrice
    BufferSize = 1
    NoAnswer = NoAnswer
    NoRow = NoRow
INVARIANTS
    TypeOK
    EveryTokenPricedOnce
    CutNeverOvercharged
    DeliveredIsBilled
CHECK_DEADLOCK FALSE
