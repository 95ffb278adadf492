CONSTANTS
    BlockTypes <- MCBlockTypes
    Alphabets <- MCAlphabets
    Conditions <- MCConditions
    MaxLen = 9
    MaxHeight = 3
    Fuel = 32
SPECIFICATION Spec
CHECK_DEADLOCK FALSE
INVARIANTS EnginesAgree LabelsResolve BuilderNeverPanics StacksFollowValidation
