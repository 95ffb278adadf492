CONSTANTS
    Locals <- MCLocals
    FuncTypes <- MCFuncTypes
    Callees = {"wasm", "raw"}
    MaxStack = 3
SPECIFICATION Spec
INVARIANTS AcceptedCodeCompiles StaticStacksAgree SlotsMatchTypes TrapsSurviveOptimisation
