CONSTANTS
  Callers = {ann, ben}
  ann = ann
  ben = ben
  NoCaller = NoCaller
  MaxCalls = 1
  MaxRestarts = 0
  MaxConns = 4
SPECIFICATION PromptSpec
PROPERTY EveryCallReturns
CHECK_DEADLOCK FALSE
