CONSTANTS
  Callers = {ann, ben}
  ann = ann
  ben = ben
  NoCaller = NoCaller
  MaxCalls = 2
  MaxRestarts = 1
  MaxConns = 6
SPECIFICATION LiveSpec
INVARIANTS TypeOK AnswersOwnRequest
PROPERTIES CallsReturn ReadsAreTimed
CHECK_DEADLOCK FALSE
