SPECIFICATION Spec
CONSTANTS
  Names = {"a", "root"}
  Args <- MCArgs
  Ops <- MCOps
  Middleware = {"m1", "m2"}
  StreamTypes = {"response", "client_stream"}
  MaxCalls = 3
CHECK_DEADLOCK FALSE
INVARIANTS MiddlewareAsDeclared HandlerAfterItsChain EveryRouteReachable
