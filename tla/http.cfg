SPECIFICATION Spec
CONSTANTS
  cr = cr
  nl = nl
  zero = zero
  Bytes = {cr, nl, zero, "get11", "post11", "head10", "length", "keepalive", "close", "chunked", "field", "nocolon"}
  Newline = nl
  Return = cr
  Zero = zero
  Capacity = 3
  MaxSize = 64
  Messages <- MCMessages
  MaxMessages = 2
  Lines <- MCLines
  BodyLength = 2
  MaxLine = 3
CHECK_DEADLOCK FALSE
INVARIANTS RequestsFramed AllAnswered
PROPERTIES ImplementsByteQueue
