CONSTANTS
  Size = 3
  Message = {z, a, b}
  Zero = z
SPECIFICATION Spec
INVARIANT IndicesAgree
PROPERTY IsFifo
