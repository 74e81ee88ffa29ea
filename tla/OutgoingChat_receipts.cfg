SPECIFICATION Spec
CONSTANTS
  Msgs = {m1}
  Others = {o1}
  Codes = {c1, c2}
  News = {"failed"}
  None = None
SYMMETRY Symmetry
INVARIANTS TypeOK ReceiptIsTrue
 
