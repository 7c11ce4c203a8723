\* Reads and writes of all widths; answers are late, short, wide and lenient.
SPECIFICATION Spec
CONSTANTS
  word = word
  long = long
  Byte = 2
  SizeOf <- WordAndLong
  Values <- BoundaryValues
  TidOk = FALSE
  MaxRequests = 2
  MaxRepeats = 1
INVARIANTS
  TypeOK
  WriteAckMeansWritten
  StoredIsMeant
  ReadsWhatIsStored
  RefusedIsNotExecuted
