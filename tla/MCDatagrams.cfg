SPECIFICATION Spec
CONSTANTS
  Byte = 6
  Signature <- MCSignature
  Version = 1
  Magic = 9
  MaxRawBytes = 8
  IdRange = 1296
  MaxChunks = 2
  NoShape = NoShape
  MaxPayload = 16
  Units <- MCUnits
  Images <- MCImages
  CaptureTimes <- MCCaptureTimes
  Ids = {5, 7, 40}
  MaxSent = 3
  None = None
CHECK_DEADLOCK FALSE
INVARIANTS
  TypeOK
  DeliveredAsSent
  TakesUpOwnProtocol
