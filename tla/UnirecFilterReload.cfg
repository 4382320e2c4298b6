\* A file edited twice while the outputs are at work.
SPECIFICATION Spec
CONSTANTS
  TypeOf <- MCTypeOf
  TreeOf <- MCTreeOf
  Treeless <- MCTreeless
  Evaluate <- MCEvaluate
  IsPlain <- MCIsPlain
  FieldsUsed <- MCFieldsUsed
  Says <- MCSays
  ProtocolNo <- MCProtocolNo
  Matching <- MCMatching
  Wrap <- MCWrap
  MaxDynamic = 2
  AddressBits = 3
  Programs <- MCReload
  Null <- MCNull
  Junk <- MCJunk
  MaxReceived = 3
  MaxTimeouts = 1
INVARIANT
  ReloadTakesEffect
CHECK_DEADLOCK FALSE
