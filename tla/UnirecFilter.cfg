\* Every kind of term on the command line; two outputs and a file edited twice.
SPECIFICATION Spec
CONSTANTS
  TypeOf <- MCTypeOf
  TreeOf <- MCTreeOf
  Treeless <- MCTreeless
  Evaluate <- MCEvaluate
  IsPlain <- MCIsPlain
  FieldsUsed <- MCFieldsUsed
  Says <- MCSays
  ProtocolNo <- MCProtocolNo
  Matching <- MCMatching
  Wrap <- MCWrap
  MaxDynamic = 2
  AddressBits = 3
  Programs <- MCPrograms
  Null <- MCNull
  Junk <- MCJunk
  MaxReceived = 3
  MaxTimeouts = 1
INVARIANTS
  VerdictsMeanFilter
  FieldsFollowRecord
CHECK_DEADLOCK FALSE
