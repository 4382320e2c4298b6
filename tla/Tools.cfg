\* Every small tool, on two inputs, three values or a few lines each.
SPECIFICATION Spec
CONSTANTS
  MergerIfcs <- MCMergerIfcs
  MergerFormats <- MCMergerFormats
  UserTemplates <- MCUserTemplates
  NoTemplate <- MCNoTemplate
  MaxMessages = 3
  Tools <- MCTrafficTools
  LinkFiles <- MCLinkFiles
  LinkValues <- MCLinkValues
  Protocols <- MCProtocols
  ProtoValues <- MCProtoValues
  Width = 16
  BufferLinks = 2
  MaxRecords = 2
  MaxReplies = 1
  LogFormats <- MCLogFormats
  Digits <- MCDigits
  Texts <- MCTexts
  Delimiters <- MCDelimiters
  MaxText = 3
  MaxLines = 2
  MaxClock = 2
  V4Sources <- MCV4Sources
  V6Sources <- MCV6Sources
  TunnelTypes <- MCTunnelTypes
  Sizes <- MCSizes
  MaxSeconds = 3
  MaxFlows = 3
  FwdFormats <- MCFwdFormats
  Addresses <- MCAddresses
  TagPrefixes <- MCTagPrefixes
  FwdMessages = 2
  DeviceFlows <- MCDeviceFlows
  DeviceOptions <- MCDeviceOptions
  FirstModels <- MCFirstModels
  Untrained <- MCUntrained
  AddressBits = 2
  TimeWrap = 16
  UsageThreshold = 40
  MaxDeviceFlows = 3
  MaxLaunches = 2
INVARIANTS
  SentAsReceived RepliesTruthful ReplayedAsLogged UniquesExact SentOnAsReceived
  ReportsExact TrainingUnambiguous
PROPERTY SetupFailureEnds
CHECK_DEADLOCK FALSE
