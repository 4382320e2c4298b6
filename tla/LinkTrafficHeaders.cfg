\* A record of the first link, and a client.
SPECIFICATION Spec
CONSTANTS
  Tools <- MCTools
  LinkFiles <- MCLinkFiles
  LinkValues = {0, 1}
  Protocols <- MCProtocols
  ProtoValues = {}
  Width = 16
  BufferLinks = 2
  MaxRecords = 2
  MaxReplies = 1
INVARIANT ValuesUnderHeaders
CHECK_DEADLOCK FALSE
