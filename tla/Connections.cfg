SPECIFICATION FairSpec
CONSTANTS
  Msg = {m1, m2, m3}
  m1 = m1
  m2 = m2
  m3 = m3
  NoMsg = NoMsg
  Servers = {"gateway", "http"}
  Resets = TRUE
  Debug = FALSE
  MaxRemovals = 2
INVARIANTS SendsInOrder BufferedIsAwaited FinAfterOutput ChannelHasOwner UpThenDown
PROPERTIES PeerCloseCleansUp ShutdownSendsFin
CHECK_DEADLOCK FALSE
