CONSTANTS
  Tasks = {t1, t2}
  ApiMsgs = {a1, a2}
  InpktMsgs = {i1}
  NoMsg = NoMsg
  MboxSize = 5
SPECIFICATION FairSpec
INVARIANTS TypeOK OneHolder NoMsgLost OneWaker ReclaimPending
PROPERTIES ImplementsRpc CallsReturn
