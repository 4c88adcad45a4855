SPECIFICATION ChatSpec
CONSTANTS
  MaxToolIterations = 4
  NoText = NoText
  Sorry = Sorry
  Refusal = Refusal
  Tool <- MCTool
  Histories <- MCHistories
  CallLists <- MCCallLists
INVARIANTS
  ChatTypeOK
  ConversationIsWellFormed
  ReplyIsNewest
  AuditTellsWhatHappened
PROPERTIES
  AnsweredOnce
  EveryChatEnds
CHECK_DEADLOCK FALSE
