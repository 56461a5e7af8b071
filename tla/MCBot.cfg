SPECIFICATION FairSpec
CONSTANTS
  Endpoints = {"WebSocket", "REST"}
  MaxOrders = 3
  MaxAnswers = 2
  AckCap = 1
  NetCap = 1
INVARIANT AnswersAccounted
PROPERTIES BotEnds ImplementsWorker
CHECK_DEADLOCK FALSE
