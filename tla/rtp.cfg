SPECIFICATION RtpSpec
CONSTANTS
  Messages <- MCMessages
  MAX_PAYLOAD_LENGTH = 3
  Strippable = {0, 48, 120}
  piglatinize <- MCPiglatinize
INVARIANTS AcceptedInOrder ExitsOnlyOnLoss
PROPERTIES ImplementsExchange Finishes
CHECK_DEADLOCK FALSE
