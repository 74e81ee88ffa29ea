SPECIFICATION FairSpec
CONSTANTS
  a = a
  b = b
  chat = chat
  query = query
  Clients = {a, b, d}
  Commands = {chat, query}
  Sender <- Senders
  Rf = {chat}
  Own = {o}
  None = None
  MaxClients = 2
INVARIANTS TypeOK InvitedHaveRoom StraysFollowALapse
PROPERTIES ServedAsPromised GivenUpIsNotSent TransactionsEnd
CHECK_DEADLOCK FALSE
