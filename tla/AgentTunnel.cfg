\* One agent with an up connection and a late one, a request and a rotation.
CONSTANTS
  a1 = a1
  c1 = c1
  c2 = c2
  NoConn = NoConn
  NoToken = NoToken
  Bad = Bad
  Down = Down
  Agents <- OneAgent
  Conns <- TwoConns
  Owner <- OneOwner
  Requests = {r1}
  Rotators = {k1}
  MaxFaults = 2
  MaxTokens = 1
SPECIFICATION FairSpec
INVARIANTS
  TypeOK
  NoLeakedSession
  LinkedAgentIsRegistered
  RotationDropsRegistered
  TokenDurable
PROPERTIES
  ImplementsDirectory
  AgentComesBack
  DeadSessionLeaves
