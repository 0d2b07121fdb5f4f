SPECIFICATION OneCertificate
CONSTANTS
  None = None
  Default = Default
  Infinity = 4
  OvpnClients = {"c", "d"}
  Certs <- OwnOrShared
  VpnPool = {1}
  OvpnTries = 2
  MaxOvpnFaults = 2
  Laptops = {"c", "d"}
  Secrets <- L2tpOneWrong
  L2tpPool = {1}
  L2tpRetransmits = 1
  MaxL2tpFaults = 1
  RaClients = {"c", "d"}
  RaSecrets <- RaOneWrong
  RaPools = {{1}, {2}}
  RaRetransmits = 1
  MaxRaFaults = 1
PROPERTY StaysOut
CHECK_DEADLOCK FALSE
