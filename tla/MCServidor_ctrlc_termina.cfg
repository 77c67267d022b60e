CONSTANTS
  NoNum = NoNum
  Orden <- MCOrden
  Nombres <- MCNombres
  TextosIp <- MCTextosIp
  InetAddr <- MCInetAddr
  TextosPuerto <- MCPuertos
  MaxU32 <- MCMaxU32
  MaxAltas = 1
  MaxArranques = 1
SPECIFICATION FairSpecServidor
PROPERTY CtrlCTermina
CHECK_DEADLOCK FALSE
