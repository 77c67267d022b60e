CONSTANTS
  NoNum = NoNum
  Orden <- MCOrden
  Nombres <- MCNombres
  TextosIp <- MCTextosIp
  InetAddr <- MCInetAddr
  TextosPuerto <- MCPuertos
  MaxU32 <- MCMaxU32
  MaxAltas = 3
  MaxArranques = 2
SPECIFICATION SpecServidor
PROPERTY CtrlCGuarda
CHECK_DEADLOCK FALSE
