CONSTANTS
  NoNum = NoNum
  c1 = c1
  c2 = c2
  Clientes <- MCDosClientes
  Orden <- MCOrden
  Nombres <- MCNombresA
  TextosIp <- MCTextosIp
  InetAddr <- MCInetAddr
  TextosPuerto <- MCPuertos
  MaxU32 <- MCMaxU32
  MaxAltas = 0
  MaxArranques = 1
  MaxOps = 1
SPECIFICATION SpecServicio
INVARIANT DialogoCasado
CHECK_DEADLOCK FALSE
SYMMETRY MCSimetria
