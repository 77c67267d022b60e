CONSTANTS
  NoNum = NoNum
  Orden <- MCOrden
  Nombres <- MCNombres
  TextosIp <- MCTextosIp
  InetAddr <- MCInetAddr
  TextosPuerto <- MCPuertos
  MaxU32 <- MCMaxU32
  MaxAltas = 4
  MaxArranques = 3
SPECIFICATION SpecServidor
INVARIANTS TypeOKServidor NadaInventado
PROPERTIES RecuperaPrefijo TablaSoloCrece ImplementaDirectorio
CHECK_DEADLOCK FALSE
