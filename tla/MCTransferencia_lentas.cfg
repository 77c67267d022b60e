CONSTANTS
  s = s
  x = x
  y = y
  A = A
  B = B
  Cc = Cc
  d1 = d1
  d2 = d2
  d3 = d3
  Nodos <- MCNodos
  Carpeta <- MCCarpeta
  Descargas <- MCDosDescargas
  Quien <- MCQuien
  De <- MCDe
  Contenido <- MCContenido
  Completas <- MCCompletas
  Sirven <- MCNodos
  Ausente = Ausente
  Hueco <- MCHueco
  Nadie = Nadie
  Tam = 2
  Ventana = 1
  Lentas <- MCLentas
SPECIFICATION FairSpec
PROPERTY Acaba
CHECK_DEADLOCK FALSE
