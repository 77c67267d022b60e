CONSTANTS
  s = s
  x = x
  y = y
  A = A
  B = B
  Cc = Cc
  d1 = d1
  d2 = d2
  d3 = d3
  Nodos <- MCNodos
  Carpeta <- MCCarpeta
  Descargas <- MCDescargas
  Quien <- MCQuien
  De <- MCDe
  Contenido <- MCContenido
  Completas <- MCCompletas
  Sirven <- MCSirven
  Ausente = Ausente
  Hueco <- MCHueco
  Nadie = Nadie
  Tam = 2
  Ventana = 1
  Lentas <- MCNinguna
SPECIFICATION Spec
INVARIANTS TypeOK PosicionCorrecta DestinoCompleto HebraCaePorUnPar
PROPERTIES ImplementaCopia
CHECK_DEADLOCK FALSE
