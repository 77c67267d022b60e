CONSTANTS
  Principal = Principal
  Arbol = Arbol
  Nada = Nada
  w1 = w1
  w2 = w2
  ff = ff
  gg = gg
  a1 = a1
  a2 = a2
  a3 = a3
  a4 = a4
  b1 = b1
  Trabajadores <- MCTrabajadores
  Ficheros <- MCFicheros
  Altas <- MCAltas
  FicheroDe <- MCFicheroDe
SPECIFICATION SpecConc
INVARIANT AltaEnTabla
CHECK_DEADLOCK FALSE
SYMMETRY MCSimetria
