---------------------------- MODULE MCServicio -----------------------------
(* Instances of Servicio for TLC.                                          *)
EXTENDS Servicio, TLC

CONSTANTS c1, c2

a == Palabra("a.txt")
uno == [num |-> 1, resto |-> ".txt"]   \* a name that begins with an option
p70000 == Numeral(70000)               \* a port that does not fit 16 bits

MCMaxU32 == 2147483647
MCLoopback == 16777343

MCDosClientes == {c1, c2}
MCSimetria == Permutations(MCDosClientes)

MCTextosIp == {"", "127.0.0.1"}
MCInetAddr == [x \in MCTextosIp |-> IF x = "" THEN MCMaxU32 ELSE MCLoopback]
MCNombresA == {a}
MCNombres == {a, uno}
MCPuertos == {Vacio, p70000}
MCOrden == <<Vacio, Palabra(".txt"), Numeral(1), uno, Numeral(MCLoopback),
             Numeral(MCMaxU32), Numeral(Htons(70000)), a>>
=============================================================================
