---------------------------- MODULE MCServidor -----------------------------
(* Instances of Servidor for TLC.                                          *)
EXTENDS Servidor

a == Palabra("a.txt")
uno == [num |-> 1, resto |-> ".txt"]   \* "1.txt"
p5050 == Numeral(5050)

MCMaxU32 == 2147483647

\* The empty text is what inet_addr turns into INADDR_NONE.
MCTextosIp == {"", "0.0.0.0"}
MCInetAddr == [x \in MCTextosIp |-> IF x = "" THEN MCMaxU32 ELSE 0]
MCNombres == {a, uno}
MCPuertos == {Vacio, p5050}

\* Keys in the order of std::map.
MCOrden == <<Vacio, Palabra(".txt"), Numeral(0), Numeral(1), uno,
             Numeral(MCMaxU32), Numeral(Htons(5050)), a>>
=============================================================================
