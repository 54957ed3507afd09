------------------------------- MODULE MCCases -------------------------------
EXTENDS Cases
Instruction == {<<11, 2, 3, 4>>, <<200, 255, 0, 128>>}
MCChunks == [lua54 : BOOLEAN, source : {-1, 3, 130}, lastline : {0, 200}, vaflag : 0 .. 3,
             maxstack : {2, 250}, code : {<<i>> : i \in Instruction} \union (Instruction \X Instruction)]
=============================================================================
