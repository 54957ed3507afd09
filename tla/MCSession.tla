------------------------------ MODULE MCSession ------------------------------
EXTENDS Session
MCCasesOf == [h \in Harnesses |-> CASE h \in {"sandbox", "bytecode", "debug", "pairs"} -> 1
                                    [] h = "compile" -> 2
                                    [] OTHER -> 3]
=============================================================================
