--------------------------- MODULE MCPythonSimCore ---------------------------
(* Small instances of PythonSimCore.                                       *)
EXTENDS PythonSimCore, TLC

NodeSymmetry == Permutations(Nodes)
=============================================================================
