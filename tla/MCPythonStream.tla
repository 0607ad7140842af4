--------------------------- MODULE MCPythonStream ---------------------------
(* Instances of PythonStream for TLC. *)
EXTENDS PythonStream
=============================================================================
