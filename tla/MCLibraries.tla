---------------------------- MODULE MCLibraries -----------------------------
(* Libraries for TLC: the distributions that host/Dockerfile installs. *)
EXTENDS Libraries

PythonPackages == <<"reportlab", "Pillow", "pypdf">>
=============================================================================
