------------------------------ MODULE MCKShell ------------------------------
EXTENDS KShell

MCEcho == <<"x">>
=============================================================================
