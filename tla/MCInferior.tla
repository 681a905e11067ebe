----------------------------- MODULE MCInferior -----------------------------
EXTENDS Inferior
CONSTANTS main, a, b, usr, int
=============================================================================
