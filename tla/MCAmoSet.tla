------------------------------ MODULE MCAmoSet ------------------------------
(* Model-checking instance of AmoSet: PEs are model values.                *)
EXTENDS AmoSet

CONSTANTS p1, p2, p3

MCPEs3 == {p1, p2, p3}
MCPEs2 == {p1, p2}

=============================================================================
