------------------------------- MODULE MCBruck -------------------------------
(* Cases for BruckLockstep.                                                *)
EXTENDS BruckLockstep

\* Every team size with nelems = 1, and power-of-two sizes with more.
PassCases == ((1..16) \X {1}) \cup ({1, 2, 4, 8, 16} \X (2..3))

\* A team size that is not a power of two, with nelems = 2.
ThreeByTwo == {<<3, 2>>}

=============================================================================
