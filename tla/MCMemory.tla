------------------------------ MODULE MCMemory ------------------------------
(***************************************************************************)
(* Units of four bytes.  1 MB is at 8 and USER_MEM_START at 36; the kernel *)
(* takes the first bytes above 1 MB, and the command line lies elsewhere,  *)
(* in the middle of the heap or a byte away from the kernel.               *)
(***************************************************************************)
EXTENDS Memory

Info(lower, upper, kernel, others) ==
    [mem_lower |-> lower, mem_upper |-> upper, kernel |-> kernel, others |-> others]

MCBootInfos ==
    {Info(7, 30, Hole(8, 10), <<Hole(17, 18)>>),
     Info(5, 29, Hole(8, 13), <<Hole(14, 15), Hole(15, 19), Hole(28, 36)>>),
     Info(5, 30, Hole(8, 10), <<Hole(12, 14), Hole(15, 16), Hole(33, 38)>>)}
=============================================================================
