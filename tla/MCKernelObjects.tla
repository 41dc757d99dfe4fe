-------------------------- MODULE MCKernelObjects --------------------------
(* An instance of KernelObjects.                                            *)
EXTENDS KernelObjects
=============================================================================
