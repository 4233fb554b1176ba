------------------------------ MODULE MCDialFs ------------------------------
(***************************************************************************)
(* Instances of the file system for TLC.                                   *)
(***************************************************************************)
EXTENDS PropiedadesDialFs, TLC

CONSTANTS A, B, C

DosNombres == {A, B}

TresNombres == {A, B, C}

\* The code compares names with each other and with nothing else.
Simetria == Permutations(Nombres)
=============================================================================
