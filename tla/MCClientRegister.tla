-------------------------- MODULE MCClientRegister --------------------------
(* Small instances of ClientRegister for TLC.                              *)
EXTENDS ClientRegister, TLC

Dir_a == <<"a">>
Dir_ax == <<"a", "x">>
Dir_ay == <<"a", "y">>
Dir_axz == <<"a", "x", "z">>

\* Three directories one in the other, and one beside the second.
MCDirs == {Dir_a, Dir_ax, Dir_ay, Dir_axz}

MCNamePrefix == {}

Symmetry == Permutations(Client)
=============================================================================
