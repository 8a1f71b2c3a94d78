----------------------------- MODULE MCObjects ------------------------------
(* Clients that are alike, and creations that fail where the code undoes it,  *)
(* and where it does not.                                                     *)
EXTENDS Objects, TLC

MCFails == {<<"ldev", "core">>, <<"ldev", "media">>, <<"lgrp", "core">>,
            <<"lgrp", "media">>, <<"lgrp", "sysfs">>, <<"mac", "core">>,
            <<"mac", "sysfs">>, <<"link", "sysfs">>}

Symmetry == Permutations(Clients)

=============================================================================
