-------------------------- MODULE MCKeycloakTasks --------------------------
(* Two shells on one token file while two of the four realms are deleted    *)
(* and imported again and again.                                            *)
EXTENDS KeycloakTasks, TLC

MCToImport == <<"authority", "onboarding">>
MCToDelete == {"authority", "onboarding"}
Symmetric == Permutations(Shells) \cup Permutations(Tokens)
=============================================================================
