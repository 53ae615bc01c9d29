-------------------------- MODULE MCSecretsManager --------------------------
(* Small instances of SecretsManager for TLC. *)
EXTENDS SecretsManager, TLC

MCSymmetry == Permutations(Clients) \cup Permutations(Versions) \cup Permutations(Names)

MCDefault == {{}}
MCLabels  == {{}, {"AWSPENDING"}, {"AWSCURRENT", "AWSPENDING"}}
=============================================================================
