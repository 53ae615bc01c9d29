---------------------------- MODULE MCLifecycle ----------------------------
\* Instances of Lifecycle for TLC.
EXTENDS Lifecycle, TLC

CONSTANTS default, other, none, c1, c2

MCAccounts == {default, other}
MCClients  == {c1, c2}
MCOneClient == {c1}
MCSymmetry == Permutations(MCClients)

\* Loads of nothing, and of a VPC recorded without its defaults.
MCLoadedKinds == {{}, {"bare"}}
=============================================================================
