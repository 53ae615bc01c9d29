------------------------------- MODULE MCIAM -------------------------------
(* IAM on small instances. *)
EXTENDS IAM, TLC

CONSTANTS c1, c2, n1, k1, none

MCClients      == {c1, c2}
MCName         == {n1}
MCKeyIds       == {k1}
MCSymmetry     == Permutations(MCClients)

\* Roles and what hangs on them; users and what hangs on them.
MCRoles ==
    {"CreateRole", "DeleteRole", "UpdateRole", "CreatePolicy", "DeletePolicy", "AttachRolePolicy",
     "DetachRolePolicy", "CreateInstanceProfile", "DeleteInstanceProfile", "AddRoleToInstanceProfile",
     "RemoveRoleFromInstanceProfile", "PutRolePolicy", "DeleteRolePolicy", "TagRole", "UntagRole"}
MCUsers ==
    {"CreateUser", "DeleteUser", "CreateAccessKey", "DeleteAccessKey", "PutUserPolicy",
     "DeleteUserPolicy", "CreatePolicy", "DeletePolicy", "AttachUserPolicy", "DetachUserPolicy",
     "TagUser", "UntagUser", "TagPolicy", "UntagPolicy"}
MCMixes == {MCRoles, MCUsers}
=============================================================================
