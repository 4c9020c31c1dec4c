----------------------------- MODULE MCRoleSlot -----------------------------
EXTENDS RoleSlot, TLC

\* Three processes of two users, one handle each.
OneEach == 1 :> 1 @@ 2 :> 2 @@ 3 :> 3
Users   == 1 :> "u" @@ 2 :> "u" @@ 3 :> "v"

\* Two handles in process 1, one in process 2.
TwoInOne == 1 :> 1 @@ 2 :> 1 @@ 3 :> 2

=============================================================================
