-------------------------- MODULE MCWorkspaceAccess --------------------------
(* WorkspaceAccess with a workspace that has an owner, an admin and an agent. *)
EXTENDS WorkspaceAccess, TLC

CONSTANTS u1, u2, u3, w1, w2, d1

MCHome == (d1 :> w1)
Row(i, w, u, role) == [id |-> i, workspace |-> w, user |-> u, role |-> role]
MCFounding == {Row(1, w1, u1, "owner"), Row(2, w1, u2, "admin"),
               Row(3, w1, u3, "agent")}

Symmetry == Permutations(Request)
=============================================================================
