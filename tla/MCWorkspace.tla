------------------------------ MODULE MCWorkspace ------------------------------
(* Two runs for TLC: the first is started in the main checkout, the second *)
(* in the worktree of the first or in one of the user's.  The confinement  *)
(* hook of the project, the docker tools and the files of a stack share    *)
(* nothing with them: a behaviour is about one of the four, as its first   *)
(* state says.                                                             *)
EXTENDS Workspace, Hooks, DockerTools, StackFiles, TLC

CONSTANTS r1, r2, m1, m2, t1, t2, v1, v2

VARIABLE part

Call(from, newWorktree) == [from |-> from, newWorktree |-> newWorktree]
SomeAsked == r1 :> {Call(Root, FALSE)} @@ r2 :> {Call(r1, FALSE), Call(Own, FALSE)}

Init ==
  /\ part \in {"workspace", "hooks", "docker", "stacks"}
  /\ WorkspaceInit
  /\ HooksInit
  /\ DockerInit
  /\ StackInit
  /\ part # "workspace" => Topic \notin DOMAIN local
  /\ hook = IF part = "hooks" THEN File("old") ELSE NoHook
  /\ part # "docker" => service = "refused" /\ installed
  /\ part # "stacks" => file = [place \in AllPlaces |-> NoStack]

(* Nothing tells two migrations apart.                                     *)
Symmetry == Permutations(Migrations)

Next ==
  /\ UNCHANGED part
  /\ \/ part = "workspace" /\ WorkspaceNext /\ UNCHANGED <<hookVars, dockerVars, stackVars>>
     \/ part = "hooks" /\ HooksNext /\ UNCHANGED <<workspaceVars, dockerVars, stackVars>>
     \/ part = "docker" /\ DockerNext /\ UNCHANGED <<workspaceVars, hookVars, stackVars>>
     \/ part = "stacks" /\ StackNext /\ UNCHANGED <<workspaceVars, hookVars, dockerVars>>
===============================================================================
