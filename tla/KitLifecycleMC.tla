---------------------------- MODULE KitLifecycleMC ----------------------------
(* What the small instance of KitLifecycle finds. *)
EXTENDS KitLifecycle

(* No kit; and a record that somebody wrote by hand, ahead of the gates it   *)
(* lists, as .kitbuilder/projects/live-server-kit/kit.project.json is, with  *)
(* the artifacts it speaks of and with a lesson.                             *)
FoundTrees ==
    {[project |-> Absent, artifacts |-> {}, lessons |-> <<>>],
     [project |-> [state |-> 2, gates |-> {}, history |-> <<1>>],
      artifacts |-> {1, 2}, lessons |-> <<1>>]}
=================================================================================
