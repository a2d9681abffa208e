--------------------------- MODULE MCSkillLibrary ---------------------------
(***************************************************************************)
(* Small instances of SkillLibrary: tasks, commits and slugs are           *)
(* interchangeable, the paths are ordered.                                 *)
(***************************************************************************)
EXTENDS SkillLibrary, TLC

MCPaths == <<"x", "y">>

Symmetry == Permutations(Tasks) \cup Permutations(Commits) \cup Permutations(Slugs)
=============================================================================
