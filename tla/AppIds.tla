------------------------------- MODULE AppIds -------------------------------
(***************************************************************************)
(* The data every part of the package pipeline names: application ids, the *)
(* versions a repository may publish for them, and operations on them.     *)
(***************************************************************************)
CONSTANTS Apps,               \* application ids
          Versions,           \* published versions
          None                \* no application, no version

ASSUME NoneIsNeither == None \notin Apps /\ None \notin Versions

VersionOrNone == Versions \cup {None}

NoJob == [kind |-> "none", app |-> None, version |-> None]
Job == [kind : {"install"}, app : Apps, version : Versions]
         \cup [kind : {"uninstall"}, app : Apps, version : {None}]
=============================================================================
