------------------------------ MODULE MC_DataStore ------------------------------
(***************************************************************************)
(* The arguments a script passes: a plain name, a fixed index that leaves *)
(* a gap below it, "N#" and "N#1+"; the root path, a fixed path and "P#"; *)
(* literal, "N#*" and "*" patterns.                                         *)
(***************************************************************************)
EXTENDS DataStore, FiniteSets

MCValues == {"v"}
MCNameArgs == {Plain("x"), Fixed("N", 2), Fresh("N"), After("N", 1)}
MCPathArgs == {Root, Fixed("P", 1)}
MCNewPaths == {Fixed("P", 1), Fresh("P")}
MCNamePats == {Plain("x"), Fixed("N", 1), Wild("N"), AnyKey}
MCPathPats == {Root, Wild("P"), AnyKey}
MCCopyPaths == {Root, Fixed("P", 1)}

(* A name at INT_MAX, which a script may store as "N#2147483647", and the *)
(* allocations after it, with at most MaxNames names in a path.            *)
EdgeNameArgs == {Fixed("N", IntMax), Fresh("N")}
EdgeValues == {"v", "w"}
MaxNames == 3
WithinMaxNames == \A pk \in DOMAIN store : Cardinality(DOMAIN store[pk]) <= MaxNames
====
