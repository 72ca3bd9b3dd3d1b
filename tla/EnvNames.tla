------------------------------- MODULE EnvNames -------------------------------
(***************************************************************************)
(* The names of environment variables, compared as the platform does:      *)
(* EnvName of crates/vt_casefold and EnvGlob of crates/vt_glob.  A name is *)
(* one of a few, with the variants in another case that matter; a prefix   *)
(* is a first letter.                                                      *)
(***************************************************************************)

Upper(n) ==
  CASE n = "ipc" -> "IPC" [] n = "foo" -> "FOO" [] n = "f" -> "F" [] OTHER -> n

First(n) == CASE n = "FOO" -> "F" [] n = "foo" -> "f" [] OTHER -> "B"

(* Mutant: names are compared as they are spelled.                         *)
AsSpelled(windows, n) == n

(* EnvNameCaseRule: Windows takes names without their case.                *)
Fold(windows, n) == IF windows THEN Upper(n) ELSE n

SameName(windows, a, b) == Fold(windows, a) = Fold(windows, b)

(* Folded::starts_with, and a glob that is a prefix and a star.            *)
Starts(windows, n, prefix) == Fold(windows, First(n)) = Fold(windows, prefix)

(* The names of a map that are equal to a name; a map has one at most.     *)
Equal(windows, map, name) == {k \in DOMAIN map : SameName(windows, k, name)}

(* An equal name that is there keeps its spelling; its value is replaced.  *)
Insert(windows, map, name, value) ==
  LET there == Equal(windows, map, name)
      names == IF there = {} THEN {name} ELSE there
  IN  [k \in DOMAIN map \cup names |-> IF k \in names THEN value ELSE map[k]]
=============================================================================
