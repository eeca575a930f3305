----------------------------- MODULE MCCodegen ------------------------------
(* An instance of Codegen for TLC: the first version of a contract declares *)
(* every method name of at most MaxLength characters, the second one name.  *)
(* The import path of the first service names the last file, that of the    *)
(* second service the first file.                                           *)
EXTENDS Codegen

CONSTANT MaxLength

Name == {m \in UNION {[1..n -> {"a", "A", "1"}] : n \in 1..MaxLength} : m[1] = "a"}

ImportPaths == <<2, 1>>

AllNames == <<Name, {<<"a">>}>>
=============================================================================
