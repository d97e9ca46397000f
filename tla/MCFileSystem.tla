----------------------------- MODULE MCFileSystem -----------------------------
(* FileSystem on a small instance: an empty file and one with data. *)
EXTENDS FileSystem, TLC
CONSTANTS empty, text
TwoContents == {empty, text}
FileSymmetry == Permutations(Files)
TwoSizes == empty :> 0 @@ text :> 1
=============================================================================
