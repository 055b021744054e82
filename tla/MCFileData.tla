---------------------------- MODULE MCFileData ----------------------------
(***************************************************************************)
(* Two files on a disk of four blocks, each with one direct, one indirect  *)
(* and one double indirect entry and tables of two words: the disk runs    *)
(* full, files have holes, and 1 is data that is also a block number.      *)
(***************************************************************************)
EXTENDS FileData, TLC

FilesSymmetry == Permutations(Files)
=============================================================================
