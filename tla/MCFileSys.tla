----------------------------- MODULE MCFileSys -----------------------------
(***************************************************************************)
(* Three names and room in the directory for two user files, of no bytes   *)
(* or of five, on a disk of ten three-byte sectors, four of them for user  *)
(* files: the directory fills, and so does the disk.  Requests of two      *)
(* bytes cross from one sector into the next, and the last piece of a      *)
(* copy is one byte.  One user file is open at a time.                     *)
(***************************************************************************)
EXTENDS FsTest

CONSTANTS f, g, h

Symmetry == Permutations(UserNames)

MCBuffers == {<<0, 1>>}
MCUnixFiles == {<<1, 0, 0, 1, 1>>}
=============================================================================
