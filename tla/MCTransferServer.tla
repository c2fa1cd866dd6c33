------------------------- MODULE MCTransferServer -------------------------
(***************************************************************************)
(* TransferServer for TLC: files of one source directory, or clients.      *)
(***************************************************************************)
EXTENDS TransferServer, TLC

CONSTANTS rec, gui, s1, s2, f1, f2, x1

FileSymmetry == Permutations({f1, f2})

One == (s1 :> 1)
OneSource == (f1 :> s1) @@ (f2 :> s1) @@ (x1 :> s1)
OneDir == (f1 :> "main") @@ (f2 :> "main") @@ (x1 :> "xml")
Two == (s1 :> 1) @@ (s2 :> 2)
LowSource == (f2 :> s2)
LowDir == (f2 :> "main")
=============================================================================
