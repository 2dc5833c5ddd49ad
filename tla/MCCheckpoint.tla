---------------------------- MODULE MCCheckpoint ----------------------------
(* A batch of two files and one of one file.  The second commit edits two  *)
(* of the files, the third removes one.                                    *)
EXTENDS Checkpoint, TLC

CONSTANTS b1, b2, f1, f2, f3, c1, c2, c3

MCFilesOf == (b1 :> {f1, f2}) @@ (b2 :> {f3})
MCBlobAt ==
  [c \in {c1, c2, c3} |-> [f \in {f1, f2, f3} |->
     IF c = c3 /\ f = f2 THEN NoBlob
     ELSE IF c # c1 /\ f # f1 THEN <<f, 2>> ELSE <<f, 1>>]]
=============================================================================
