---------------------------- MODULE MCBackupXfer ----------------------------
(* The situations in which TLC checks the backup RAM transfer.             *)
EXTENDS BackupXfer

Whole == {FALSE}      \* images end with a block
Any == BOOLEAN

Situation(words, blocks, romWords, mountable, tails, remounts, autoload) ==
  [words |-> words, blocks |-> blocks, rom |-> romWords, mountable |-> mountable,
   tails |-> tails, remounts |-> remounts, autoload |-> autoload]

(* Both volumes with images of up to two blocks; images of one or both     *)
(* replaced in any cycle; one image and a ROM download at the same time.   *)
MountsOrDownload ==
  {Situation(1, 2, 0, {0, 1}, Whole, FALSE, TRUE),
   Situation(2, 1, 0, {0, 1}, Any, TRUE, TRUE),
   Situation(2, 2, 0, {0}, Any, TRUE, FALSE),
   Situation(2, 2, 0, {1}, Any, TRUE, FALSE),
   Situation(1, 1, 1, {1}, Whole, FALSE, TRUE)}

(* One image on volume 0, mounted in any cycle.                            *)
OneImage == {Situation(1, 1, 0, {0}, Any, TRUE, TRUE)}
=============================================================================
