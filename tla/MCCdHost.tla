----------------------------- MODULE MCCdHost -----------------------------
(***************************************************************************)
(* Shelves of images for CdHost.  One shelf has images of every kind, good *)
(* and bad, to be mounted in any order; one has a sheet with two files;    *)
(* each of the others has a single CHD file, so that between them they     *)
(* cover the shapes of two tracks, and some of three.                      *)
(***************************************************************************)
EXTENDS CdHost

File(name, size) ==
  [cmd |-> "FILE", file |-> name, size |-> size, found |-> TRUE, binary |-> TRUE]
Track(n, type) == [cmd |-> "TRACK", number |-> n, type |-> type]
Index0(at) == [cmd |-> "INDEX0", at |-> at]
Index1(at) == [cmd |-> "INDEX1", at |-> at]
Sheet(name, cue) == [name |-> name, kind |-> "cue", cue |-> cue]

OneFile ==
  Sheet("one.cue", <<File("one.bin", 7), Track(1, "MODE1"), Index1(0),
                     Track(2, "AUDIO"), Index0(3), Index1(4),
                     Track(3, "MODE1"), Index1(6)>>)
TwoFiles ==
  Sheet("two.cue", <<File("a.bin", 3), Track(1, "MODE1"), Index1(0),
                     File("b.bin", 3), Track(2, "AUDIO"), Index0(0), Index1(1)>>)
MissingFile ==
  Sheet("lost.cue", <<File("c.bin", 2), Track(1, "MODE1"), Index1(0),
                      [File("d.bin", 2) EXCEPT !.found = FALSE],
                      Track(2, "AUDIO"), Index1(0)>>)
WrongNumber ==
  Sheet("skip.cue", <<File("e.bin", 2), Track(2, "MODE1"), Index1(0)>>)
NoTracks ==
  Sheet("wave.cue", <<[File("f.wav", 2) EXCEPT !.binary = FALSE],
                      Track(1, "AUDIO"), Index1(0)>>)

Rec(type, frames, pregap, pgvalid, postgap) ==
  [type |-> type, frames |-> frames, pregap |-> pregap, pgvalid |-> pgvalid,
   postgap |-> postgap]
Padded(chd) == ChdFirst(Append(chd, chd[1]), Len(chd) + 1)
ChdImage(name, chd, bad) ==
  [name |-> name, kind |-> "chd", found |-> TRUE, sph |-> 2, chd |-> chd,
   bad |-> bad, hunks |-> IF chd = <<>> THEN 0 ELSE Padded(chd) \div 2]

Plain == ChdImage("plain.chd", <<Rec("MODE1", 3, 0, FALSE, 0),
                                 Rec("AUDIO", 3, 1, TRUE, 0)>>, {})
Scratched == ChdImage("bad.chd", <<Rec("AUDIO", 4, 0, FALSE, 0)>>, {1})
Empty == ChdImage("empty.chd", <<>>, {})
Absent == [Plain EXCEPT !.name = "absent.chd", !.found = FALSE]

Mixed == {OneFile, MissingFile, WrongNumber, NoTracks, Plain, Scratched,
          Empty, Absent}

Recs(type, frames) ==
  {Rec(type, n, p, v, 0) : n \in frames, p \in {0, 2}, v \in BOOLEAN}

Generated ==
  {{ChdImage("gen.chd", <<a, b>>, {})} :
     a \in Recs("MODE1", {3, 4}),
     b \in {[r EXCEPT !.postgap = 1] : r \in Recs("AUDIO", {2, 5})}}
  \cup
  {{ChdImage("gen.chd", <<Rec("MODE1", 2, 0, FALSE, 0), a, b>>, {})} :
     a \in Recs("AUDIO", {3}), b \in Recs("MODE1", {4})}

AllShelves == {Mixed, {TwoFiles, OneFile}} \cup Generated

TocLba == -10

SomeRequests ==
  ({-10, -8} \X {1}) \cup ((0 .. 11) \X {1}) \cup ({0, 1, 3, 5, 6} \X {2})
=============================================================================
