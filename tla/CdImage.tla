------------------------------ MODULE CdImage ------------------------------
(***************************************************************************)
(* What the CD support of the simulation reads out of a disc image: the    *)
(* track table of a CUE sheet (load_cue, pcfx.cpp) or of a CHD file        *)
(* (mister_load_chd and load_chd), and the table of contents made of it.   *)
(*                                                                         *)
(* Offsets and sizes are in sectors of 2352 bytes, not in bytes.  A CUE    *)
(* sheet is the list of its FILE, TRACK and INDEX commands, a CHD file the *)
(* list of its track records; scanning their text is left out.             *)
(*                                                                         *)
(* A definition named X_Y is X with a plausible mistake Y; it is not part  *)
(* of the specification, and shows that a property would notice.           *)
(***************************************************************************)
EXTENDS Integers, Sequences, SequencesExt

CONSTANTS
  MaxTracks     \* most tracks an image may have; 99 in the code

ASSUME CdImageAssumption == MaxTracks \in Nat \ {0}

(* What a sheet or a CHD file may say.                                     *)
Names == STRING \ {"NONE"}
TrackTypes == {"MODE1", "MODE2", "AUDIO"}
CueCommands ==
  [cmd : {"FILE"}, file : Names, size : Nat, found : BOOLEAN, binary : BOOLEAN]
    \cup [cmd : {"TRACK"}, number : Nat, type : TrackTypes \cup {"OTHER"}]
    \cup [cmd : {"INDEX0", "INDEX1"}, at : Nat]
ChdRecords ==
  [type : TrackTypes, frames : Nat, pregap : Nat, pgvalid : BOOLEAN, postgap : Nat]

(* An INDEX 01 comes after a FILE, and after a TRACK of its own: without   *)
(* them load_cue writes before the table (pcfx.cpp:269) or divides by a    *)
(* sector size of 0 (:276), which is undefined.                            *)
InOrder(cue) ==
  \A i \in {n \in DOMAIN cue : cue[n].cmd = "INDEX1"} :
    /\ \E j \in 1 .. i - 1 : cue[j].cmd = "FILE"
    /\ \E j \in 1 .. i - 1 :
         cue[j].cmd = "TRACK" /\ \A k \in j .. i - 1 : cue[k].cmd # "INDEX1"

CD_TRACK_PADDING == 4

NoFile == [file |-> "NONE", size |-> 0, pos |-> 0]
opened(f) == f.file # "NONE"

NoTrack == [f |-> NoFile, offset |-> 0, pregap |-> 0, start |-> 0, end |-> 0,
            type |-> "AUDIO"]

(* The table after memset; entries are numbered from 0, as in the code.    *)
EmptyToc == [end |-> 0, last |-> 0, chd_f |-> "NONE", sph |-> 1,
             tracks |-> [i \in 0 .. MaxTracks |-> NoTrack]]

-----------------------------------------------------------------------------
(* load_cue.  A failure ends it with the table as it is by then.           *)

CueStart == [toc |-> EmptyToc, index0 |-> 0, state |-> "READING"]

(* Of the table, FILE and TRACK change only the entry after the last.      *)
Entry(s, t, index0, state) ==
  [s EXCEPT !.toc.tracks[s.toc.last] = t, !.index0 = index0, !.state = state]

CueFile(s, c) ==
  LET t == s.toc.tracks[s.toc.last]
      f == IF c.found /\ c.binary
           THEN [file |-> c.file, size |-> c.size, pos |-> 0] ELSE NoFile
      offset == IF c.found THEN 0 ELSE t.offset
  IN Entry(s, [t EXCEPT !.f = f, !.offset = offset], s.index0,
           IF opened(f) THEN "READING" ELSE "FAILED")

CueTrack(s, c) ==
  LET t == s.toc.tracks[s.toc.last]
  IN IF c.number = s.toc.last + 1 /\ c.type # "OTHER"
     THEN Entry(s, [t EXCEPT !.type = c.type], 0, "READING")
     ELSE Entry(s, [t EXCEPT !.f = NoFile], 0, "FAILED")

(* INDEX 01 completes a track: one that follows in the file of an earlier  *)
(* track, or one with a file of its own.                                   *)
CueFollows(toc, index0, index1) ==
  LET n == toc.last
      from == IF index0 = 0 THEN index1 ELSE index0
      this == [toc.tracks[n] EXCEPT !.start = index1, !.pregap = index1 - from,
                                    !.offset = from, !.end = toc.end - 1]
  IN [toc EXCEPT !.tracks = [toc.tracks EXCEPT ![n] = this,
                                               ![n - 1].end = from - 1],
                 !.last = n + 1]

CueOwnFile(toc, index0, index1) ==
  LET n == toc.last
      end == toc.end + toc.tracks[n].f.size
      this == [toc.tracks[n] EXCEPT !.start = toc.end + index0 + index1,
                                    !.pregap = index1 - index0,
                                    !.offset = 0, !.end = end - 1]
  IN [toc EXCEPT !.tracks[n] = this, !.end = end,
                 !.last = n + 1]

CueIndex1(s, index1) ==
  LET toc == IF opened(s.toc.tracks[s.toc.last].f)
             THEN CueOwnFile(s.toc, s.index0, index1)
             ELSE CueFollows(s.toc, s.index0, index1)
  IN [s EXCEPT !.toc = toc,
               !.index0 = IF opened(s.toc.tracks[s.toc.last].f) \/ @ # 0
                          THEN @ ELSE index1,
               !.state = IF toc.last >= MaxTracks THEN "FULL" ELSE @]

CueCommand(s, c) ==
  IF s.state # "READING" THEN s
  ELSE CASE c.cmd = "FILE"   -> CueFile(s, c)
         [] c.cmd = "TRACK"  -> CueTrack(s, c)
         [] c.cmd = "INDEX0" -> [s EXCEPT !.index0 = c.at]
         [] c.cmd = "INDEX1" -> CueIndex1(s, c.at)

load_cue(image) == FoldLeft(CueCommand, CueStart, image.cue)

-----------------------------------------------------------------------------
(* mister_load_chd.  pgtype tells whether the pregap is stored ('V').      *)

ChdPadded_Unpadded(frames) == frames
ChdPadded(frames) ==
  ((frames + CD_TRACK_PADDING - 1) \div CD_TRACK_PADDING) * CD_TRACK_PADDING

ChdTrack(s, m) ==
  LET n == s.toc.last
      stored == IF m.pgvalid THEN m.pregap ELSE 0
      gap == IF m.pgvalid THEN 0 ELSE m.pregap      \* goes to the last track
      prev == IF n = 0 THEN 0 ELSE s.toc.tracks[n - 1].end + gap
      start == prev + stored
      end == start + m.frames - stored
      this == [f |-> NoFile, offset |-> s.sectors + stored - start,
               pregap |-> m.pregap, start |-> start, end |-> end,
               type |-> m.type]
      tracks == [i \in 0 .. MaxTracks |->
                   IF i = n THEN this
                   ELSE IF i = n - 1 THEN [s.toc.tracks[i] EXCEPT !.end = prev]
                   ELSE s.toc.tracks[i]]
  IN IF n >= MaxTracks THEN s
     ELSE [sectors |-> s.sectors + ChdPadded(m.frames),
           toc |-> [s.toc EXCEPT !.tracks = tracks, !.end = end + m.postgap,
                                 !.last = n + 1]]

(* load_chd then makes every end inclusive.                                *)
ChdStart(image) ==
  [sectors |-> 0,
   toc |-> [EmptyToc EXCEPT !.chd_f = image.name, !.sph = image.sph]]

load_chd(image) ==
  LET toc == FoldLeft(ChdTrack, ChdStart(image), image.chd).toc
      inclusive(t) == [t EXCEPT !.end = @ - 1]
  IN [toc EXCEPT !.tracks = [i \in 0 .. MaxTracks |->
        IF i < toc.last THEN inclusive(toc.tracks[i]) ELSE toc.tracks[i]]]

-----------------------------------------------------------------------------
(* The table of contents.  Addresses count from 0:02:00 on the disc.       *)

lba_to_msf(lba) ==
  LET n == lba + 150
  IN [m |-> (n \div 4500) % 256, s |-> (n % 4500) \div 75, f |-> n % 75]

prepare_toc_buffer(toc) ==
  [i \in 1 .. toc.last |->
     [control |-> IF toc.tracks[i - 1].type = "AUDIO" THEN 1 ELSE 65,
      track |-> i, msf |-> lba_to_msf(toc.tracks[i - 1].start)]]

Swapped(byte) == (byte \div 16) + (byte % 16) * 16

(* The descriptors of toc_data, from the first track not below the one     *)
(* asked for.  The header always counts all tracks.                        *)
toc_data(entries, from) ==
  LET n == Len(entries)
      first == Min({k \in 1 .. n : entries[k].track >= from} \cup {n + 1})
      desc(e) == [e EXCEPT !.control = Swapped(@)]
  IN [kind |-> "TOC", length |-> 2 + 8 * n,
      first |-> entries[1].track, last |-> entries[n].track,
      descs |-> [i \in 1 .. n + 1 - first |-> desc(entries[first + i - 1])]]

=============================================================================
