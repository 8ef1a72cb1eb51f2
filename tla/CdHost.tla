------------------------------- MODULE CdHost -------------------------------
(***************************************************************************)
(* The CD support that feeds sectors to the core in simulation: pcfx.cpp,  *)
(* with the CHD access of mister_chd.cpp and the files of file_io.cpp.     *)
(* The program mounts images and reads sectors in calls that follow one    *)
(* another; a step is a mount, or one pass of a loop of pcfx_read_cd.      *)
(*                                                                         *)
(* Two buffers outlive a call: the table of contents and one CHD hunk.     *)
(* What they hold, and which files are open, depends on every mount and    *)
(* read before.                                                            *)
(*                                                                         *)
(* A definition named X_Y is X with a plausible mistake Y; it is not part  *)
(* of the specification, and shows that a property would notice.           *)
(***************************************************************************)
EXTENDS CdImage, FiniteSets, FiniteSetsExt

CONSTANTS
  Shelves,     \* sets of images, one of which is at hand in a behaviour
  Requests,    \* pairs <<first address, number of sectors>> the core asks for
  TOC_LBA      \* address of the table of contents; -65536 in the code

ASSUME CdHostAssumption ==
  /\ TOC_LBA \in Int /\ TOC_LBA < 0
  /\ \A r \in Requests : r[1] \in Int /\ r[2] \in Nat \ {0}
  /\ IsFiniteSet(Requests)

(* Every image is a sheet or a CHD file.  Neither need make sense, but for *)
(* a sheet's INDEX 01 to be in its place.                                  *)
ASSUME ImageAssumption ==
  \A images \in Shelves : \A image \in images :
    \/ image.kind = "cue" /\ image.cue \in Seq(CueCommands) /\ InOrder(image.cue)
    \/ /\ image.kind = "chd" /\ image.chd \in Seq(ChdRecords)
       /\ image.name \in Names /\ image.sph \in Nat \ {0}

VARIABLES
  shelf,        \* the images at hand
  toc,          \* the track table, with the handles of the open files
  toc_buffer,   \* what prepare_toc_buffer made of the last disc
  img_size,     \* sectors the core was told of; 0: no disc
  hunkmem,      \* chd_hunkbuf: "NULL", "LIVE", "FREED"; "ABORT": process gone
  hunkdata,     \* the hunk in it
  hunknum,      \* chd_hunknum
  call,         \* pcfx_read_cd: loop it is in, lba, cnt, slot, track
  buffer,       \* the caller's buffer, one slot per sector
  \* observed:
  disc,         \* the image mounted
  asked,        \* the request of the last call
  leaked,       \* files the last mount left open, with no handle to them
  chd_failed    \* chd_read has failed since the mount

mountvars == <<toc, toc_buffer, img_size, disc, leaked>>
hunkvars == <<hunkmem, hunkdata, hunknum, chd_failed>>
vars == <<shelf, mountvars, hunkvars, call, buffer, asked>>

NoDisc == [name |-> "NONE", kind |-> "none"]
Junk == [name |-> "NONE", hunk |-> 0]
Idle == [loop |-> "IDLE", lba |-> 0, cnt |-> 0, slot |-> 1, i |-> 0]

Old == [kind |-> "OLD"]
Filler == [kind |-> "AA"]
Zero == [kind |-> "ZERO"]
Sector(file, frame, swapped) ==
  [kind |-> "SECTOR", file |-> file, frame |-> frame, swapped |-> swapped]

Slots == Max({r[2] : r \in Requests})
Alive == hunkmem # "ABORT"

-----------------------------------------------------------------------------
(* Handles and memory.                                                     *)

OpenFrom(table, n) ==
  {table.tracks[i].f.file : i \in {k \in n .. MaxTracks :
                                     opened(table.tracks[k].f)}}
Chd(table) == IF table.chd_f = "NONE" THEN {} ELSE {table.chd_f}

(* What each wipe of the table leaves open.                                *)
LostByCue_LastTrack(table) ==
  OpenFrom(table, Max({0, table.last - 1})) \cup Chd(table)
LostByCue(table) == OpenFrom(table, table.last) \cup Chd(table)
LostByChd(table) == OpenFrom(table, 0)

(* free does not reset the pointer; freeing twice may end the process.     *)
Free(mem) ==
  CASE mem = "NULL"  -> {"NULL"}
    [] mem = "LIVE"  -> {"FREED"}
    [] mem = "FREED" -> {"FREED", "ABORT"}
    [] mem = "ABORT" -> {"ABORT"}

-----------------------------------------------------------------------------
(* Mounting.                                                               *)

Mounted_TocAppended(image, table) ==
  /\ toc' = table
  /\ toc_buffer' = toc_buffer \o prepare_toc_buffer(table)
  /\ img_size' = table.end
  /\ disc' = image

Mounted(image, table) ==
  /\ toc' = table
  /\ toc_buffer' = prepare_toc_buffer(table)
  /\ img_size' = table.end
  /\ disc' = image

Unmounted ==
  /\ toc' = EmptyToc
  /\ img_size' = 0
  /\ disc' = NoDisc
  /\ hunknum' = -1
  /\ UNCHANGED <<toc_buffer, hunkdata>>

MountCue(image) ==
  LET s == load_cue(image)
      table == s.toc
  IN /\ image.kind = "cue"
     /\ chd_failed' = FALSE
     /\ IF s.state # "FAILED" /\ table.last > 0
        THEN /\ Mounted(image, table)
             /\ leaked' = LostByCue(toc)
             /\ UNCHANGED <<hunkmem, hunkdata, hunknum>>
        ELSE /\ Unmounted
             /\ leaked' = LostByCue(toc) \cup LostByCue(table)
             /\ hunkmem' \in Free(hunkmem)

NewHunkBuffer_NumberKept ==
  hunkmem' = "LIVE" /\ hunknum' = hunknum /\ hunkdata' = Junk
NewHunkBuffer == hunkmem' = "LIVE" /\ hunknum' = -1 /\ hunkdata' = Junk

MountChd(image) ==
  LET table == load_chd(image)
  IN /\ image.kind = "chd"
     /\ chd_failed' = FALSE
     /\ \E freed \in Free(hunkmem) :
          IF freed = "ABORT"
          THEN /\ hunkmem' = freed
               /\ UNCHANGED <<mountvars, hunkdata, hunknum>>
          ELSE IF image.found /\ table.last > 0
          THEN /\ Mounted(image, table)
               /\ leaked' = LostByChd(toc)
               /\ NewHunkBuffer
          ELSE /\ Unmounted
               /\ leaked' = LostByChd(toc) \cup (IF image.found THEN {image.name} ELSE {})
               /\ hunkmem' \in Free(IF image.found THEN "LIVE" ELSE freed)

(* An empty name, or one that is neither .cue nor .chd.                    *)
MountNothing ==
  /\ Unmounted
  /\ chd_failed' = FALSE
  /\ leaked' = LostByCue(toc)
  /\ hunkmem' \in Free(hunkmem)

pcfx_mount_cd ==
  /\ Alive /\ call.loop = "IDLE"
  /\ \/ \E image \in shelf : MountCue(image) \/ MountChd(image)
     \/ MountNothing
  /\ buffer' = [k \in DOMAIN buffer |-> Old]     \* of no interest any more
  /\ asked' = <<0, 0>>
  /\ UNCHANGED <<shelf, call>>

-----------------------------------------------------------------------------
(* Reading.                                                                *)

Put(value) == buffer' = [buffer EXCEPT ![call.slot] = value]

(* The next pass of the outer loop, or the return.                         *)
Outer(lba, cnt, slot) ==
  IF cnt > 0 THEN [loop |-> "OUTER", lba |-> lba, cnt |-> cnt, slot |-> slot,
                   i |-> 0]
  ELSE Idle

pcfx_read_cd(lba, cnt) ==
  /\ Alive /\ call.loop = "IDLE"
  /\ call' = Outer(lba, cnt, 1)
  /\ asked' = <<lba, cnt>>
  /\ buffer' = [k \in DOMAIN buffer |-> Old]
  /\ leaked' = {}
  /\ UNCHANGED <<shelf, toc, toc_buffer, img_size, disc, hunkvars>>

ReadToc ==
  /\ call.loop = "OUTER"
  /\ call.lba < 0 \/ toc.last = 0
  /\ Put(IF call.lba >= 0 \/ toc_buffer = <<>> THEN Zero
         ELSE toc_data(toc_buffer, call.lba - TOC_LBA))
  /\ call' = Outer(call.lba + 1, call.cnt - 1, call.slot + 1)
  /\ UNCHANGED <<shelf, mountvars, hunkvars, asked>>

Holds(t, lba) == t.start - t.pregap <= lba /\ lba <= t.end

(* The file is positioned once for a track, always the first track's.      *)
FindTrack ==
  LET found == {i \in 0 .. toc.last - 1 : Holds(toc.tracks[i], call.lba)}
      i == Min(found)
      t == toc.tracks[i]
      pos == t.offset + call.lba - t.start + t.pregap
  IN /\ call.loop = "OUTER"
     /\ call.lba >= 0 /\ toc.last > 0
     /\ Put(Filler)
     /\ IF found = {}
        THEN /\ call' = Outer(call.lba + 1, call.cnt - 1, call.slot)
             /\ UNCHANGED toc
        ELSE /\ call' = [call EXCEPT !.loop = "INNER", !.i = i]
             /\ toc' = IF toc.chd_f = "NONE" /\ opened(toc.tracks[0].f)
                       THEN [toc EXCEPT !.tracks[0].f.pos = pos] ELSE toc
     /\ UNCHANGED <<shelf, toc_buffer, img_size, disc, leaked, hunkvars, asked>>

NextSector_OneMore ==
  IF call.lba + 1 > toc.tracks[call.i].end
    THEN Outer(call.lba + 1, call.cnt - 1, call.slot)
  ELSE [call EXCEPT !.lba = @ + 1, !.cnt = @ - 1, !.slot = @ + 1]

(* After a sector: on in the track, or out of it without moving the slot.  *)
NextSector ==
  IF call.lba + 1 > toc.tracks[call.i].end
    THEN Outer(call.lba + 1, call.cnt - 1, call.slot)
  ELSE IF call.cnt = 1 THEN Idle
  ELSE [call EXCEPT !.lba = @ + 1, !.cnt = @ - 1, !.slot = @ + 1]

ReadFile ==
  LET k == IF toc.tracks[call.i].offset # 0 THEN 0 ELSE call.i
      f == toc.tracks[k].f
  IN /\ call.loop = "INNER" /\ toc.chd_f = "NONE"
     /\ IF opened(f) /\ f.pos < f.size
        THEN /\ Put(Sector(f.file, f.pos, FALSE))
             /\ toc' = [toc EXCEPT !.tracks[k].f.pos = f.pos + 1]
        ELSE UNCHANGED <<buffer, toc>>
     /\ call' = NextSector
     /\ UNCHANGED <<shelf, toc_buffer, img_size, disc, leaked, hunkvars, asked>>

(* lba_to_hunkinfo *)
ChdFrame == call.lba + toc.tracks[call.i].offset
Hunk == ChdFrame \div toc.sph
HunkOffset == ChdFrame % toc.sph

(* A hunk that does not decompress, or whose checksum is wrong, has still  *)
(* been written over the buffer.                                           *)
ChdReadFails ==
  /\ Hunk # hunknum
  /\ \/ Hunk \in disc.bad /\ hunkdata' \in {hunkdata, Junk}
     \/ Hunk >= disc.hunks /\ UNCHANGED hunkdata
  /\ chd_failed' = TRUE
  /\ UNCHANGED <<hunkmem, hunknum, buffer>>

FromHunk(data) ==
  IF data = Junk THEN [kind |-> "JUNK"]
  ELSE Sector(data.name, data.hunk * toc.sph + HunkOffset,
              toc.tracks[call.i].type = "AUDIO")

ChdReadDone ==
  LET data == IF Hunk = hunknum THEN hunkdata
              ELSE [name |-> toc.chd_f, hunk |-> Hunk]
  IN /\ Hunk = hunknum \/ Hunk < disc.hunks
     /\ hunkdata' = data /\ hunknum' = Hunk
     /\ Put(FromHunk(data))
     /\ UNCHANGED <<hunkmem, chd_failed>>

ReadChd ==
  /\ call.loop = "INNER" /\ toc.chd_f # "NONE"
  /\ ChdReadFails \/ ChdReadDone
  /\ call' = NextSector
  /\ UNCHANGED <<shelf, mountvars, asked>>

-----------------------------------------------------------------------------
Init ==
  /\ shelf \in Shelves
  /\ toc = EmptyToc /\ toc_buffer = <<>> /\ img_size = 0
  /\ hunkmem = "NULL" /\ hunkdata = Junk /\ hunknum = 0
  /\ call = Idle /\ buffer = [k \in 1 .. Slots |-> Old]
  /\ disc = NoDisc /\ asked = <<0, 0>> /\ leaked = {} /\ chd_failed = FALSE

Next ==
  \/ pcfx_mount_cd
  \/ \E r \in Requests : pcfx_read_cd(r[1], r[2])
  \/ ReadToc \/ FindTrack \/ ReadFile \/ ReadChd

Spec == Init /\ [][Next]_vars

-----------------------------------------------------------------------------
(* The discs the images stand for, from the meaning of the formats: the    *)
(* files of a sheet follow one another; the tracks of a CHD file do too,   *)
(* after the gaps that are not stored, the first at address 0.             *)

Positions(cue, cmd) == {p \in DOMAIN cue : cue[p].cmd = cmd}

FilesBefore(cue, p) == {q \in Positions(cue, "FILE") : q < p}
FileBase(cue, p) ==
  MapThenSumSet(LAMBDA q : cue[q].size,
                FilesBefore(cue, p) \ {Max(FilesBefore(cue, p))})

CueTracks(cue) ==
  {[number |-> cue[p].number, audio |-> cue[p].type = "AUDIO",
    start |-> LET q == Min({r \in Positions(cue, "INDEX1") : r > p})
              IN FileBase(cue, q) + cue[q].at] : p \in Positions(cue, "TRACK")}

CueStored(cue) ==
  UNION {{[lba |-> FileBase(cue, p + 1) + k,
           sector |-> Sector(cue[p].file, k, FALSE)] : k \in 0 .. cue[p].size - 1}
         : p \in Positions(cue, "FILE")}

NotStored(chd, t) == IF t = 1 \/ chd[t].pgvalid THEN 0 ELSE chd[t].pregap
ChdBase(chd, t) ==
  SumFunction([u \in 1 .. t |-> NotStored(chd, u)])
    + SumFunction([u \in 1 .. t - 1 |-> chd[u].frames])
ChdFirst(chd, t) ==
  SumFunction([u \in 1 .. t - 1 |-> chd[u].frames + ((-chd[u].frames) % 4)])

ChdTracks(chd) ==
  {[number |-> t, audio |-> chd[t].type = "AUDIO",
    start |-> ChdBase(chd, t)
                + (IF chd[t].pgvalid THEN chd[t].pregap ELSE 0)]
   : t \in DOMAIN chd}

ChdStored(image) ==
  UNION {{[lba |-> ChdBase(image.chd, t) + k,
           sector |-> Sector(image.name, ChdFirst(image.chd, t) + k,
                             image.chd[t].type = "AUDIO")]
          : k \in 0 .. image.chd[t].frames - 1} : t \in DOMAIN image.chd}

DiscTracks ==
  IF disc.kind = "cue" THEN CueTracks(disc.cue) ELSE ChdTracks(disc.chd)
DiscStored == IF disc.kind = "cue" THEN CueStored(disc.cue) ELSE ChdStored(disc)

-----------------------------------------------------------------------------
(* Properties.                                                             *)

(* Every variable has its type.                                            *)
TypeOK ==
  /\ shelf \in Shelves
  /\ toc.last \in 0 .. MaxTracks /\ DOMAIN toc.tracks = 0 .. MaxTracks
  /\ img_size \in Nat
  /\ hunkmem \in {"NULL", "LIVE", "FREED", "ABORT"}
  /\ hunknum \in Nat \cup {-1}
  /\ call.loop \in {"IDLE", "OUTER", "INNER"}
  /\ call.loop # "IDLE" => call.cnt > 0 /\ call.slot \in DOMAIN buffer
  /\ call.loop = "INNER" => call.i < toc.last
  /\ chd_failed \in BOOLEAN

Answered == Alive /\ call.loop = "IDLE" /\ disc # NoDisc /\ asked[2] > 0

(* The request stays in the track it begins in, as for a single sector.    *)
InOneTrack ==
  LET found == {i \in 0 .. toc.last - 1 : Holds(toc.tracks[i], asked[1])}
  IN asked[2] = 1 \/ \E i \in found :
       i = Min(found) /\ Holds(toc.tracks[i], asked[1] + asked[2] - 1)

SectorsAre(stored) ==
  \A k \in 0 .. asked[2] - 1 : \A s \in stored :
    s.lba = asked[1] + k => buffer[k + 1] = s.sector

(* A read returns the sectors the disc has at those addresses, whatever    *)
(* was mounted and read before: padding, stored and missing pregaps, the   *)
(* place in the hunk, the cached hunk and the byte order all come out      *)
(* right.  Of a sheet with several files this is claimed of the first      *)
(* only, and of a CHD file until one of its hunks could not be read        *)
(* (pcfx_read_cd, mister_chd_read_sector).                                 *)
ReadExact ==
  Answered /\ asked[1] >= 0 /\ InOneTrack /\ ~chd_failed =>
    SectorsAre({s \in DiscStored :
                  \/ disc.kind = "chd"
                  \/ s.sector.file = toc.tracks[0].f.file})

(* The table of contents lists, from the track asked for on, every track   *)
(* of the disc that is mounted, with its type and where it starts, and     *)
(* never a track of a disc mounted before (toc_data).                      *)
TocExact ==
  Answered /\ asked[1] < 0 =>
    LET reply == buffer[1]
        listed == {[number |-> reply.descs[k].track,
                    audio |-> reply.descs[k].control = 16,
                    start |-> LET a == reply.descs[k].msf
                              IN (a.m * 60 + a.s) * 75 + a.f - 150]
                   : k \in DOMAIN reply.descs}
    IN /\ listed = {t \in DiscTracks : t.number >= asked[1] - TOC_LBA}
       /\ reply.length = 2 + 8 * Cardinality(DiscTracks)
       /\ reply.first = 1 /\ reply.last = Cardinality(DiscTracks)

(* While a CHD file is mounted its buffer is allocated, and holds the hunk *)
(* it is said to hold, of this file, unless reading a hunk has failed      *)
(* (unload_chd, load_chd, mister_chd_read_sector).                         *)
CacheTrue ==
  Alive /\ toc.chd_f # "NONE" =>
    /\ hunkmem = "LIVE"
    /\ hunknum # -1 /\ ~chd_failed =>
         hunkdata = [name |-> toc.chd_f, hunk |-> hunknum]

(* Changing from a CUE sheet to another, or from a CHD file to another,    *)
(* leaves no file open (unload_cue, unload_chd).                           *)
SameKindCloses ==
  [][disc # NoDisc /\ disc.kind = disc'.kind => leaked' = {}]_vars
=============================================================================
