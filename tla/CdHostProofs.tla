---------------------------- MODULE CdHostProofs ----------------------------
(***************************************************************************)
(* Proofs about the CD support of the simulation, for any images, any      *)
(* number of tracks and any order of mounts and reads.                     *)
(***************************************************************************)
EXTENDS CdHost, FiniteSetTheorems, WellFoundedInduction, TLAPS

-----------------------------------------------------------------------------
(* Induction over the naturals, with a set for the predicate: the theorem  *)
(* that a well-founded relation has minimal elements takes no operator.    *)

(* Less-than on the naturals is well-founded.                              *)
Less == {p \in Nat \X Nat : p[1] < p[2]}

LEMMA LessWellFounded == IsWellFoundedOn(Less, Nat)
<1>1. IsWellFoundedOn(OpToRel(<, Nat), Nat)
  BY NatLessThanWellFounded
<1>2. Less = OpToRel(<, Nat)
  BY DEF OpToRel, Less
<1>3. QED
  BY <1>1, <1>2

(* A set of naturals with an element has a least one.                      *)
LEMMA Least ==
  ASSUME NEW T, T \subseteq Nat, T # {}
  PROVE  \E n \in T : \A m \in T : n <= m
<1>1. PICK x \in T : \A y \in T : ~ (<<y, x>> \in Less)
  BY LessWellFounded, WFMin
<1>2. SUFFICES ASSUME NEW m \in T PROVE x <= m
  OBVIOUS
<1>3. <<m, x>> \in Nat \X Nat
  OBVIOUS
<1>4. ~(m < x)
  BY <1>1, <1>3 DEF Less
<1>5. QED
  BY <1>4

(* Induction, with a set for the predicate.                                *)
LEMMA Induction ==
  ASSUME NEW S, 0 \in S, \A n \in Nat : n \in S => n + 1 \in S
  PROVE  Nat \subseteq S
<1> DEFINE T == Nat \ S
<1>1. SUFFICES ASSUME T # {} PROVE FALSE
  OBVIOUS
<1>2. PICK n \in T : \A m \in T : n <= m
  <2>1. T \subseteq Nat
    OBVIOUS
  <2> HIDE DEF T
  <2> QED
    BY <1>1, <2>1, Least
<1>3. n \in Nat /\ n # 0
  OBVIOUS
<1>4. n - 1 \in Nat /\ n - 1 \notin T
  BY <1>2, <1>3
<1>5. QED
  BY <1>4

LEMMA MinIs ==
  ASSUME NEW T, T \subseteq Nat, T # {}
  PROVE  Min(T) \in T /\ \A m \in T : Min(T) <= m
BY Least DEF Min

LEMMA MaxIs ==
  ASSUME NEW T, NEW n \in Nat, T \subseteq 0 .. n, T # {}
  PROVE  Max(T) \in T /\ \A m \in T : Max(T) >= m
<1> DEFINE U == {n - m : m \in T}
<1>1. U \subseteq Nat /\ U # {}
  <2>1. \A m \in T : n - m \in Nat
    OBVIOUS
  <2>2. QED
    BY <2>1
<1>2. PICK u \in U : \A v \in U : u <= v
  <2> HIDE DEF U
  <2> QED BY <1>1, Least
<1>3. PICK x \in T : u = n - x
  OBVIOUS
<1>4. ASSUME NEW m \in T PROVE x >= m
  <2>1. n - m \in U
    OBVIOUS
  <2>2. u <= n - m
    BY <1>2, <2>1
  <2>3. QED
    BY <1>3, <2>2
<1>5. QED
  BY <1>4 DEF Max

-----------------------------------------------------------------------------
(* Reading a CUE sheet: FoldLeft goes through the sets of positions, the   *)
(* last first; 1 .. n stands for what the first n commands make.           *)

CueIter(cue) ==
  LET iter[s \in SUBSET DOMAIN cue] ==
        IF s = {} THEN CueStart
        ELSE CueCommand(iter[s \ {Max(s)}], cue[Max(s)])
  IN iter

LEMMA CueUnfold ==
  ASSUME NEW image
  PROVE  load_cue(image) = CueIter(image.cue)[DOMAIN image.cue]
BY DEF load_cue, FoldLeft, MapThenFoldSet, CueIter

LEMMA CueFold ==
  ASSUME NEW C, NEW cue \in Seq(C), NEW n \in 0 .. Len(cue)
  PROVE  /\ CueIter(cue)[{}] = CueStart
         /\ n > 0 => CueIter(cue)[1 .. n] = CueCommand(CueIter(cue)[1 .. n - 1], cue[n])
<1> DEFINE Defines(g, m) ==
             g = [s \in SUBSET (1 .. m) |->
                    IF s = {} THEN CueStart
                    ELSE CueCommand(g[s \ {Max(s)}], cue[Max(s)])]
           S == {m \in Nat : \E g : Defines(g, m)}
<1>1. 0 \in S
  <2> DEFINE g == [s \in SUBSET (1 .. 0) |-> CueStart]
  <2>1. \A s \in SUBSET (1 .. 0) : s = {}
    OBVIOUS
  <2>2. Defines(g, 0)
    BY <2>1
  <2>3. QED
    BY <2>2
<1>2. ASSUME NEW m \in Nat, m \in S PROVE m + 1 \in S
  <2>1. PICK g : Defines(g, m)
    BY <1>2
  <2> DEFINE Value(s) == IF m + 1 \in s THEN CueCommand(g[s \ {m + 1}], cue[m + 1]) ELSE g[s]
             h == [s \in SUBSET (1 .. m + 1) |-> Value(s)]
  <2>2. ASSUME NEW s \in SUBSET (1 .. m + 1)
        PROVE  Value(s) = IF s = {} THEN CueStart
                          ELSE CueCommand(h[s \ {Max(s)}], cue[Max(s)])
    <3>1. CASE s = {}
      BY <2>1, <3>1
    <3>2. CASE s # {} /\ m + 1 \in s
      <4>1. Max(s) = m + 1
        <5>1. m + 1 \in Nat /\ s \subseteq 0 .. m + 1 /\ s # {}
          BY <3>2
        <5>2. Max(s) \in s /\ \A k \in s : Max(s) >= k
          BY <5>1, MaxIs
        <5>3. Max(s) \in 1 .. m + 1 /\ Max(s) >= m + 1
          BY <3>2, <5>2
        <5>4. QED
          BY <5>3
      <4>2. h[s \ {m + 1}] = g[s \ {m + 1}]
        OBVIOUS
      <4>3. QED
        BY <3>2, <4>1, <4>2
    <3>3. CASE s # {} /\ m + 1 \notin s
      <4>1. s \in SUBSET (1 .. m) /\ s \subseteq 0 .. m + 1
        BY <3>3
      <4>2. Max(s) \in s
        BY <3>3, <4>1, MaxIs, m + 1 \in Nat
      <4>3. h[s \ {Max(s)}] = g[s \ {Max(s)}]
        BY <3>3, <4>1
      <4>4. g[s] = CueCommand(g[s \ {Max(s)}], cue[Max(s)])
        BY <2>1, <3>3, <4>1
      <4>5. QED
        BY <3>3, <4>3, <4>4
    <3>4. QED
      BY <3>1, <3>2, <3>3
  <2>3. Defines(h, m + 1)
    BY <2>2
  <2>4. \E f : Defines(f, m + 1)
    <3> HIDE DEF Defines, h
    <3> QED BY <2>3
  <2>5. QED
    <3> HIDE DEF Defines
    <3> QED BY <2>4
<1>3. Len(cue) \in S
  <2> HIDE DEF S
  <2> QED BY <1>1, <1>2, Induction
<1>4. Defines(CueIter(cue), Len(cue))
  <2>1. DOMAIN cue = 1 .. Len(cue)
    OBVIOUS
  <2>2. PICK g : Defines(g, Len(cue))
    BY <1>3
  <2>3. QED
    BY <2>1, <2>2 DEF CueIter
<1>5. CueIter(cue)[{}] = CueStart
  BY <1>4
<1>6. ASSUME n > 0
      PROVE CueIter(cue)[1 .. n] = CueCommand(CueIter(cue)[1 .. n - 1], cue[n])
  <2>0. Len(cue) \in Nat /\ n \in Nat
    <3>1. Len(cue) \in Nat
      OBVIOUS
    <3>2. QED
      BY <3>1
  <2>1. Max(1 .. n) = n
    <3> DEFINE T == 1 .. n
    <3>0. n \in 1 .. n /\ 1 .. n \subseteq 0 .. n
      BY <1>6, <2>0
    <3>1. n \in Nat /\ T \subseteq 0 .. n /\ n \in T /\ T # {}
      BY <2>0, <3>0
    <3>2. Max(T) \in T /\ \A m \in T : Max(T) >= m
      <4> HIDE DEF T
      <4> QED BY <3>1, MaxIs
    <3>3. QED
      BY <3>1, <3>2
  <2>2. (1 .. n) \ {n} = 1 .. n - 1 /\ 1 .. n # {}
    <3>1. \A k : k \in (1 .. n) \ {n} <=> k \in 1 .. n - 1
      BY <2>0
    <3>2. n \in 1 .. n
      BY <1>6, <2>0
    <3>3. QED
      BY <3>1, <3>2
  <2>5. 1 .. n \in SUBSET (1 .. Len(cue))
    BY <2>0
  <2>3. QED
    BY <1>4, <2>1, <2>2, <2>5
<1>7. QED
  BY <1>5, <1>6

FileSet == [file : STRING \cup {"NONE"}, size : Nat, pos : Int]
TrackSet == [f : FileSet, offset : Int, pregap : Int, start : Int, end : Int,
             type : TrackTypes]
Tables == [end : Nat, last : 0 .. MaxTracks, chd_f : STRING \cup {"NONE"}, sph : Nat \ {0},
           tracks : [0 .. MaxTracks -> TrackSet]]
Readers == [toc : Tables, index0 : Nat, state : {"READING", "FAILED", "FULL"}]

LEMMA EmptyTocType == EmptyToc \in Tables /\ EmptyToc.chd_f = "NONE"
BY CdImageAssumption DEF TrackTypes, EmptyToc, Tables, NoTrack, NoFile, TrackSet, FileSet

(* The file named last is open until an INDEX 01 takes it, or a failure    *)
(* ends the reading; no other entry beyond the tracks has an open file.    *)
Shut(s) ==
  \A j \in s.toc.last .. MaxTracks :
    opened(s.toc.tracks[j].f) =>
      s.state = "FAILED" \/ (j = s.toc.last /\ s.state = "READING")

CueOK(s) ==
  /\ s \in Readers /\ s.toc.chd_f = "NONE" /\ Shut(s)
  /\ s.state = "READING" => s.toc.last < MaxTracks

(* A change of the entry after the last.                                   *)
LEMMA EntryOK ==
  ASSUME NEW s, CueOK(s), s.state = "READING", NEW t \in TrackSet, NEW index0 \in Nat,
         NEW state \in {"READING", "FAILED"}
  PROVE  /\ CueOK(Entry(s, t, index0, state))
         /\ LET toc1 == Entry(s, t, index0, state).toc IN toc1.tracks[toc1.last] = t
<1> DEFINE n == s.toc.last
           tracks == [s.toc.tracks EXCEPT ![n] = t]
           r == Entry(s, t, index0, state)
<1>1. n \in 0 .. MaxTracks /\ s.toc.tracks \in [0 .. MaxTracks -> TrackSet] /\ n < MaxTracks
  BY DEF CueOK, Readers, Tables
<1>2. tracks \in [0 .. MaxTracks -> TrackSet]
  BY <1>1
<1>3. ASSUME NEW j \in n .. MaxTracks, opened(tracks[j].f) PROVE j = n
  BY <1>1, <1>3 DEF CueOK, Shut
<1>4. r = [s EXCEPT !.toc = [s.toc EXCEPT !.tracks = tracks],
                    !.index0 = index0, !.state = state]
  BY <1>1 DEF Entry, CueOK, Readers, Tables
<1> HIDE DEF tracks, r
<1>5. /\ r \in Readers /\ r.toc.chd_f = "NONE" /\ r.toc.last = n /\ r.toc.tracks = tracks
      /\ r.state = state
  BY <1>2, <1>4 DEF CueOK, Readers, Tables
<1>6. CueOK(r)
  BY <1>1, <1>3, <1>5 DEF CueOK, Shut
<1>7. r.toc.tracks[r.toc.last] = t
  BY <1>1, <1>5 DEF tracks
<1>8. QED
  BY <1>6, <1>7 DEF r

LEMMA CueFileOK ==
  ASSUME NEW s, CueOK(s), s.state = "READING",
         NEW c \in CueCommands, c.cmd = "FILE"
  PROVE  CueOK(CueFile(s, c))
<1> DEFINE t == s.toc.tracks[s.toc.last]
           f == IF c.found /\ c.binary
                THEN [file |-> c.file, size |-> c.size, pos |-> 0] ELSE NoFile
           offset == IF c.found THEN 0 ELSE t.offset
<1>1. t \in TrackSet /\ s.index0 \in Nat
  BY DEF CueOK, Readers, Tables
<1>2. f \in FileSet
  BY DEF CueCommands, FileSet, NoFile, Names
<1>3. offset \in Int
  BY <1>1 DEF TrackSet
<1> HIDE DEF f, offset, t
<1>4. [t EXCEPT !.f = f, !.offset = offset] \in TrackSet
  BY <1>1, <1>2, <1>3 DEF TrackSet
<1>5. CueOK(Entry(s, [t EXCEPT !.f = f, !.offset = offset], s.index0,
                  IF opened(f) THEN "READING" ELSE "FAILED"))
  BY <1>1, <1>4, EntryOK
<1>6. QED
  BY <1>5 DEF CueFile, t, f, offset

LEMMA CueTrackOK ==
  ASSUME NEW s, CueOK(s), s.state = "READING",
         NEW c \in CueCommands, c.cmd = "TRACK"
  PROVE  CueOK(CueTrack(s, c))
<1> DEFINE t == s.toc.tracks[s.toc.last]
           good == c.number = s.toc.last + 1 /\ c.type # "OTHER"
<1>1. t \in TrackSet
  BY DEF CueOK, Readers, Tables
<1>2. CASE good
  <2>1. c.type \in TrackTypes
    BY <1>2 DEF CueCommands
  <2>2. [t EXCEPT !.type = c.type] \in TrackSet
    BY <1>1, <2>1 DEF TrackSet
  <2>3. QED
    BY <1>2, <2>2, EntryOK DEF CueTrack
<1>3. CASE ~good
  <2>1. [t EXCEPT !.f = NoFile] \in TrackSet
    BY <1>1 DEF TrackSet, FileSet, NoFile
  <2>2. QED
    BY <1>3, <2>1, EntryOK DEF CueTrack
<1>4. QED
  BY <1>2, <1>3

LEMMA TrackPlaced ==
  ASSUME NEW t \in TrackSet, NEW start \in Int, NEW pregap \in Int, NEW offset \in Int,
         NEW end \in Int
  PROVE  [t EXCEPT !.start = start, !.pregap = pregap, !.offset = offset, !.end = end]
           \in TrackSet
BY DEF TrackSet

(* A track more, which changes no entry beyond it.                         *)
OneMore(table, before) ==
  /\ table \in Tables /\ table.last = before.last + 1 /\ table.chd_f = before.chd_f
  /\ \A j \in before.last + 1 .. MaxTracks : table.tracks[j] = before.tracks[j]

LEMMA CueOwnFileOK ==
  ASSUME NEW toc0 \in Tables, toc0.last < MaxTracks, NEW index0 \in Nat, NEW index1 \in Nat
  PROVE  OneMore(CueOwnFile(toc0, index0, index1), toc0)
<1> DEFINE n == toc0.last
           end == toc0.end + toc0.tracks[n].f.size
           this == [toc0.tracks[n] EXCEPT !.start = toc0.end + index0 + index1,
                                          !.pregap = index1 - index0,
                                          !.offset = 0, !.end = end - 1]
           tracks == [toc0.tracks EXCEPT ![n] = this]
           r == CueOwnFile(toc0, index0, index1)
<1>1. /\ n \in 0 .. MaxTracks /\ n + 1 \in 0 .. MaxTracks
      /\ toc0.tracks \in [0 .. MaxTracks -> TrackSet] /\ toc0.end \in Nat
  BY CdImageAssumption DEF Tables
<1>2. toc0.tracks[n] \in TrackSet
  BY <1>1
<1>3. toc0.tracks[n].f \in FileSet
  BY <1>2 DEF TrackSet
<1>4. end \in Nat
  BY <1>1, <1>3 DEF FileSet
<1>5. r = [toc0 EXCEPT !.tracks = tracks, !.end = end, !.last = n + 1]
  BY DEF CueOwnFile
<1> HIDE DEF end, n, r
<1>6. this \in TrackSet
  <2>1. /\ toc0.end + index0 + index1 \in Int /\ index1 - index0 \in Int /\ end - 1 \in Int
        /\ 0 \in Int
    BY <1>1, <1>4
  <2>2. QED
    BY <1>2, <2>1, TrackPlaced
<1> HIDE DEF this
<1>7. /\ tracks \in [0 .. MaxTracks -> TrackSet]
      /\ \A j \in n + 1 .. MaxTracks : tracks[j] = toc0.tracks[j]
  BY <1>1, <1>6
<1> HIDE DEF tracks
<1>8. /\ r \in Tables /\ r.last = n + 1 /\ r.chd_f = toc0.chd_f /\ r.tracks = tracks
  BY <1>1, <1>4, <1>5, <1>7 DEF Tables
<1>9. QED
  BY <1>7, <1>8 DEF OneMore, n, r

LEMMA CueFollowsOK ==
  ASSUME NEW toc0 \in Tables, toc0.last < MaxTracks, NEW index0 \in Nat, NEW index1 \in Nat
  PROVE  OneMore(CueFollows(toc0, index0, index1), toc0)
<1> DEFINE n == toc0.last
           from == IF index0 = 0 THEN index1 ELSE index0
           this == [toc0.tracks[n] EXCEPT !.start = index1, !.pregap = index1 - from,
                                          !.offset = from, !.end = toc0.end - 1]
           before == [toc0.tracks EXCEPT ![n] = this]
           prev == [before[n - 1] EXCEPT !.end = from - 1]
           tracks == [before EXCEPT ![n - 1] = prev]
           r == CueFollows(toc0, index0, index1)
<1>1. /\ n \in 0 .. MaxTracks /\ n + 1 \in 0 .. MaxTracks
      /\ toc0.tracks \in [0 .. MaxTracks -> TrackSet] /\ toc0.end \in Nat
  BY CdImageAssumption DEF Tables
<1>2. toc0.tracks[n] \in TrackSet /\ from \in Nat
  BY <1>1
<1>3. r = [toc0 EXCEPT !.tracks = tracks, !.last = n + 1]
  BY <1>1 DEF CueFollows
<1> HIDE DEF from, n, r
<1>4. this \in TrackSet
  <2>1. index1 \in Int /\ index1 - from \in Int /\ from \in Int /\ toc0.end - 1 \in Int
    BY <1>1, <1>2
  <2>2. QED
    BY <1>2, <2>1, TrackPlaced
<1> HIDE DEF this
<1>5. /\ before \in [0 .. MaxTracks -> TrackSet]
      /\ \A j \in n + 1 .. MaxTracks : before[j] = toc0.tracks[j]
  BY <1>1, <1>4
<1> HIDE DEF before
<1>6. n - 1 \in 0 .. MaxTracks => prev \in TrackSet
  <2>1. ASSUME n - 1 \in 0 .. MaxTracks PROVE prev \in TrackSet
    <3>1. before[n - 1] \in TrackSet /\ from - 1 \in Int
      BY <1>2, <1>5, <2>1
    <3>2. QED
      BY <3>1 DEF TrackSet
  <2>2. QED
    BY <2>1
<1> HIDE DEF prev
<1>7. /\ tracks \in [0 .. MaxTracks -> TrackSet]
      /\ \A j \in n + 1 .. MaxTracks : tracks[j] = toc0.tracks[j]
  <2>1. \A j \in 0 .. MaxTracks : tracks[j] = IF j = n - 1 THEN prev ELSE before[j]
    BY <1>5
  <2>2. tracks \in [0 .. MaxTracks -> TrackSet]
    BY <1>5, <1>6
  <2> HIDE DEF tracks
  <2>3. ASSUME NEW j \in n + 1 .. MaxTracks PROVE tracks[j] = toc0.tracks[j]
    <3>1. j \in 0 .. MaxTracks /\ j # n - 1
      BY <1>1
    <3>2. QED
      BY <1>5, <2>1, <3>1
  <2>4. QED
    BY <2>2, <2>3
<1> HIDE DEF tracks
<1>8. /\ r \in Tables /\ r.last = n + 1 /\ r.chd_f = toc0.chd_f /\ r.tracks = tracks
  BY <1>1, <1>3, <1>7 DEF Tables
<1>9. QED
  BY <1>7, <1>8 DEF OneMore, n, r

LEMMA CueIndex1OK ==
  ASSUME NEW s, CueOK(s), s.state = "READING", NEW index1 \in Nat
  PROVE  /\ CueOK(CueIndex1(s, index1))
         /\ LET toc1 == CueIndex1(s, index1).toc IN ~opened(toc1.tracks[toc1.last].f)
<1> DEFINE n == s.toc.last
           own == opened(s.toc.tracks[n].f)
           toc1 == IF own THEN CueOwnFile(s.toc, s.index0, index1)
                   ELSE CueFollows(s.toc, s.index0, index1)
           index == IF own \/ s.index0 # 0 THEN s.index0 ELSE index1
           state == IF n + 1 >= MaxTracks THEN "FULL" ELSE "READING"
           r == CueIndex1(s, index1)
<1>1. /\ s.toc \in Tables /\ n \in Nat /\ n < MaxTracks /\ s.index0 \in Nat
      /\ s.toc.chd_f = "NONE"
  BY DEF CueOK, Readers, Tables
<1>2. OneMore(toc1, s.toc)
  BY <1>1, CueOwnFileOK, CueFollowsOK
<1>3. /\ toc1 \in Tables /\ toc1.last = n + 1 /\ toc1.chd_f = "NONE"
      /\ \A j \in n + 1 .. MaxTracks : toc1.tracks[j] = s.toc.tracks[j]
  BY <1>1, <1>2 DEF OneMore
<1>4. r = [s EXCEPT !.toc = toc1, !.index0 = index,
                    !.state = IF toc1.last >= MaxTracks THEN "FULL" ELSE s.state]
  BY DEF CueIndex1
<1> HIDE DEF toc1, r
<1>5. r = [s EXCEPT !.toc = toc1, !.index0 = index, !.state = state]
  BY <1>3, <1>4
<1>6. index \in Nat /\ state \in {"FULL", "READING"}
  BY <1>1
<1>7. \A j \in n + 1 .. MaxTracks : ~opened(toc1.tracks[j].f)
  BY <1>1, <1>3 DEF CueOK, Shut
<1> HIDE DEF index
<1>8. /\ r \in Readers /\ r.toc = toc1 /\ r.state = state
  BY <1>3, <1>5, <1>6 DEF CueOK, Readers
<1>9. CueOK(r)
  BY <1>1, <1>3, <1>7, <1>8, CdImageAssumption DEF CueOK, Shut
<1>10. ~opened(r.toc.tracks[r.toc.last].f)
  <2>1. n + 1 \in n + 1 .. MaxTracks
    BY <1>1, CdImageAssumption
  <2>2. QED
    BY <1>3, <1>7, <1>8, <2>1
<1>11. QED
  BY <1>9, <1>10 DEF r

LEMMA CueCommandOK ==
  ASSUME NEW s, CueOK(s), NEW c \in CueCommands
  PROVE  CueOK(CueCommand(s, c))
<1>1. c.cmd \in {"FILE", "TRACK", "INDEX0", "INDEX1"}
  BY DEF CueCommands
<1>2. CASE s.state # "READING"
  BY <1>2 DEF CueCommand
<1>3. CASE s.state = "READING" /\ c.cmd = "FILE"
  BY <1>3, CueFileOK DEF CueCommand
<1>4. CASE s.state = "READING" /\ c.cmd = "TRACK"
  BY <1>4, CueTrackOK DEF CueCommand
<1>5. CASE s.state = "READING" /\ c.cmd = "INDEX0"
  <2>1. c.at \in Nat
    BY <1>5 DEF CueCommands
  <2>2. CueOK([s EXCEPT !.index0 = c.at])
    BY <2>1 DEF CueOK, Readers, Shut
  <2>3. QED
    BY <1>5, <2>2 DEF CueCommand
<1>6. CASE s.state = "READING" /\ c.cmd = "INDEX1"
  <2>1. c.at \in Nat
    BY <1>6 DEF CueCommands
  <2>2. QED
    BY <1>6, <2>1, CueIndex1OK DEF CueCommand
<1>7. QED
  BY <1>1, <1>2, <1>3, <1>4, <1>5, <1>6

LEMMA CueStartOK == CueOK(CueStart)
<1>1. EmptyToc \in Tables /\ EmptyToc.chd_f = "NONE" /\ EmptyToc.last = 0
  BY EmptyTocType DEF EmptyToc
<1>2. \A j \in 0 .. MaxTracks : ~opened(EmptyToc.tracks[j].f)
  BY DEF EmptyToc, NoTrack, NoFile, opened
<1>3. QED
  BY <1>1, <1>2, CdImageAssumption DEF CueStart, CueOK, Readers, Shut

(* Every sheet gives a table, however little sense it makes.               *)
LEMMA CueLoaded ==
  ASSUME NEW image, image.cue \in Seq(CueCommands)
  PROVE  CueOK(load_cue(image))
<1> DEFINE cue == image.cue
           after(n) == CueIter(cue)[1 .. n]
           S == {n \in Nat : n <= Len(cue) => CueOK(after(n))}
<1>1. Len(cue) \in Nat /\ DOMAIN cue = 1 .. Len(cue)
  OBVIOUS
<1>2. 0 \in S
  <2>1. after(0) = CueStart
    <3>1. 1 .. 0 = {} /\ 0 \in 0 .. Len(cue)
      BY <1>1
    <3>2. QED
      BY <3>1, CueFold
  <2>2. QED
    BY <2>1, CueStartOK
<1>3. ASSUME NEW n \in Nat, n \in S PROVE n + 1 \in S
  <2>1. SUFFICES ASSUME n + 1 <= Len(cue) PROVE CueOK(after(n + 1))
    OBVIOUS
  <2>2. n + 1 \in 0 .. Len(cue) /\ n + 1 > 0 /\ (n + 1) - 1 = n
    BY <1>1, <2>1
  <2>3. after(n + 1) = CueCommand(after(n), cue[n + 1])
    BY <2>2, CueFold
  <2>4. CueOK(after(n)) /\ cue[n + 1] \in CueCommands
    BY <1>1, <1>3, <2>1, <2>2
  <2> HIDE DEF after, cue
  <2>5. QED
    BY <2>3, <2>4, CueCommandOK
<1>4. Len(cue) \in S
  <2> HIDE DEF S
  <2> QED BY <1>1, <1>2, <1>3, Induction
<1>5. QED
  BY <1>1, <1>4, CueUnfold

(* A file is left open by FILE, or by what does not take it.               *)
Pending(s) == s.state = "READING" /\ opened(s.toc.tracks[s.toc.last].f)

LEMMA CuePending ==
  ASSUME NEW s, CueOK(s), NEW c \in CueCommands, Pending(CueCommand(s, c))
  PROVE  c.cmd = "FILE" \/ (c.cmd # "INDEX1" /\ Pending(s))
<1>1. c.cmd \in {"FILE", "TRACK", "INDEX0", "INDEX1"}
  BY DEF CueCommands
<1>2. CASE s.state # "READING"
  BY <1>2 DEF CueCommand, Pending
<1>3. CASE s.state = "READING" /\ c.cmd = "TRACK"
  <2> DEFINE t == s.toc.tracks[s.toc.last]
             good == c.number = s.toc.last + 1 /\ c.type # "OTHER"
  <2>1. t \in TrackSet
    BY DEF CueOK, Readers, Tables
  <2>2. CASE good
    <3>1. c.type \in TrackTypes
      BY <1>3, <2>2 DEF CueCommands
    <3>2. [t EXCEPT !.type = c.type] \in TrackSet /\ [t EXCEPT !.type = c.type].f = t.f
      BY <2>1, <3>1 DEF TrackSet
    <3>3. CueCommand(s, c) = Entry(s, [t EXCEPT !.type = c.type], 0, "READING")
      BY <1>3, <2>2 DEF CueCommand, CueTrack
    <3>4. opened(t.f)
      <4> DEFINE new == [t EXCEPT !.type = c.type]
                 r == Entry(s, new, 0, "READING")
      <4>1. new \in TrackSet /\ new.f = t.f
        BY <3>2
      <4> HIDE DEF new
      <4>2. r.toc.tracks[r.toc.last] = new
        BY <1>3, <4>1, EntryOK
      <4>3. Pending(r)
        BY <3>3 DEF new
      <4>4. QED
        BY <4>1, <4>2, <4>3 DEF Pending
    <3>5. QED
      BY <1>3, <3>4 DEF Pending
  <2>3. CASE ~good
    <3>1. CueCommand(s, c) = Entry(s, [t EXCEPT !.f = NoFile], 0, "FAILED")
      BY <1>3, <2>3 DEF CueCommand, CueTrack
    <3>2. CueCommand(s, c).state = "FAILED"
      BY <3>1 DEF Entry, CueOK, Readers
    <3>3. QED
      BY <3>2 DEF Pending
  <2>4. QED
    BY <2>2, <2>3
<1>4. CASE s.state = "READING" /\ c.cmd = "INDEX0"
  BY <1>4 DEF CueCommand, Pending, CueOK, Readers
<1>5. CASE s.state = "READING" /\ c.cmd = "INDEX1"
  <2>1. c.at \in Nat
    BY <1>5 DEF CueCommands
  <2>2. QED
    BY <1>5, <2>1, CueIndex1OK DEF CueCommand, Pending
<1>6. QED
  BY <1>1, <1>2, <1>3, <1>4, <1>5

(* A sheet in which INDEX 01 follows every FILE leaves no file open beside *)
(* those of its tracks.                                                    *)
Complete(cue) ==
  \A p \in DOMAIN cue :
    cue[p].cmd = "FILE" => \E q \in DOMAIN cue : q > p /\ cue[q].cmd = "INDEX1"

LEMMA CueCloses ==
  ASSUME NEW image, image.cue \in Seq(CueCommands), Complete(image.cue),
         load_cue(image).state # "FAILED"
  PROVE  LET table == load_cue(image).toc
         IN \A j \in table.last .. MaxTracks : ~opened(table.tracks[j].f)
<1> DEFINE cue == image.cue
           after(n) == CueIter(cue)[1 .. n]
           named(n) == \E p \in 1 .. n : /\ cue[p].cmd = "FILE"
                                        /\ \A q \in p + 1 .. n : cue[q].cmd # "INDEX1"
           S == {n \in Nat : n <= Len(cue) =>
                             CueOK(after(n)) /\ (Pending(after(n)) => named(n))}
<1>1. Len(cue) \in Nat /\ DOMAIN cue = 1 .. Len(cue)
  OBVIOUS
<1>2. 0 \in S
  <2>1. after(0) = CueStart
    <3>1. 1 .. 0 = {} /\ 0 \in 0 .. Len(cue)
      BY <1>1
    <3>2. QED
      BY <3>1, CueFold
  <2>2. CueOK(CueStart) /\ ~Pending(CueStart)
    <3>1. ~Pending(CueStart)
      BY CdImageAssumption DEF Pending, CueStart, EmptyToc, NoTrack, NoFile, opened
    <3>2. QED
      BY <3>1, CueStartOK
  <2>3. QED
    BY <2>1, <2>2
<1>3. ASSUME NEW n \in Nat, n \in S PROVE n + 1 \in S
  <2>1. SUFFICES ASSUME n + 1 <= Len(cue)
                 PROVE  CueOK(after(n + 1)) /\ (Pending(after(n + 1)) => named(n + 1))
    OBVIOUS
  <2>2. n + 1 \in 0 .. Len(cue) /\ n + 1 > 0 /\ (n + 1) - 1 = n
    BY <1>1, <2>1
  <2>3. after(n + 1) = CueCommand(after(n), cue[n + 1])
    BY <2>2, CueFold
  <2>4. /\ CueOK(after(n)) /\ cue[n + 1] \in CueCommands
        /\ Pending(after(n)) => named(n)
    BY <1>1, <1>3, <2>1, <2>2
  <2> HIDE DEF after, cue
  <2>5. CueOK(after(n + 1))
    BY <2>3, <2>4, CueCommandOK
  <2>6. ASSUME Pending(after(n + 1)) PROVE named(n + 1)
    <3>1. CASE cue[n + 1].cmd = "FILE"
      <4>1. n + 1 \in 1 .. n + 1
        OBVIOUS
      <4>2. \A q \in (n + 1) + 1 .. n + 1 : cue[q].cmd # "INDEX1"
        OBVIOUS
      <4>3. QED
        BY <3>1, <4>1, <4>2
    <3>2. CASE cue[n + 1].cmd # "INDEX1" /\ Pending(after(n))
      <4>1. PICK p \in 1 .. n : /\ cue[p].cmd = "FILE"
                               /\ \A q \in p + 1 .. n : cue[q].cmd # "INDEX1"
        BY <2>4, <3>2
      <4>2. \A q \in p + 1 .. n + 1 : cue[q].cmd # "INDEX1"
        <5>1. \A q \in p + 1 .. n + 1 : q \in p + 1 .. n \/ q = n + 1
          OBVIOUS
        <5>2. QED
          BY <3>2, <4>1, <5>1
      <4>3. p \in 1 .. n + 1
        OBVIOUS
      <4>4. QED
        BY <4>1, <4>2, <4>3
    <3>3. QED
      BY <2>3, <2>4, <2>6, <3>1, <3>2, CuePending
  <2>7. QED
    BY <2>5, <2>6
<1>4. Len(cue) \in S
  <2> HIDE DEF S
  <2> QED BY <1>1, <1>2, <1>3, Induction
<1>5. ~named(Len(cue))
  <2>1. SUFFICES ASSUME NEW p \in 1 .. Len(cue), cue[p].cmd = "FILE"
                 PROVE  \E q \in p + 1 .. Len(cue) : cue[q].cmd = "INDEX1"
    BY <1>1
  <2>2. PICK q \in DOMAIN cue : q > p /\ cue[q].cmd = "INDEX1"
    BY <1>1, <2>1 DEF Complete
  <2>3. QED
    BY <1>1, <2>2
<1>6. load_cue(image) = after(Len(cue))
  BY <1>1, CueUnfold
<1> HIDE DEF after, named
<1>7. CueOK(load_cue(image)) /\ ~Pending(load_cue(image))
  BY <1>1, <1>4, <1>5, <1>6
<1>8. QED
  BY <1>7 DEF CueOK, Shut, Pending

-----------------------------------------------------------------------------
(* Reading a CHD file.                                                     *)

ChdIter(image) ==
  LET iter[s \in SUBSET DOMAIN image.chd] ==
        IF s = {} THEN ChdStart(image)
        ELSE ChdTrack(iter[s \ {Max(s)}], image.chd[Max(s)])
  IN iter

ChdAll(image) == ChdIter(image)[DOMAIN image.chd]

LEMMA ChdUnfold ==
  ASSUME NEW image
  PROVE  load_chd(image) =
           LET toc1 == ChdAll(image).toc
               inclusive(t) == [t EXCEPT !.end = @ - 1]
           IN [toc1 EXCEPT !.tracks = [i \in 0 .. MaxTracks |->
                 IF i < toc1.last THEN inclusive(toc1.tracks[i]) ELSE toc1.tracks[i]]]
BY DEF load_chd, FoldLeft, MapThenFoldSet, ChdIter, ChdAll

LEMMA ChdFold ==
  ASSUME NEW C, NEW image, image.chd \in Seq(C), NEW n \in 0 .. Len(image.chd)
  PROVE  /\ ChdIter(image)[{}] = ChdStart(image)
         /\ n > 0 => ChdIter(image)[1 .. n] = ChdTrack(ChdIter(image)[1 .. n - 1], image.chd[n])
<1> DEFINE Defines(g, m) ==
             g = [s \in SUBSET (1 .. m) |->
                    IF s = {} THEN ChdStart(image)
                    ELSE ChdTrack(g[s \ {Max(s)}], image.chd[Max(s)])]
           S == {m \in Nat : \E g : Defines(g, m)}
<1>1. 0 \in S
  <2> DEFINE g == [s \in SUBSET (1 .. 0) |-> ChdStart(image)]
  <2>1. \A s \in SUBSET (1 .. 0) : s = {}
    OBVIOUS
  <2>2. Defines(g, 0)
    BY <2>1
  <2>3. QED
    BY <2>2
<1>2. ASSUME NEW m \in Nat, m \in S PROVE m + 1 \in S
  <2>1. PICK g : Defines(g, m)
    BY <1>2
  <2> DEFINE Value(s) == IF m + 1 \in s THEN ChdTrack(g[s \ {m + 1}], image.chd[m + 1]) ELSE g[s]
             h == [s \in SUBSET (1 .. m + 1) |-> Value(s)]
  <2>2. ASSUME NEW s \in SUBSET (1 .. m + 1)
        PROVE  Value(s) = IF s = {} THEN ChdStart(image)
                          ELSE ChdTrack(h[s \ {Max(s)}], image.chd[Max(s)])
    <3>1. CASE s = {}
      BY <2>1, <3>1
    <3>2. CASE s # {} /\ m + 1 \in s
      <4>1. Max(s) = m + 1
        <5>1. m + 1 \in Nat /\ s \subseteq 0 .. m + 1 /\ s # {}
          BY <3>2
        <5>2. Max(s) \in s /\ \A k \in s : Max(s) >= k
          BY <5>1, MaxIs
        <5>3. Max(s) \in 1 .. m + 1 /\ Max(s) >= m + 1
          BY <3>2, <5>2
        <5>4. QED
          BY <5>3
      <4>2. h[s \ {m + 1}] = g[s \ {m + 1}]
        OBVIOUS
      <4>3. QED
        BY <3>2, <4>1, <4>2
    <3>3. CASE s # {} /\ m + 1 \notin s
      <4>1. s \in SUBSET (1 .. m) /\ s \subseteq 0 .. m + 1
        BY <3>3
      <4>2. Max(s) \in s
        BY <3>3, <4>1, MaxIs, m + 1 \in Nat
      <4>3. h[s \ {Max(s)}] = g[s \ {Max(s)}]
        BY <3>3, <4>1
      <4>4. g[s] = ChdTrack(g[s \ {Max(s)}], image.chd[Max(s)])
        BY <2>1, <3>3, <4>1
      <4>5. QED
        BY <3>3, <4>3, <4>4
    <3>4. QED
      BY <3>1, <3>2, <3>3
  <2>3. Defines(h, m + 1)
    BY <2>2
  <2>4. \E f : Defines(f, m + 1)
    <3> HIDE DEF Defines, h
    <3> QED BY <2>3
  <2>5. QED
    <3> HIDE DEF Defines
    <3> QED BY <2>4
<1>3. Len(image.chd) \in S
  <2> HIDE DEF S
  <2> QED BY <1>1, <1>2, Induction
<1>4. Defines(ChdIter(image), Len(image.chd))
  <2>1. DOMAIN image.chd = 1 .. Len(image.chd)
    OBVIOUS
  <2>2. PICK g : Defines(g, Len(image.chd))
    BY <1>3
  <2>3. QED
    BY <2>1, <2>2 DEF ChdIter
<1>5. ChdIter(image)[{}] = ChdStart(image)
  BY <1>4
<1>6. ASSUME n > 0
      PROVE ChdIter(image)[1 .. n] = ChdTrack(ChdIter(image)[1 .. n - 1], image.chd[n])
  <2>0. Len(image.chd) \in Nat /\ n \in Nat
    <3>1. Len(image.chd) \in Nat
      OBVIOUS
    <3>2. QED
      BY <3>1
  <2>1. Max(1 .. n) = n
    <3> DEFINE T == 1 .. n
    <3>0. n \in 1 .. n /\ 1 .. n \subseteq 0 .. n
      BY <1>6, <2>0
    <3>1. n \in Nat /\ T \subseteq 0 .. n /\ n \in T /\ T # {}
      BY <2>0, <3>0
    <3>2. Max(T) \in T /\ \A m \in T : Max(T) >= m
      <4> HIDE DEF T
      <4> QED BY <3>1, MaxIs
    <3>3. QED
      BY <3>1, <3>2
  <2>2. (1 .. n) \ {n} = 1 .. n - 1 /\ 1 .. n # {}
    <3>1. \A k : k \in (1 .. n) \ {n} <=> k \in 1 .. n - 1
      BY <2>0
    <3>2. n \in 1 .. n
      BY <1>6, <2>0
    <3>3. QED
      BY <3>1, <3>2
  <2>5. 1 .. n \in SUBSET (1 .. Len(image.chd))
    BY <2>0
  <2>3. QED
    BY <1>4, <2>1, <2>2, <2>5
<1>7. QED
  BY <1>5, <1>6


(* How the tracks of a CHD file lie while they are read: each begins, with *)
(* its pregap, where the one before it ends or earlier, and no frame that  *)
(* belongs to it is before the first of the file.                          *)
Chained(table, inc) ==
  /\ \A i \in 0 .. table.last - 1 : table.tracks[i].end + inc \in Nat
  /\ table.last > 0 => /\ table.tracks[0].start - table.tracks[0].pregap <= 0
                       /\ table.tracks[0].offset >= 0
  /\ \A i \in 1 .. table.last - 1 :
       LET from == table.tracks[i - 1].end + inc
       IN /\ table.tracks[i].start - table.tracks[i].pregap <= from
          /\ from + table.tracks[i].offset >= 0

(* inc is 0 while ends are exclusive, and 1 when they are inclusive.       *)
ChdTable(table, image, inc) ==
  /\ table \in Tables /\ table.chd_f = image.name /\ table.sph = image.sph
  /\ \A j \in 0 .. MaxTracks : ~opened(table.tracks[j].f)
  /\ Chained(table, inc)

ChdOK(s, image) ==
  s \in [sectors : Nat, toc : Tables] /\ ChdTable(s.toc, image, 0)

LEMMA ChdStartOK ==
  ASSUME NEW image, image.name \in Names, image.sph \in Nat \ {0}
  PROVE  ChdOK(ChdStart(image), image)
<1> DEFINE t == ChdStart(image).toc
<1>1. /\ t = [EmptyToc EXCEPT !.chd_f = image.name, !.sph = image.sph]
      /\ ChdStart(image) = [sectors |-> 0, toc |-> t]
  BY DEF ChdStart
<1>2. /\ EmptyToc \in Tables /\ EmptyToc.last = 0
      /\ EmptyToc.tracks = [i \in 0 .. MaxTracks |-> NoTrack]
  BY EmptyTocType DEF EmptyToc
<1> HIDE DEF t
<1>3. /\ t \in Tables /\ t.last = 0 /\ t.tracks = [i \in 0 .. MaxTracks |-> NoTrack]
      /\ t.chd_f = image.name /\ t.sph = image.sph
  BY <1>1, <1>2 DEF Tables, Names
<1>4. \A j \in 0 .. MaxTracks : ~opened(t.tracks[j].f)
  BY <1>3 DEF opened, NoTrack, NoFile
<1>5. Chained(t, 0)
  <2>1. 0 .. t.last - 1 = {} /\ 1 .. t.last - 1 = {} /\ ~(t.last > 0)
    BY <1>3
  <2>2. QED
    BY <2>1 DEF Chained
<1>6. ChdTable(t, image, 0)
  BY <1>3, <1>4, <1>5 DEF ChdTable
<1>7. 0 \in Nat /\ ChdStart(image) \in [sectors : Nat, toc : Tables] /\ ChdStart(image).toc = t
  BY <1>1, <1>3
<1>8. QED
  BY <1>6, <1>7 DEF ChdOK

LEMMA PaddedType == \A n \in Nat : ChdPadded(n) \in Nat
BY DEF ChdPadded, CD_TRACK_PADDING

(* What is known of the tracks so far, without inc.                        *)
LEMMA ChdFacts ==
  ASSUME NEW image, NEW s, ChdOK(s, image)
  PROVE  LET n == s.toc.last
             old(i) == s.toc.tracks[i]
         IN /\ n \in 0 .. MaxTracks /\ s.toc.tracks \in [0 .. MaxTracks -> TrackSet]
            /\ s.toc \in Tables /\ s.sectors \in Nat
            /\ s.toc.chd_f = image.name /\ s.toc.sph = image.sph
            /\ \A i \in 0 .. MaxTracks : ~opened(old(i).f)
            /\ \A i \in 0 .. n - 1 : old(i).end \in Nat
            /\ n > 0 => old(0).start - old(0).pregap <= 0 /\ old(0).offset >= 0
            /\ \A i \in 1 .. n - 1 : /\ old(i).start - old(i).pregap <= old(i - 1).end
                                     /\ old(i - 1).end + old(i).offset >= 0
<1> DEFINE n == s.toc.last
           old(i) == s.toc.tracks[i]
<1>1. /\ n \in 0 .. MaxTracks /\ s.toc.tracks \in [0 .. MaxTracks -> TrackSet]
      /\ s.toc \in Tables /\ s.sectors \in Nat
  BY DEF ChdOK, Tables
<1>2. /\ s.toc.chd_f = image.name /\ s.toc.sph = image.sph
      /\ \A i \in 0 .. MaxTracks : ~opened(old(i).f)
  BY DEF ChdOK, ChdTable
<1>3. ASSUME NEW i \in 0 .. n - 1 PROVE old(i).end \in Nat /\ old(i).end + 0 = old(i).end
  <2>1. old(i).end + 0 \in Nat
    BY DEF ChdOK, ChdTable, Chained
  <2>2. i \in 0 .. MaxTracks
    BY <1>1, CdImageAssumption
  <2>3. old(i) \in TrackSet
    BY <1>1, <2>2
  <2>4. old(i).end \in Int
    BY <2>3 DEF TrackSet
  <2>5. QED
    BY <2>1, <2>4
<1>4. n > 0 => old(0).start - old(0).pregap <= 0 /\ old(0).offset >= 0
  BY DEF ChdOK, ChdTable, Chained
<1>5. ASSUME NEW i \in 1 .. n - 1
      PROVE  /\ old(i).start - old(i).pregap <= old(i - 1).end
             /\ old(i - 1).end + old(i).offset >= 0
  <2>1. /\ old(i).start - old(i).pregap <= old(i - 1).end + 0
        /\ (old(i - 1).end + 0) + old(i).offset >= 0
    BY DEF ChdOK, ChdTable, Chained
  <2>2. i - 1 \in 0 .. n - 1
    BY <1>1, CdImageAssumption
  <2>3. QED
    BY <1>3, <2>1, <2>2
<1>6. QED
  BY <1>1, <1>2, <1>3, <1>4, <1>5

(* The record of a track added to those before it.                         *)
LEMMA ChdTrackOK ==
  ASSUME NEW image, NEW s, ChdOK(s, image), NEW m \in ChdRecords
  PROVE  ChdOK(ChdTrack(s, m), image)
<1> DEFINE n == s.toc.last
           old(i) == s.toc.tracks[i]
           stored == IF m.pgvalid THEN m.pregap ELSE 0
           gap == IF m.pgvalid THEN 0 ELSE m.pregap
           prev == IF n = 0 THEN 0 ELSE old(n - 1).end + gap
           start == prev + stored
           end == start + m.frames - stored
           offset == s.sectors + stored - start
           this == [f |-> NoFile, offset |-> offset, pregap |-> m.pregap,
                    start |-> start, end |-> end, type |-> m.type]
           cut(i) == [old(i) EXCEPT !.end = prev]
           tracks == [i \in 0 .. MaxTracks |->
                        IF i = n THEN this ELSE IF i = n - 1 THEN cut(i) ELSE old(i)]
           t == [s.toc EXCEPT !.tracks = tracks, !.end = end + m.postgap, !.last = n + 1]
<1>1. CASE n >= MaxTracks
  BY <1>1 DEF ChdTrack
<1>2. CASE ~(n >= MaxTracks)
  <2>1. /\ n \in 0 .. MaxTracks /\ n + 1 \in 0 .. MaxTracks
        /\ s.toc.tracks \in [0 .. MaxTracks -> TrackSet]
        /\ s.toc \in Tables /\ s.sectors \in Nat
    BY <1>2, CdImageAssumption, ChdFacts
  <2>2. /\ m.frames \in Nat /\ m.pregap \in Nat /\ m.postgap \in Nat
        /\ m.type \in TrackTypes /\ m.pgvalid \in BOOLEAN
    BY DEF ChdRecords
  <2>3. stored \in Nat /\ gap \in Nat /\ stored <= m.pregap
    BY <2>2
  <2> HIDE DEF stored, gap
  <2>4. prev \in Nat
    <3>1. ASSUME n # 0 PROVE old(n - 1).end \in Nat
      <4>1. n - 1 \in 0 .. n - 1
        BY <2>1, <3>1
      <4>2. QED
        BY <4>1, ChdFacts
    <3>2. QED
      BY <2>3, <3>1
  <2>5. n = 0 => prev = 0
    OBVIOUS
  <2>6. ChdTrack(s, m) = [sectors |-> s.sectors + ChdPadded(m.frames), toc |-> t]
    BY <1>2 DEF ChdTrack, stored, gap
  <2> HIDE DEF prev
  <2>7. /\ start \in Nat /\ start - m.pregap <= prev
        /\ end = prev + m.frames /\ end \in Nat /\ offset = s.sectors - prev
    BY <2>1, <2>2, <2>3, <2>4
  <2> HIDE DEF start, end, offset
  <2>8. this \in TrackSet /\ ~opened(this.f)
    BY <2>1, <2>2, <2>4, <2>7 DEF TrackSet, FileSet, NoFile, opened
  <2>9. this.start = start /\ this.pregap = m.pregap /\ this.end = end /\ this.offset = offset
    OBVIOUS
  <2> HIDE DEF this
  <2>10. ASSUME NEW i \in 0 .. MaxTracks
         PROVE  /\ cut(i) \in TrackSet /\ cut(i).start = old(i).start
                /\ cut(i).pregap = old(i).pregap /\ cut(i).end = prev
                /\ cut(i).offset = old(i).offset /\ cut(i).f = old(i).f
    <3>1. old(i) \in TrackSet
      BY <2>1
    <3> HIDE DEF old
    <3>2. QED
      BY <2>4, <3>1 DEF TrackSet
  <2>11. \A i \in 0 .. MaxTracks : cut(i) \in TrackSet /\ old(i) \in TrackSet
    BY <2>1, <2>10
  <2> HIDE DEF cut, old
  <2>12. /\ tracks \in [0 .. MaxTracks -> TrackSet] /\ tracks[n] = this
         /\ \A i \in 0 .. MaxTracks :
              /\ i = n - 1 => tracks[i] = cut(i)
              /\ i # n /\ i # n - 1 => tracks[i] = old(i)
    BY <2>1, <2>8, <2>11
  <2> HIDE DEF tracks
  <2>13. end + m.postgap \in Nat
    BY <2>2, <2>7
  <2>14. t \in Tables /\ t.last = n + 1 /\ t.tracks = tracks
         /\ t.chd_f = s.toc.chd_f /\ t.sph = s.toc.sph
    BY <2>1, <2>12, <2>13 DEF Tables
  <2> HIDE DEF t, n
  <2>15. ASSUME NEW j \in 0 .. MaxTracks PROVE ~opened(tracks[j].f)
    <3>1. ~opened(old(j).f) /\ ~opened(cut(j).f)
      BY <2>10, ChdFacts DEF old
    <3>2. QED
      BY <2>8, <2>12, <3>1
  <2>16. ASSUME NEW i \in 0 .. n PROVE tracks[i].end \in Nat
    <3>1. i \in 0 .. MaxTracks
      BY <2>1, CdImageAssumption
    <3>2. i # n /\ i # n - 1 => old(i).end \in Nat
      <4>1. i # n => i \in 0 .. n - 1
        BY <2>1
      <4>2. QED
        BY <4>1, ChdFacts DEF old, n
    <3>3. QED
      BY <2>4, <2>7, <2>9, <2>10, <2>12, <3>1, <3>2
  <2>17. tracks[0].start - tracks[0].pregap <= 0 /\ tracks[0].offset >= 0
    <3>1. CASE n = 0
      <4>1. tracks[0] = this
        BY <2>12, <3>1
      <4>2. QED
        BY <2>1, <2>5, <2>7, <2>9, <3>1, <4>1 DEF n
    <3>2. CASE n # 0
      <4>1. old(0).start - old(0).pregap <= 0 /\ old(0).offset >= 0
        BY <2>1, <3>2, ChdFacts DEF old, n
      <4>2. 0 \in 0 .. MaxTracks /\ 0 # n
        BY <2>1, <3>2, CdImageAssumption
      <4>3. tracks[0] = cut(0) \/ tracks[0] = old(0)
        BY <2>12, <4>2
      <4>4. QED
        BY <2>10, <4>1, <4>2, <4>3
    <3>3. QED
      BY <3>1, <3>2
  <2>18. ASSUME NEW i \in 1 .. n
         PROVE  /\ tracks[i].start - tracks[i].pregap <= tracks[i - 1].end
                /\ tracks[i - 1].end + tracks[i].offset >= 0
    <3>1. i \in 0 .. MaxTracks /\ i - 1 \in 0 .. MaxTracks
      BY <2>1, CdImageAssumption
    <3>2. CASE i = n
      <4>1. tracks[i] = this /\ tracks[i - 1] = cut(i - 1)
        BY <2>12, <3>1, <3>2
      <4>2. tracks[i - 1].end = prev
        BY <2>10, <3>1, <4>1
      <4>3. QED
        BY <2>1, <2>4, <2>7, <2>9, <4>1, <4>2
    <3>3. CASE i # n
      <4>1. tracks[i - 1] = old(i - 1) /\ (tracks[i] = old(i) \/ tracks[i] = cut(i))
        BY <2>1, <2>12, <3>1, <3>3
      <4>2. /\ tracks[i].start = old(i).start /\ tracks[i].pregap = old(i).pregap
            /\ tracks[i].offset = old(i).offset
        BY <2>10, <3>1, <4>1
      <4>3. i \in 1 .. n - 1
        BY <2>1, <3>3
      <4>4. /\ old(i).start - old(i).pregap <= old(i - 1).end
            /\ old(i - 1).end + old(i).offset >= 0
        BY <4>3, ChdFacts DEF old, n
      <4>5. QED
        BY <4>1, <4>2, <4>4
    <3>4. QED
      BY <3>2, <3>3
  <2>19. Chained(t, 0)
    <3>1. (n + 1) - 1 = n
      BY <2>1
    <3>2. \A i \in 0 .. n : tracks[i].end + 0 \in Nat /\ tracks[i].end + 0 = tracks[i].end
      BY <2>16
    <3>3. \A i \in 1 .. n : i - 1 \in 0 .. n
      BY <2>1
    <3>4. QED
      <4>1. \A i \in 0 .. t.last - 1 : t.tracks[i].end + 0 \in Nat
        BY <2>14, <3>1, <3>2
      <4>2. \A i \in 1 .. t.last - 1 :
              LET from == t.tracks[i - 1].end + 0
              IN /\ t.tracks[i].start - t.tracks[i].pregap <= from
                 /\ from + t.tracks[i].offset >= 0
        BY <2>14, <2>18, <3>1, <3>2, <3>3
      <4>3. QED
        BY <2>14, <2>17, <4>1, <4>2 DEF Chained
  <2>20. s.sectors + ChdPadded(m.frames) \in Nat
    <3>1. ChdPadded(m.frames) \in Nat
      <4>1. m.frames \in Nat
        BY <2>2
      <4>2. QED
        BY <4>1, PaddedType
    <3>2. s.sectors \in Nat
      BY <2>1
    <3>3. QED
      BY <3>1, <3>2
  <2>21. ChdTable(t, image, 0)
    <3>1. s.toc.chd_f = image.name /\ s.toc.sph = image.sph
      BY ChdFacts
    <3>2. t.chd_f = image.name /\ t.sph = image.sph
      BY <2>14, <3>1
    <3>3. \A j \in 0 .. MaxTracks : ~opened(t.tracks[j].f)
      BY <2>14, <2>15
    <3>4. QED
      BY <2>14, <2>19, <3>2, <3>3 DEF ChdTable
  <2>22. QED
    BY <2>6, <2>14, <2>20, <2>21 DEF ChdOK
<1>3. QED
  BY <1>1, <1>2

(* Every CHD file gives a table whose tracks are chained.                  *)
LEMMA ChdLoaded ==
  ASSUME NEW image, image.name \in Names, image.sph \in Nat \ {0},
         image.chd \in Seq(ChdRecords)
  PROVE  ChdTable(load_chd(image), image, 1)
<1> DEFINE chd == image.chd
           after(n) == ChdIter(image)[1 .. n]
           S == {n \in Nat : n <= Len(chd) => ChdOK(after(n), image)}
<1>1. Len(chd) \in Nat /\ DOMAIN chd = 1 .. Len(chd)
  OBVIOUS
<1>2. 0 \in S
  <2>1. after(0) = ChdStart(image)
    <3>1. 1 .. 0 = {} /\ 0 \in 0 .. Len(chd)
      BY <1>1
    <3>2. QED
      BY <3>1, ChdFold
  <2>2. QED
    BY <2>1, ChdStartOK
<1>3. ASSUME NEW n \in Nat, n \in S PROVE n + 1 \in S
  <2>1. SUFFICES ASSUME n + 1 <= Len(chd) PROVE ChdOK(after(n + 1), image)
    OBVIOUS
  <2>2. n + 1 \in 0 .. Len(chd) /\ n + 1 > 0 /\ (n + 1) - 1 = n
    BY <1>1, <2>1
  <2>3. after(n + 1) = ChdTrack(after(n), chd[n + 1])
    BY <2>2, ChdFold
  <2>4. ChdOK(after(n), image) /\ chd[n + 1] \in ChdRecords
    BY <1>1, <1>3, <2>1, <2>2
  <2> HIDE DEF after, chd
  <2>5. QED
    BY <2>3, <2>4, ChdTrackOK
<1>4. Len(chd) \in S
  <2> HIDE DEF S
  <2> QED BY <1>1, <1>2, <1>3, Induction
<1>5. ChdOK(ChdAll(image), image)
  BY <1>1, <1>4 DEF ChdAll
<1> HIDE DEF chd, after, S
<1> DEFINE s == ChdAll(image)
           n == s.toc.last
           old(i) == s.toc.tracks[i]
           inclusive(t) == [t EXCEPT !.end = @ - 1]
           tracks == [i \in 0 .. MaxTracks |-> IF i < n THEN inclusive(old(i)) ELSE old(i)]
           r == load_chd(image)
<1>6. r = [s.toc EXCEPT !.tracks = tracks]
  BY ChdUnfold
<1> HIDE DEF s, r
<1>7. /\ n \in 0 .. MaxTracks /\ s.toc.tracks \in [0 .. MaxTracks -> TrackSet]
      /\ s.toc \in Tables /\ s.toc.chd_f = image.name /\ s.toc.sph = image.sph
      /\ \A i \in 0 .. MaxTracks : ~opened(old(i).f)
      /\ \A i \in 0 .. n - 1 : old(i).end \in Nat
      /\ n > 0 => old(0).start - old(0).pregap <= 0 /\ old(0).offset >= 0
      /\ \A i \in 1 .. n - 1 : /\ old(i).start - old(i).pregap <= old(i - 1).end
                               /\ old(i - 1).end + old(i).offset >= 0
  BY <1>5, ChdFacts DEF s
<1>8. ASSUME NEW i \in 0 .. MaxTracks
      PROVE  /\ inclusive(old(i)) \in TrackSet /\ inclusive(old(i)).start = old(i).start
             /\ inclusive(old(i)).pregap = old(i).pregap
             /\ inclusive(old(i)).offset = old(i).offset
             /\ inclusive(old(i)).f = old(i).f /\ inclusive(old(i)).end = old(i).end - 1
             /\ old(i) \in TrackSet
  <2>1. old(i) \in TrackSet
    BY <1>7
  <2> HIDE DEF old
  <2>2. QED
    BY <2>1 DEF TrackSet
<1> HIDE DEF inclusive, old
<1>9. /\ tracks \in [0 .. MaxTracks -> TrackSet]
      /\ \A i \in 0 .. MaxTracks :
           /\ tracks[i].start = old(i).start /\ tracks[i].pregap = old(i).pregap
           /\ tracks[i].offset = old(i).offset /\ tracks[i].f = old(i).f
           /\ i < n => tracks[i].end = old(i).end - 1
  BY <1>8
<1> HIDE DEF tracks
<1>10. /\ r \in Tables /\ r.last = n /\ r.tracks = tracks /\ r.chd_f = image.name
       /\ r.sph = image.sph
  BY <1>6, <1>7, <1>9 DEF Tables
<1> HIDE DEF n
<1>11. \A i \in 0 .. n - 1 : i \in 0 .. MaxTracks /\ i < n
  BY <1>7, CdImageAssumption
<1>12. ASSUME NEW i \in 0 .. n - 1
       PROVE  tracks[i].end + 1 \in Nat /\ tracks[i].end + 1 = old(i).end
  <2>1. tracks[i].end = old(i).end - 1 /\ old(i).end \in Nat
    BY <1>7, <1>9, <1>11
  <2>2. QED
    BY <2>1
<1>13. n > 0 => tracks[0].start - tracks[0].pregap <= 0 /\ tracks[0].offset >= 0
  BY <1>7, <1>9, CdImageAssumption
<1>14. ASSUME NEW i \in 1 .. n - 1
       PROVE  /\ tracks[i].start - tracks[i].pregap <= tracks[i - 1].end + 1
              /\ (tracks[i - 1].end + 1) + tracks[i].offset >= 0
  <2>1. i \in 0 .. n - 1 /\ i - 1 \in 0 .. n - 1
    BY <1>7, CdImageAssumption
  <2>2. i \in 0 .. MaxTracks
    BY <1>11, <2>1
  <2>3. tracks[i - 1].end + 1 = old(i - 1).end
    BY <1>12, <2>1
  <2>4. QED
    BY <1>7, <1>9, <2>2, <2>3
<1>15. Chained(r, 1)
  BY <1>10, <1>12, <1>13, <1>14 DEF Chained
<1>16. \A j \in 0 .. MaxTracks : ~opened(r.tracks[j].f)
  BY <1>7, <1>9, <1>10
<1>17. QED
  BY <1>10, <1>15, <1>16 DEF ChdTable, r

-----------------------------------------------------------------------------
(* The requests.                                                           *)

LEMMA SlotsBound ==
  ASSUME NEW q \in Requests
  PROVE  Slots \in Nat /\ q[2] \in Nat \ {0} /\ q[2] <= Slots
<1>1. PICK seq \in Seq(Requests) : \A r \in Requests : \E k \in 1 .. Len(seq) : seq[k] = r
  BY CdHostAssumption DEF IsFiniteSet
<1> DEFINE S == {n \in Nat : n <= Len(seq) => \E b \in Nat : \A k \in 1 .. n : seq[k][2] <= b}
<1>2. Len(seq) \in Nat /\ DOMAIN seq = 1 .. Len(seq)
  OBVIOUS
<1>3. 0 \in S
  <2>1. \A k \in 1 .. 0 : seq[k][2] <= 0
    OBVIOUS
  <2>2. QED
    BY <2>1
<1>4. ASSUME NEW n \in Nat, n \in S PROVE n + 1 \in S
  <2>1. SUFFICES ASSUME n + 1 <= Len(seq)
                 PROVE  \E b \in Nat : \A k \in 1 .. n + 1 : seq[k][2] <= b
    OBVIOUS
  <2>2. PICK b \in Nat : \A k \in 1 .. n : seq[k][2] <= b
    <3>1. n <= Len(seq)
      BY <1>2, <2>1
    <3>2. QED
      BY <1>4, <3>1, Zenon
  <2>3. n + 1 \in DOMAIN seq
    BY <1>2, <2>1
  <2>4. \A k \in 1 .. n + 1 : seq[k][2] \in Nat
    <3>1. \A k \in 1 .. n + 1 : seq[k] \in Requests
      BY <1>2, <2>1
    <3>2. QED
      BY <3>1, CdHostAssumption
  <2> DEFINE c == b + seq[n + 1][2]
  <2>5. c \in Nat /\ b <= c /\ seq[n + 1][2] <= c
    BY <2>4
  <2> HIDE DEF c
  <2>6. ASSUME NEW k \in 1 .. n + 1 PROVE seq[k][2] <= c
    <3>1. k = n + 1 \/ k \in 1 .. n
      OBVIOUS
    <3>2. seq[k][2] \in Nat
      BY <2>4
    <3>3. CASE k \in 1 .. n
      <4>1. seq[k][2] <= b
        BY <2>2, <3>3
      <4>2. QED
        BY <2>5, <3>2, <4>1
    <3>4. QED
      BY <2>5, <3>1, <3>3
  <2>7. QED
    BY <2>5, <2>6
<1>5. Len(seq) \in S
  <2> HIDE DEF S
  <2> QED BY <1>2, <1>3, <1>4, Induction
<1>6. PICK b \in Nat : \A k \in 1 .. Len(seq) : seq[k][2] <= b
  BY <1>2, <1>5
<1> DEFINE T == {r[2] : r \in Requests}
<1>7. q[2] \in T /\ T # {}
  OBVIOUS
<1>8. T \subseteq 0 .. b
  <2>1. ASSUME NEW r \in Requests PROVE r[2] \in 0 .. b
    <3>1. r[2] \in Nat
      BY CdHostAssumption
    <3>2. r[2] <= b
      BY <1>1, <1>6
    <3>3. QED
      BY <3>1, <3>2
  <2>2. QED
    BY <2>1
<1> HIDE DEF T
<1>9. Max(T) \in T /\ \A m \in T : Max(T) >= m
  BY <1>7, <1>8, MaxIs
<1>10. q[2] \in Nat \ {0}
  BY CdHostAssumption
<1>11. Max(T) \in Nat /\ q[2] <= Max(T)
  <2>1. Max(T) \in 0 .. b /\ Max(T) >= q[2]
    BY <1>7, <1>8, <1>9
  <2>2. QED
    BY <1>10, <2>1
<1>12. QED
  BY <1>10, <1>11 DEF Slots, T

(* Of the tracks that hold an address, the first has a frame for it.       *)
LEMMA FirstHolds ==
  ASSUME NEW table \in Tables, Chained(table, 1), NEW lba \in Nat,
         NEW i \in 0 .. table.last - 1,
         \A j \in 0 .. table.last - 1 : Holds(table.tracks[j], lba) => i <= j
  PROVE  lba + table.tracks[i].offset >= 0
<1> DEFINE n == table.last
           at(j) == table.tracks[j]
<1>1. n \in 0 .. MaxTracks /\ table.tracks \in [0 .. MaxTracks -> TrackSet]
  BY DEF Tables
<1>2. ASSUME NEW j \in 0 .. n - 1
      PROVE  /\ at(j).start \in Int /\ at(j).pregap \in Int /\ at(j).end \in Int
             /\ at(j).offset \in Int
  <2>1. j \in 0 .. MaxTracks
    BY <1>1, CdImageAssumption
  <2>2. at(j) \in TrackSet
    BY <1>1, <2>1
  <2>3. QED
    BY <2>2 DEF TrackSet
<1>3. CASE i = 0
  <2>1. at(0).offset >= 0
    BY <1>1, <1>3, CdImageAssumption DEF Chained
  <2>2. QED
    BY <1>2, <1>3, <2>1
<1>4. CASE i # 0
  <2>1. i \in 1 .. n - 1 /\ i - 1 \in 0 .. n - 1
    BY <1>1, <1>4, CdImageAssumption
  <2>2. (at(i - 1).end + 1) + at(i).offset >= 0
    BY <2>1 DEF Chained
  <2>3. SUFFICES ASSUME lba <= at(i - 1).end PROVE FALSE
    BY <1>2, <2>1, <2>2
  <2> DEFINE T == {j \in 0 .. i - 1 : lba <= at(j).end}
  <2>4. T \subseteq Nat /\ i - 1 \in T
    BY <2>1, <2>3
  <2>5. PICK j \in T : \A k \in T : j <= k
    <3> HIDE DEF T
    <3> QED BY <2>4, Least
  <2>6. j \in 0 .. n - 1 /\ j < i /\ lba <= at(j).end
    BY <1>1, <2>1, CdImageAssumption
  <2>7. at(j).start - at(j).pregap <= lba
    <3>1. CASE j = 0
      <4>1. at(0).start - at(0).pregap <= 0
        BY <1>1, <2>1, CdImageAssumption DEF Chained
      <4>2. QED
        BY <1>2, <2>6, <3>1, <4>1
    <3>2. CASE j # 0
      <4>1. j \in 1 .. n - 1 /\ j - 1 \in 0 .. n - 1 /\ j - 1 \in 0 .. i - 1
        BY <1>1, <2>1, <2>6, <3>2
      <4>2. at(j).start - at(j).pregap <= at(j - 1).end + 1
        BY <4>1 DEF Chained
      <4>3. ~(lba <= at(j - 1).end)
        BY <2>5, <2>6, <4>1
      <4>4. QED
        BY <1>2, <2>6, <4>1, <4>2, <4>3
    <3>3. QED
      BY <3>1, <3>2
  <2>8. i <= j
    BY <2>6, <2>7 DEF Holds
  <2>9. QED
    BY <2>6, <2>8
<1>5. QED
  BY <1>3, <1>4

(* Moving the position in a file opens and closes none.                    *)
Moved(table, moved) ==
  /\ moved \in Tables /\ moved.last = table.last /\ moved.chd_f = table.chd_f
  /\ \A j \in 0 .. MaxTracks : opened(moved.tracks[j].f) = opened(table.tracks[j].f)

LEMMA Positioned ==
  ASSUME NEW table \in Tables, NEW k \in 0 .. MaxTracks, NEW pos \in Int
  PROVE  Moved(table, [table EXCEPT !.tracks[k].f.pos = pos])
<1> DEFINE t == table.tracks[k]
           f == [t.f EXCEPT !.pos = pos]
           u == [t EXCEPT !.f = f]
           tracks == [table.tracks EXCEPT ![k] = u]
           moved == [table EXCEPT !.tracks[k].f.pos = pos]
<1>1. table.tracks \in [0 .. MaxTracks -> TrackSet]
  BY DEF Tables
<1>2. t \in TrackSet
  BY <1>1
<1>3. t.f \in FileSet
  BY <1>2 DEF TrackSet
<1>4. moved = [table EXCEPT !.tracks = tracks]
  OBVIOUS
<1> HIDE DEF t, moved
<1>5. f \in FileSet /\ f.file = t.f.file
  BY <1>3 DEF FileSet
<1> HIDE DEF f
<1>6. u \in TrackSet /\ u.f = f
  BY <1>2, <1>5 DEF TrackSet
<1> HIDE DEF u
<1>7. /\ tracks \in [0 .. MaxTracks -> TrackSet]
      /\ \A j \in 0 .. MaxTracks : tracks[j] = IF j = k THEN u ELSE table.tracks[j]
  BY <1>1, <1>6
<1> HIDE DEF tracks
<1>8. moved \in Tables /\ moved.last = table.last /\ moved.chd_f = table.chd_f
      /\ moved.tracks = tracks
  BY <1>4, <1>7 DEF Tables
<1>9. \A j \in 0 .. MaxTracks : opened(tracks[j].f) = opened(table.tracks[j].f)
  BY <1>5, <1>6, <1>7 DEF opened, t
<1>10. QED
  BY <1>8, <1>9 DEF moved, Moved

-----------------------------------------------------------------------------
(* The invariant.  A call stays in the caller's buffer, and in a track; in *)
(* a CHD file the track has a frame for the address.                       *)

Memory == {"NULL", "LIVE", "FREED", "ABORT"}

CallOK ==
  /\ call \in [loop : {"IDLE", "OUTER", "INNER"}, lba : Int, cnt : Nat, slot : Nat, i : Nat]
  /\ call.loop # "IDLE" =>
       Slots \in Nat /\ call.cnt > 0 /\ call.slot > 0 /\ call.slot + call.cnt <= Slots + 1
  /\ call.loop = "INNER" =>
       /\ call.i \in 0 .. toc.last - 1
       /\ toc.chd_f # "NONE" => call.lba + toc.tracks[call.i].offset >= 0

MountOK ==
  /\ shelf \in Shelves /\ img_size \in Nat
  /\ toc \in Tables /\ (toc.chd_f # "NONE" => Chained(toc, 1))
  /\ hunkmem \in Memory /\ hunknum \in Nat \cup {-1} /\ chd_failed \in BOOLEAN

HostInv == MountOK /\ CallOK /\ CacheTrue /\ DOMAIN buffer = 1 .. Slots

(* Free leaves memory in one of its states.                                *)
LEMMA FreeType == ASSUME NEW mem \in Memory PROVE Free(mem) \subseteq Memory
BY DEF Free, Memory

LEMMA InitHost == Init => HostInv
<1> SUFFICES ASSUME Init PROVE HostInv
  OBVIOUS
<1>1. MountOK
  BY EmptyTocType DEF Init, MountOK, Memory, EmptyToc
<1>2. CallOK
  BY DEF Init, CallOK, Idle
<1>3. CacheTrue
  BY EmptyTocType DEF Init, CacheTrue
<1>4. DOMAIN buffer = 1 .. Slots
  BY DEF Init
<1>5. QED
  BY <1>1, <1>2, <1>3, <1>4 DEF HostInv

LEMMA UnmountedHost ==
  ASSUME HostInv, Unmounted, hunkmem' \in Memory, chd_failed' \in BOOLEAN, UNCHANGED shelf
  PROVE  MountOK' /\ CacheTrue'
<1>1. toc' = EmptyToc /\ EmptyToc \in Tables /\ EmptyToc.chd_f = "NONE"
  BY EmptyTocType DEF Unmounted
<1>2. img_size' = 0 /\ hunknum' = -1 /\ shelf' = shelf /\ shelf \in Shelves
  BY DEF Unmounted, HostInv, MountOK
<1>3. MountOK'
  BY <1>1, <1>2 DEF MountOK
<1>4. CacheTrue'
  BY <1>1 DEF CacheTrue
<1>5. QED
  BY <1>3, <1>4

LEMMA MountCueHost ==
  ASSUME HostInv, NEW image \in shelf, MountCue(image), UNCHANGED shelf
  PROVE  MountOK' /\ CacheTrue'
<1> DEFINE s == load_cue(image)
           table == s.toc
<1>1. image.kind = "cue" /\ shelf \in Shelves
  BY DEF MountCue, HostInv, MountOK
<1>2. image.cue \in Seq(CueCommands)
  BY <1>1, ImageAssumption
<1>3. table \in Tables /\ table.chd_f = "NONE"
  BY <1>2, CueLoaded DEF CueOK, Readers
<1>4. CASE s.state # "FAILED" /\ table.last > 0
  <2>1. /\ toc' = table /\ img_size' = table.end /\ UNCHANGED <<hunkmem, hunkdata, hunknum>>
        /\ chd_failed' = FALSE
    BY <1>4 DEF MountCue, Mounted
  <2> HIDE DEF table, s
  <2>2. MountOK'
    BY <1>3, <2>1 DEF HostInv, MountOK, Tables
  <2>3. CacheTrue'
    BY <1>3, <2>1 DEF CacheTrue
  <2>4. QED
    BY <2>2, <2>3
<1>5. CASE ~(s.state # "FAILED" /\ table.last > 0)
  <2>1. Unmounted /\ hunkmem' \in Free(hunkmem) /\ chd_failed' = FALSE
    BY <1>5 DEF MountCue
  <2>2. hunkmem' \in Memory
    BY <2>1, FreeType DEF HostInv, MountOK
  <2>3. QED
    BY <2>1, <2>2, UnmountedHost
<1>6. QED
  BY <1>4, <1>5

LEMMA MountChdHost ==
  ASSUME HostInv, NEW image \in shelf, MountChd(image), UNCHANGED shelf
  PROVE  MountOK' /\ CacheTrue'
<1> DEFINE table == load_chd(image)
<1>1. image.kind = "chd" /\ shelf \in Shelves
  BY DEF MountChd, HostInv, MountOK
<1>2. /\ image.chd \in Seq(ChdRecords) /\ image.name \in Names /\ image.sph \in Nat \ {0}
  BY <1>1, ImageAssumption
<1>3. /\ table \in Tables /\ table.chd_f = image.name /\ Chained(table, 1)
      /\ table.chd_f # "NONE"
  BY <1>2, ChdLoaded DEF ChdTable, Names
<1>4. PICK freed \in Free(hunkmem) :
        IF freed = "ABORT"
        THEN /\ hunkmem' = freed
             /\ UNCHANGED <<mountvars, hunkdata, hunknum>>
        ELSE IF image.found /\ table.last > 0
        THEN /\ Mounted(image, table)
             /\ leaked' = LostByChd(toc)
             /\ NewHunkBuffer
        ELSE /\ Unmounted
             /\ leaked' = LostByChd(toc) \cup (IF image.found THEN {image.name} ELSE {})
             /\ hunkmem' \in Free(IF image.found THEN "LIVE" ELSE freed)
  BY DEF MountChd
<1>5. freed \in Memory /\ chd_failed' = FALSE
  BY FreeType DEF HostInv, MountOK, MountChd
<1> HIDE DEF table
<1>6. CASE freed = "ABORT"
  <2>1. hunkmem' = "ABORT" /\ toc' = toc /\ img_size' = img_size /\ hunknum' = hunknum
    BY <1>4, <1>6 DEF mountvars
  <2>2. MountOK'
    BY <1>5, <2>1 DEF HostInv, MountOK, Memory, Chained
  <2>3. CacheTrue'
    BY <2>1 DEF CacheTrue, Alive
  <2>4. QED
    BY <2>2, <2>3
<1>7. CASE freed # "ABORT" /\ image.found /\ table.last > 0
  <2>1. /\ toc' = table /\ img_size' = table.end /\ hunkmem' = "LIVE" /\ hunknum' = -1
    BY <1>4, <1>7 DEF Mounted, NewHunkBuffer
  <2>2. MountOK'
    BY <1>3, <1>5, <2>1 DEF HostInv, MountOK, Memory, Tables, Chained
  <2>3. CacheTrue'
    BY <2>1 DEF CacheTrue
  <2>4. QED
    BY <2>2, <2>3
<1>8. CASE freed # "ABORT" /\ ~(image.found /\ table.last > 0)
  <2>1. Unmounted /\ hunkmem' \in Free(IF image.found THEN "LIVE" ELSE freed)
    BY <1>4, <1>8
  <2>2. (IF image.found THEN "LIVE" ELSE freed) \in Memory
    BY <1>5 DEF Memory
  <2>3. hunkmem' \in Memory
    BY <2>1, <2>2, FreeType
  <2>4. QED
    BY <1>5, <2>1, <2>3, UnmountedHost
<1>9. QED
  BY <1>6, <1>7, <1>8

LEMMA MountHost == ASSUME HostInv, pcfx_mount_cd PROVE HostInv'
<1>1. /\ call.loop = "IDLE" /\ UNCHANGED <<shelf, call>>
      /\ buffer' = [k \in DOMAIN buffer |-> Old]
  BY DEF pcfx_mount_cd
<1>2. MountOK' /\ CacheTrue'
  <2>1. CASE \E image \in shelf : MountCue(image) \/ MountChd(image)
    BY <1>1, <2>1, MountCueHost, MountChdHost
  <2>2. CASE MountNothing
    <3>1. hunkmem' \in Memory
      BY <2>2, FreeType DEF MountNothing, HostInv, MountOK
    <3>2. QED
      BY <1>1, <2>2, <3>1, UnmountedHost DEF MountNothing
  <2>3. QED
    BY <2>1, <2>2 DEF pcfx_mount_cd
<1>3. CallOK'
  BY <1>1 DEF HostInv, CallOK
<1>4. (DOMAIN buffer = 1 .. Slots)'
  BY <1>1 DEF HostInv
<1>5. QED
  BY <1>2, <1>3, <1>4 DEF HostInv

(* A call goes on, or returns.                                             *)
LEMMA OuterHost ==
  ASSUME NEW lba \in Int, NEW cnt \in Nat, NEW slot \in Nat \ {0}, Slots \in Nat,
         slot + cnt <= Slots + 1, call' = Outer(lba, cnt, slot)
  PROVE  CallOK'
<1>1. CASE cnt > 0
  <2>1. call' = [loop |-> "OUTER", lba |-> lba, cnt |-> cnt, slot |-> slot, i |-> 0]
    BY <1>1 DEF Outer
  <2>2. QED
    BY <1>1, <2>1 DEF CallOK
<1>2. CASE ~(cnt > 0)
  BY <1>2 DEF Outer, Idle, CallOK
<1>3. QED
  BY <1>1, <1>2

LEMMA CallHost == ASSUME HostInv, NEW r \in Requests, pcfx_read_cd(r[1], r[2]) PROVE HostInv'
<1>1. /\ call' = Outer(r[1], r[2], 1) /\ buffer' = [k \in DOMAIN buffer |-> Old]
      /\ UNCHANGED <<shelf, toc, toc_buffer, img_size, disc, hunkvars>>
  BY DEF pcfx_read_cd
<1>2. MountOK' /\ CacheTrue'
  BY <1>1 DEF HostInv, MountOK, CacheTrue, Chained, Alive, hunkvars
<1>3. CallOK'
  <2>1. r[1] \in Int /\ r[2] \in Nat /\ Slots \in Nat /\ r[2] <= Slots
    BY SlotsBound, CdHostAssumption
  <2>2. 1 + r[2] <= Slots + 1
    BY <2>1
  <2>3. 1 \in Nat \ {0}
    OBVIOUS
  <2>4. QED
    BY <1>1, <2>1, <2>2, <2>3, OuterHost
<1>4. (DOMAIN buffer = 1 .. Slots)'
  BY <1>1 DEF HostInv
<1>5. QED
  BY <1>2, <1>3, <1>4 DEF HostInv

LEMMA TocHost == ASSUME HostInv, ReadToc PROVE HostInv'
<1>1. /\ call.loop = "OUTER" /\ call' = Outer(call.lba + 1, call.cnt - 1, call.slot + 1)
      /\ UNCHANGED <<shelf, mountvars, hunkvars>> /\ DOMAIN buffer' = DOMAIN buffer
  BY DEF ReadToc, Put
<1>2. MountOK' /\ CacheTrue'
  BY <1>1 DEF HostInv, MountOK, CacheTrue, Chained, Alive, hunkvars, mountvars
<1>3. /\ call.lba + 1 \in Int /\ call.cnt - 1 \in Nat /\ call.slot + 1 \in Nat \ {0}
      /\ Slots \in Nat /\ (call.slot + 1) + (call.cnt - 1) <= Slots + 1
  BY <1>1 DEF HostInv, CallOK
<1>4. CallOK'
  BY <1>1, <1>3, OuterHost
<1>5. QED
  BY <1>1, <1>2, <1>4 DEF HostInv

LEMMA FindMoves ==
  ASSUME HostInv, FindTrack
  PROVE  Moved(toc, toc') /\ (toc.chd_f # "NONE" => toc' = toc) /\ toc.last > 0
<1> DEFINE found == {j \in 0 .. toc.last - 1 : Holds(toc.tracks[j], call.lba)}
           i == Min(found)
           t == toc.tracks[i]
           pos == t.offset + call.lba - t.start + t.pregap
<1>1. /\ toc \in Tables /\ toc.last \in 0 .. MaxTracks /\ call.lba \in Int
      /\ toc.tracks \in [0 .. MaxTracks -> TrackSet]
  BY DEF HostInv, MountOK, CallOK, Tables
<1>2. toc.last > 0
  BY DEF FindTrack
<1>3. Moved(toc, toc)
  BY <1>1 DEF Moved
<1>4. CASE found = {}
  <2>1. toc' = toc
    BY <1>4 DEF FindTrack
  <2>2. QED
    BY <1>2, <1>3, <2>1
<1>5. CASE found # {}
  <2>1. toc' = IF toc.chd_f = "NONE" /\ opened(toc.tracks[0].f)
               THEN [toc EXCEPT !.tracks[0].f.pos = pos] ELSE toc
    BY <1>5 DEF FindTrack
  <2>2. i \in found
    <3>1. found \subseteq Nat
      BY <1>1
    <3> HIDE DEF found
    <3>2. QED
      BY <1>5, <3>1, MinIs
  <2>3. t \in TrackSet
    <3>1. i \in 0 .. MaxTracks
      BY <1>1, <2>2, CdImageAssumption
    <3> HIDE DEF i
    <3>2. QED
      BY <1>1, <3>1
  <2>4. pos \in Int
    <3> HIDE DEF t
    <3>1. t.offset \in Int /\ t.start \in Int /\ t.pregap \in Int
      BY <2>3 DEF TrackSet
    <3>2. QED
      BY <1>1, <3>1
  <2> HIDE DEF pos
  <2>5. PICK k \in 0 .. MaxTracks : k = 0
    BY CdImageAssumption
  <2> DEFINE moved == [toc EXCEPT !.tracks[k].f.pos = pos]
  <2>6. Moved(toc, moved)
    <3>1. toc \in Tables
      BY <1>1
    <3>2. QED
      BY <2>4, <3>1, Positioned
  <2>7. toc' = IF toc.chd_f = "NONE" /\ opened(toc.tracks[0].f) THEN moved ELSE toc
    BY <2>1, <2>5
  <2> HIDE DEF moved
  <2>8. QED
    BY <1>2, <1>3, <2>6, <2>7
<1>6. QED
  BY <1>4, <1>5

LEMMA FindHost == ASSUME HostInv, FindTrack PROVE HostInv'
<1> DEFINE found == {j \in 0 .. toc.last - 1 : Holds(toc.tracks[j], call.lba)}
           i == Min(found)
<1>1. /\ call.loop = "OUTER" /\ call.lba >= 0
      /\ UNCHANGED <<shelf, img_size, hunkvars>> /\ DOMAIN buffer' = DOMAIN buffer
  BY DEF FindTrack, Put
<1>2. /\ toc.last \in 0 .. MaxTracks /\ toc \in Tables /\ call.lba \in Nat
      /\ call \in [loop : {"IDLE", "OUTER", "INNER"}, lba : Int, cnt : Nat, slot : Nat, i : Nat]
      /\ Slots \in Nat /\ call.cnt > 0 /\ call.slot > 0 /\ call.slot + call.cnt <= Slots + 1
  BY <1>1 DEF HostInv, MountOK, CallOK, Tables
<1>3. /\ toc' \in Tables /\ toc'.last = toc.last /\ toc'.chd_f = toc.chd_f
      /\ toc.chd_f # "NONE" => toc' = toc
  BY FindMoves DEF Moved
<1>4. MountOK' /\ CacheTrue'
  <2>1. toc'.chd_f # "NONE" => Chained(toc', 1)
    BY <1>3 DEF HostInv, MountOK
  <2>2. QED
    BY <1>1, <1>3, <2>1 DEF HostInv, MountOK, CacheTrue, Alive, hunkvars
<1>5. CASE found = {}
  <2>1. call' = Outer(call.lba + 1, call.cnt - 1, call.slot)
    BY <1>5 DEF FindTrack
  <2>2. /\ call.lba + 1 \in Int /\ call.cnt - 1 \in Nat /\ call.slot \in Nat \ {0}
        /\ call.slot + (call.cnt - 1) <= Slots + 1
    BY <1>2
  <2>3. CallOK'
    BY <1>2, <2>1, <2>2, OuterHost
  <2>4. QED
    BY <1>1, <1>4, <2>3 DEF HostInv
<1>6. CASE found # {}
  <2>1. call' = [call EXCEPT !.loop = "INNER", !.i = i]
    BY <1>6 DEF FindTrack
  <2>2. i \in found /\ \A j \in found : i <= j
    <3>1. found \subseteq Nat
      BY <1>2
    <3> HIDE DEF found
    <3>2. QED
      BY <1>6, <3>1, MinIs
  <2>3. i \in 0 .. toc.last - 1 /\ i \in Nat
    BY <1>2, <2>2
  <2>4. \A j \in 0 .. toc.last - 1 : Holds(toc.tracks[j], call.lba) => i <= j
    BY <2>2
  <2> HIDE DEF found, i
  <2>5. toc.chd_f # "NONE" => call.lba + toc.tracks[i].offset >= 0
    BY <1>2, <2>3, <2>4, FirstHolds DEF HostInv, MountOK
  <2>6. CallOK'
    BY <1>2, <1>3, <2>1, <2>3, <2>5 DEF CallOK
  <2>7. QED
    BY <1>1, <1>4, <2>6 DEF HostInv
<1>7. QED
  BY <1>5, <1>6

(* On in the track or out of it.                                           *)
LEMMA NextHost ==
  ASSUME HostInv, call.loop = "INNER", call' = NextSector,
         toc'.last = toc.last, toc'.chd_f = toc.chd_f, toc.chd_f # "NONE" => toc' = toc
  PROVE  CallOK'
<1>1. /\ call \in [loop : {"IDLE", "OUTER", "INNER"}, lba : Int, cnt : Nat, slot : Nat, i : Nat]
      /\ Slots \in Nat /\ call.cnt > 0 /\ call.slot > 0 /\ call.slot + call.cnt <= Slots + 1
      /\ call.i \in 0 .. toc.last - 1
      /\ toc.chd_f # "NONE" => call.lba + toc.tracks[call.i].offset >= 0
      /\ toc \in Tables
  BY DEF HostInv, CallOK, MountOK
<1>2. CASE call.lba + 1 > toc.tracks[call.i].end
  <2>1. /\ call.lba + 1 \in Int /\ call.cnt - 1 \in Nat /\ call.slot \in Nat \ {0}
        /\ call.slot + (call.cnt - 1) <= Slots + 1
    BY <1>1
  <2>2. call' = Outer(call.lba + 1, call.cnt - 1, call.slot)
    BY <1>2 DEF NextSector
  <2>3. QED
    BY <1>1, <2>1, <2>2, OuterHost
<1>3. CASE ~(call.lba + 1 > toc.tracks[call.i].end) /\ call.cnt = 1
  BY <1>3 DEF NextSector, Idle, CallOK
<1>4. CASE ~(call.lba + 1 > toc.tracks[call.i].end) /\ call.cnt # 1
  <2>1. call' = [call EXCEPT !.lba = @ + 1, !.cnt = @ - 1, !.slot = @ + 1]
    BY <1>4 DEF NextSector
  <2>2. /\ call' \in [loop : {"IDLE", "OUTER", "INNER"}, lba : Int, cnt : Nat, slot : Nat,
                      i : Nat]
        /\ call'.loop = "INNER" /\ call'.cnt > 0 /\ call'.slot > 0 /\ call'.i = call.i
        /\ call'.slot + call'.cnt <= Slots + 1 /\ call'.lba = call.lba + 1
    <3>1. /\ call.lba + 1 \in Int /\ call.cnt - 1 \in Nat /\ call.slot + 1 \in Nat
          /\ call.cnt - 1 > 0 /\ call.slot + 1 > 0
          /\ (call.slot + 1) + (call.cnt - 1) <= Slots + 1
      BY <1>1, <1>4
    <3>2. /\ call'.loop = call.loop /\ call'.i = call.i /\ call'.lba = call.lba + 1
          /\ call'.cnt = call.cnt - 1 /\ call'.slot = call.slot + 1
      BY <1>1, <2>1
    <3>3. call' \in [loop : {"IDLE", "OUTER", "INNER"}, lba : Int, cnt : Nat, slot : Nat,
                     i : Nat]
      BY <1>1, <2>1, <3>1
    <3>4. QED
      BY <3>1, <3>2, <3>3
  <2>3. toc'.chd_f # "NONE" => call'.lba + toc'.tracks[call'.i].offset >= 0
    <3>1. SUFFICES ASSUME toc.chd_f # "NONE"
                   PROVE  (call.lba + 1) + toc.tracks[call.i].offset >= 0
      BY <2>2
    <3>2. call.i \in 0 .. MaxTracks
      BY <1>1, CdImageAssumption DEF Tables
    <3>3. toc.tracks[call.i] \in TrackSet
      BY <1>1, <3>2 DEF Tables
    <3>4. toc.tracks[call.i].offset \in Int
      BY <3>3 DEF TrackSet
    <3>5. QED
      BY <1>1, <3>1, <3>4
  <2>4. QED
    BY <1>1, <2>2, <2>3 DEF CallOK
<1>5. QED
  BY <1>2, <1>3, <1>4

LEMMA FileMoves ==
  ASSUME HostInv, ReadFile
  PROVE  Moved(toc, toc') /\ toc.last > 0
<1> DEFINE k == IF toc.tracks[call.i].offset # 0 THEN 0 ELSE call.i
           f == toc.tracks[k].f
           pos == f.pos + 1
           moved == [toc EXCEPT !.tracks[k].f.pos = pos]
<1>1. toc \in Tables /\ toc.last \in 0 .. MaxTracks /\ call.i \in 0 .. toc.last - 1
  BY DEF HostInv, MountOK, CallOK, ReadFile, Tables
<1>2. k \in 0 .. MaxTracks
  BY <1>1, CdImageAssumption
<1>3. toc' = moved \/ toc' = toc
  BY DEF ReadFile
<1> HIDE DEF k
<1>4. toc.tracks[k] \in TrackSet
  BY <1>1, <1>2 DEF Tables
<1>5. pos \in Int
  BY <1>4 DEF TrackSet, FileSet
<1> HIDE DEF pos, f
<1>6. Moved(toc, moved)
  <2>1. toc \in Tables
    BY <1>1
  <2>2. QED
    BY <1>2, <1>5, <2>1, Positioned
<1> HIDE DEF moved
<1>7. Moved(toc, toc)
  BY <1>1 DEF Moved
<1>8. toc.last > 0
  BY <1>1
<1>9. QED
  BY <1>3, <1>6, <1>7, <1>8

LEMMA FileHost == ASSUME HostInv, ReadFile PROVE HostInv'
<1>1. /\ call.loop = "INNER" /\ toc.chd_f = "NONE" /\ call' = NextSector
      /\ UNCHANGED <<shelf, img_size, hunkvars>> /\ DOMAIN buffer' = DOMAIN buffer
  BY DEF ReadFile, Put
<1>2. toc' \in Tables /\ toc'.last = toc.last /\ toc'.chd_f = toc.chd_f
  BY FileMoves DEF Moved
<1>3. MountOK' /\ CacheTrue'
  BY <1>1, <1>2 DEF HostInv, MountOK, CacheTrue, hunkvars
<1>4. CallOK'
  BY <1>1, <1>2, NextHost
<1>5. QED
  BY <1>1, <1>3, <1>4 DEF HostInv

LEMMA HunkType ==
  ASSUME HostInv, call.loop = "INNER", toc.chd_f # "NONE"
  PROVE  Hunk \in Nat
<1>1. ChdFrame >= 0 /\ toc \in Tables /\ call.lba \in Int /\ call.i \in 0 .. toc.last - 1
  BY DEF HostInv, CallOK, MountOK, ChdFrame
<1>2. call.i \in 0 .. MaxTracks
  BY <1>1, CdImageAssumption DEF Tables
<1>3. toc.tracks[call.i] \in TrackSet /\ toc.sph \in Nat \ {0}
  BY <1>1, <1>2 DEF Tables
<1>4. toc.tracks[call.i].offset \in Int
  BY <1>3 DEF TrackSet
<1>5. ChdFrame \in Nat
  BY <1>1, <1>4 DEF ChdFrame
<1>6. QED
  BY <1>3, <1>5 DEF Hunk

LEMMA ChdHost == ASSUME HostInv, ReadChd PROVE HostInv'
<1>1. /\ call.loop = "INNER" /\ toc.chd_f # "NONE" /\ call' = NextSector
      /\ UNCHANGED <<shelf, mountvars>>
  BY DEF ReadChd
<1>2. CallOK'
  BY <1>1, NextHost DEF mountvars
<1>3. Hunk \in Nat
  BY <1>1, HunkType
<1>4. toc' = toc /\ img_size' = img_size /\ shelf' = shelf
  BY <1>1 DEF mountvars
<1>5. CASE ChdReadFails
  <2>1. chd_failed' = TRUE /\ UNCHANGED <<hunkmem, hunknum, buffer>>
    BY <1>5 DEF ChdReadFails
  <2>2. MountOK' /\ CacheTrue'
    BY <1>4, <2>1 DEF HostInv, MountOK, CacheTrue, Chained, Alive
  <2>3. QED
    BY <1>2, <2>1, <2>2 DEF HostInv
<1>6. CASE ChdReadDone
  <2> DEFINE data == IF Hunk = hunknum THEN hunkdata ELSE [name |-> toc.chd_f, hunk |-> Hunk]
  <2>1. /\ hunkdata' = data /\ hunknum' = Hunk /\ UNCHANGED <<hunkmem, chd_failed>>
        /\ DOMAIN buffer' = DOMAIN buffer
    BY <1>6 DEF ChdReadDone, Put
  <2>2. MountOK'
    BY <1>3, <1>4, <2>1 DEF HostInv, MountOK, Chained
  <2>3. CacheTrue'
    <3>1. SUFFICES ASSUME Alive, ~chd_failed
                   PROVE  hunkdata' = [name |-> toc.chd_f, hunk |-> hunknum']
      BY <1>1, <1>4, <2>1 DEF HostInv, CacheTrue, Alive
    <3>2. CASE Hunk = hunknum
      BY <1>1, <1>3, <2>1, <3>1, <3>2 DEF HostInv, CacheTrue
    <3>3. CASE Hunk # hunknum
      BY <2>1, <3>3
    <3>4. QED
      BY <3>2, <3>3
  <2>4. QED
    BY <1>2, <2>1, <2>2, <2>3 DEF HostInv
<1>7. QED
  BY <1>5, <1>6 DEF ReadChd

LEMMA StepHost == HostInv /\ [Next]_vars => HostInv'
<1> SUFFICES ASSUME HostInv, [Next]_vars PROVE HostInv'
  OBVIOUS
<1>1. CASE pcfx_mount_cd
  BY <1>1, MountHost
<1>2. CASE \E r \in Requests : pcfx_read_cd(r[1], r[2])
  BY <1>2, CallHost
<1>3. CASE ReadToc
  BY <1>3, TocHost
<1>4. CASE FindTrack
  BY <1>4, FindHost
<1>5. CASE ReadFile
  BY <1>5, FileHost
<1>6. CASE ReadChd
  BY <1>6, ChdHost
<1>7. CASE UNCHANGED vars
  BY <1>7 DEF HostInv, MountOK, CallOK, CacheTrue, Chained, Alive, vars, mountvars, hunkvars
<1>8. QED
  BY <1>1, <1>2, <1>3, <1>4, <1>5, <1>6, <1>7 DEF Next

LEMMA HostInvariant == Spec => []HostInv
BY InitHost, StepHost, PTL DEF Spec

(* Whatever images are mounted and whatever is read of them, every         *)
(* variable has its type: a call never leaves the caller's buffer or the   *)
(* track it is in (pcfx_read_cd).                                          *)
THEOREM TypeCorrect == Spec => []TypeOK
<1>1. HostInv => TypeOK
  <2> SUFFICES ASSUME HostInv PROVE TypeOK
    OBVIOUS
  <2>1. /\ shelf \in Shelves /\ toc.last \in 0 .. MaxTracks /\ DOMAIN toc.tracks = 0 .. MaxTracks
        /\ img_size \in Nat /\ hunkmem \in {"NULL", "LIVE", "FREED", "ABORT"}
        /\ hunknum \in Nat \cup {-1} /\ chd_failed \in BOOLEAN
    BY DEF HostInv, MountOK, Memory, Tables
  <2>2. call.loop \in {"IDLE", "OUTER", "INNER"}
    BY DEF HostInv, CallOK
  <2>3. call.loop # "IDLE" => call.cnt > 0 /\ call.slot \in DOMAIN buffer
    BY DEF HostInv, CallOK
  <2>4. call.loop = "INNER" => call.i < toc.last
    BY <2>1 DEF HostInv, CallOK
  <2>5. QED
    BY <2>1, <2>2, <2>3, <2>4 DEF TypeOK
<1>2. QED
  BY <1>1, HostInvariant, PTL

(* The cached hunk is the one it is said to be, of the file mounted, for   *)
(* every order of mounts, unmounts and reads, and every file               *)
(* (mister_chd_read_sector, load_chd).                                     *)
THEOREM CacheIsTrue == Spec => []CacheTrue
<1>1. HostInv => CacheTrue
  BY DEF HostInv
<1>2. QED
  BY <1>1, HostInvariant, PTL

-----------------------------------------------------------------------------
(* The files that are open.  Beside the table there is none, and a mount   *)
(* loses one only of an image of the other kind; a process that frees its  *)
(* buffer twice can therefore not end with one lost while a disc is in.    *)

Closed(table, n) == \A j \in n .. MaxTracks : ~opened(table.tracks[j].f)

FilesOK ==
  /\ disc = NoDisc \/ disc.kind \in {"cue", "chd"}
  /\ disc = NoDisc => toc = EmptyToc
  /\ disc.kind = "cue" => toc.chd_f = "NONE" /\ Closed(toc, toc.last)
  /\ disc.kind = "chd" => toc.chd_f # "NONE" /\ Closed(toc, 0)
  /\ call.loop # "IDLE" => leaked = {}
  /\ Alive /\ disc.kind = "cue" /\ leaked # {} => hunkmem = "LIVE"

LEMMA NothingOpen ==
  ASSUME NEW table, NEW n, Closed(table, n)
  PROVE  OpenFrom(table, n) = {}
BY DEF Closed, OpenFrom

LEMMA NoDiscKind == NoDisc.kind = "none"
BY DEF NoDisc

LEMMA InitFiles == Init => FilesOK
BY NoDiscKind DEF Init, FilesOK, Idle

(* The mounts, and what each promises of a disc of the same kind.          *)
SameKind == disc # NoDisc /\ disc.kind = disc'.kind => leaked' = {}

LEMMA UnmountedFiles ==
  ASSUME FilesOK, Unmounted, call.loop = "IDLE", UNCHANGED call
  PROVE  FilesOK' /\ SameKind
<1>1. disc' = NoDisc /\ toc' = EmptyToc
  BY DEF Unmounted
<1>2. disc'.kind = "none"
  BY <1>1, NoDiscKind
<1>3. disc # NoDisc => disc.kind # disc'.kind
  BY <1>2 DEF FilesOK
<1>4. QED
  BY <1>1, <1>2, <1>3 DEF FilesOK, SameKind

LEMMA MountCueFiles ==
  ASSUME \A images \in Shelves : \A image \in images : image.kind = "cue" => Complete(image.cue),
         HostInv, FilesOK, call.loop = "IDLE", UNCHANGED call, Alive,
         NEW image \in shelf, MountCue(image)
  PROVE  FilesOK' /\ SameKind
<1> DEFINE s == load_cue(image)
           table == s.toc
<1>1. image.kind = "cue" /\ shelf \in Shelves
  BY DEF MountCue, HostInv, MountOK
<1>2. image.cue \in Seq(CueCommands) /\ Complete(image.cue)
  BY <1>1, ImageAssumption
<1>3. table.chd_f = "NONE"
  BY <1>2, CueLoaded DEF CueOK
<1>4. CASE s.state # "FAILED" /\ table.last > 0
  <2>1. /\ toc' = table /\ disc' = image /\ UNCHANGED hunkmem /\ leaked' = LostByCue(toc)
    BY <1>4 DEF MountCue, Mounted
  <2>2. Closed(table, table.last)
    BY <1>2, <1>4, CueCloses DEF Closed
  <2> HIDE DEF table, s
  <2>3. leaked' = {} \/ disc.kind = "chd"
    <3>1. CASE disc = NoDisc
      <4>1. EmptyToc.chd_f = "NONE" /\ Closed(EmptyToc, EmptyToc.last)
        BY DEF EmptyToc, Closed, NoTrack, NoFile, opened
      <4>2. toc = EmptyToc
        BY <3>1 DEF FilesOK
      <4>3. QED
        BY <2>1, <4>1, <4>2, NothingOpen DEF LostByCue, Chd
    <3>2. CASE disc.kind = "cue"
      BY <2>1, <3>2, NothingOpen DEF FilesOK, LostByCue, Chd
    <3>3. QED
      BY <3>1, <3>2 DEF FilesOK
  <2>4. disc.kind = "chd" => hunkmem' = "LIVE"
    BY <2>1 DEF FilesOK, HostInv, CacheTrue
  <2>5. disc'.kind = "cue" /\ disc' # NoDisc
    BY <1>1, <2>1, NoDiscKind
  <2>6. FilesOK'
    BY <1>3, <2>1, <2>2, <2>3, <2>4, <2>5 DEF FilesOK
  <2>7. SameKind
    BY <2>3, <2>5 DEF SameKind
  <2>8. QED
    BY <2>6, <2>7
<1>5. CASE ~(s.state # "FAILED" /\ table.last > 0)
  <2>1. Unmounted
    BY <1>5 DEF MountCue
  <2>2. QED
    BY <2>1, UnmountedFiles
<1>6. QED
  BY <1>4, <1>5

LEMMA MountChdFiles ==
  ASSUME HostInv, FilesOK, call.loop = "IDLE", UNCHANGED call, Alive,
         NEW image \in shelf, MountChd(image)
  PROVE  FilesOK' /\ SameKind
<1> DEFINE table == load_chd(image)
<1>1. image.kind = "chd" /\ shelf \in Shelves
  BY DEF MountChd, HostInv, MountOK
<1>2. /\ image.chd \in Seq(ChdRecords) /\ image.name \in Names /\ image.sph \in Nat \ {0}
  BY <1>1, ImageAssumption
<1>3. table.chd_f # "NONE" /\ Closed(table, 0)
  BY <1>2, ChdLoaded DEF ChdTable, Names, Closed
<1>4. PICK freed \in Free(hunkmem) :
        IF freed = "ABORT"
        THEN /\ hunkmem' = freed
             /\ UNCHANGED <<mountvars, hunkdata, hunknum>>
        ELSE IF image.found /\ table.last > 0
        THEN /\ Mounted(image, table)
             /\ leaked' = LostByChd(toc)
             /\ NewHunkBuffer
        ELSE /\ Unmounted
             /\ leaked' = LostByChd(toc) \cup (IF image.found THEN {image.name} ELSE {})
             /\ hunkmem' \in Free(IF image.found THEN "LIVE" ELSE freed)
  BY DEF MountChd
<1> HIDE DEF table
<1>5. CASE freed = "ABORT"
  <2>1. hunkmem' = "ABORT" /\ toc' = toc /\ disc' = disc /\ leaked' = leaked
    BY <1>4, <1>5 DEF mountvars
  <2>2. hunkmem # "LIVE"
    BY <1>4, <1>5 DEF Free
  <2>3. disc.kind # "chd"
    BY <2>2 DEF FilesOK, HostInv, CacheTrue
  <2>4. disc # NoDisc => leaked = {}
    BY <2>2, <2>3 DEF FilesOK
  <2>5. FilesOK'
    BY <2>1 DEF FilesOK, Alive, Closed
  <2>6. QED
    BY <2>1, <2>4, <2>5 DEF SameKind
<1>6. CASE freed # "ABORT" /\ image.found /\ table.last > 0
  <2>1. toc' = table /\ disc' = image /\ leaked' = LostByChd(toc)
    BY <1>4, <1>6 DEF Mounted
  <2>2. disc'.kind = "chd" /\ disc' # NoDisc
    BY <1>1, <2>1, NoDiscKind
  <2>3. FilesOK'
    BY <1>3, <2>1, <2>2 DEF FilesOK
  <2>4. disc.kind = "chd" => leaked' = {}
    BY <2>1, NothingOpen DEF FilesOK, LostByChd
  <2>5. QED
    BY <2>2, <2>3, <2>4 DEF SameKind
<1>7. CASE freed # "ABORT" /\ ~(image.found /\ table.last > 0)
  <2>1. Unmounted
    BY <1>4, <1>7
  <2>2. QED
    BY <2>1, UnmountedFiles
<1>8. QED
  BY <1>5, <1>6, <1>7

(* A read opens nothing and closes nothing.                                *)
LEMMA ReadFiles ==
  ASSUME HostInv, FilesOK, call.loop # "IDLE", Moved(toc, toc'), disc # NoDisc \/ toc' = toc,
         UNCHANGED <<disc, leaked>>
  PROVE  FilesOK' /\ SameKind
<1>1. leaked' = {} /\ disc' = disc /\ toc'.last = toc.last /\ toc'.chd_f = toc.chd_f
  BY DEF FilesOK, Moved
<1>2. Closed(toc, toc.last) => Closed(toc', toc'.last)
  <2>1. toc.last \in 0 .. MaxTracks
    BY DEF HostInv, MountOK, Tables
  <2>2. \A j \in toc.last .. MaxTracks : j \in 0 .. MaxTracks
    BY <2>1, CdImageAssumption
  <2>3. QED
    BY <1>1, <2>2 DEF Closed, Moved
<1>3. Closed(toc, 0) => Closed(toc', 0)
  BY DEF Closed, Moved
<1>4. FilesOK'
  BY <1>1, <1>2, <1>3 DEF FilesOK
<1>5. QED
  BY <1>1, <1>4 DEF SameKind

LEMMA StepFiles ==
  ASSUME \A images \in Shelves : \A image \in images : image.kind = "cue" => Complete(image.cue),
         HostInv, FilesOK, Next
  PROVE  FilesOK' /\ SameKind
<1>1. CASE pcfx_mount_cd
  <2>1. Alive /\ call.loop = "IDLE" /\ UNCHANGED call
    BY <1>1 DEF pcfx_mount_cd
  <2>2. CASE \E image \in shelf : MountCue(image) \/ MountChd(image)
    BY <2>1, <2>2, MountCueFiles, MountChdFiles
  <2>3. CASE MountNothing
    BY <2>1, <2>3, UnmountedFiles DEF MountNothing
  <2>4. QED
    BY <1>1, <2>2, <2>3 DEF pcfx_mount_cd
<1>2. CASE \E r \in Requests : pcfx_read_cd(r[1], r[2])
  <2>1. leaked' = {} /\ UNCHANGED <<toc, disc, hunkmem>>
    BY <1>2 DEF pcfx_read_cd, hunkvars
  <2>2. QED
    BY <2>1 DEF FilesOK, SameKind, Closed, Alive
<1>3. CASE ReadToc \/ ReadChd
  <2>1. UNCHANGED <<toc, disc, leaked>> /\ call.loop # "IDLE"
    BY <1>3 DEF ReadToc, ReadChd, mountvars
  <2>2. Moved(toc, toc')
    BY <2>1 DEF Moved, HostInv, MountOK
  <2>3. QED
    BY <2>1, <2>2, ReadFiles
<1>4. CASE FindTrack \/ ReadFile
  <2>1. UNCHANGED <<disc, leaked>> /\ call.loop # "IDLE"
    BY <1>4 DEF FindTrack, ReadFile
  <2>2. Moved(toc, toc') /\ toc.last > 0
    BY <1>4, FindMoves, FileMoves
  <2>3. disc # NoDisc
    BY <2>2 DEF FilesOK, EmptyToc
  <2>4. QED
    BY <2>1, <2>2, <2>3, ReadFiles
<1>5. QED
  BY <1>1, <1>2, <1>3, <1>4 DEF Next

LEMMA StutterFiles == FilesOK /\ UNCHANGED vars => FilesOK'
BY DEF FilesOK, Closed, Alive, vars, mountvars, hunkvars

(* When INDEX 01 follows every FILE of every sheet, a change from a CUE    *)
(* sheet to another, or from a CHD file to another, leaves no file open,   *)
(* whatever was mounted before and whether it could be read (unload_cue,   *)
(* unload_chd).  Without it the last file of a sheet is lost.              *)
THEOREM Closes ==
  ASSUME \A images \in Shelves : \A image \in images : image.kind = "cue" => Complete(image.cue)
  PROVE  Spec => SameKindCloses
<1>1. HostInv /\ FilesOK /\ [Next]_vars => FilesOK'
  BY StepFiles, StutterFiles
<1>2. HostInv /\ FilesOK /\ [Next]_vars
        => [disc # NoDisc /\ disc.kind = disc'.kind => leaked' = {}]_vars
  BY StepFiles DEF SameKind
<1>3. QED
  BY <1>1, <1>2, InitFiles, HostInvariant, PTL DEF Spec, SameKindCloses

(* Sums: SumFunction takes the elements of a set in an order of its own.   *)
(* All orders give the same, hence a sum over 1 .. n grows by its last.    *)
Adds(g, n, G) ==
  /\ G \in [SUBSET (1 .. n) -> Int] /\ G[{}] = 0
  /\ \A s \in SUBSET (1 .. n) : \A x \in s : G[s] = g[x] + G[s \ {x}]

LEMMA AddsExists ==
  ASSUME NEW n \in Nat, NEW g, \A u \in 1 .. n : g[u] \in Int
  PROVE  \E G : Adds(g, n, G)
<1> DEFINE S == {m \in Nat : m <= n => \E G : Adds(g, m, G)}
<1>1. 0 \in S
  <2> DEFINE G == [s \in SUBSET (1 .. 0) |-> 0]
  <2>1. \A s \in SUBSET (1 .. 0) : s = {}
    OBVIOUS
  <2>2. Adds(g, 0, G)
    BY <2>1 DEF Adds
  <2>3. QED
    BY <2>2
<1>2. ASSUME NEW m \in Nat, m \in S PROVE m + 1 \in S
  <2>1. SUFFICES ASSUME m + 1 <= n PROVE \E G : Adds(g, m + 1, G)
    OBVIOUS
  <2>2. PICK G : Adds(g, m, G)
    BY <1>2, <2>1
  <2> DEFINE Value(s) == IF m + 1 \in s THEN g[m + 1] + G[s \ {m + 1}] ELSE G[s]
             H == [s \in SUBSET (1 .. m + 1) |-> Value(s)]
  <2>3. \A s \in SUBSET (1 .. m + 1) : s \ {m + 1} \in SUBSET (1 .. m)
    OBVIOUS
  <2>4. \A s \in SUBSET (1 .. m + 1) : m + 1 \notin s => s \in SUBSET (1 .. m)
    OBVIOUS
  <2>5. G \in [SUBSET (1 .. m) -> Int] /\ g[m + 1] \in Int
    BY <2>1, <2>2 DEF Adds
  <2>6. \A s \in SUBSET (1 .. m + 1) : Value(s) \in Int
    BY <2>3, <2>4, <2>5
  <2>7. H[{}] = 0
    BY <2>2 DEF Adds
  <2>8. ASSUME NEW s \in SUBSET (1 .. m + 1), NEW x \in s
        PROVE  Value(s) = g[x] + Value(s \ {x})
    <3>1. CASE x = m + 1
      BY <3>1
    <3>2. CASE x # m + 1 /\ m + 1 \in s
      <4>1. x \in s \ {m + 1} /\ s \ {m + 1} \in SUBSET (1 .. m)
        BY <2>3, <3>2
      <4>2. G[s \ {m + 1}] = g[x] + G[(s \ {m + 1}) \ {x}]
        BY <2>2, <4>1 DEF Adds
      <4>3. (s \ {m + 1}) \ {x} = (s \ {x}) \ {m + 1} /\ (s \ {x}) \ {m + 1} \in SUBSET (1 .. m)
        BY <4>1
      <4>4. Value(s \ {x}) = g[m + 1] + G[(s \ {x}) \ {m + 1}]
        BY <3>2
      <4>5. g[x] \in Int /\ G[(s \ {x}) \ {m + 1}] \in Int
        BY <2>1, <2>5, <4>1, <4>3
      <4>6. Value(s) = g[m + 1] + (g[x] + G[(s \ {x}) \ {m + 1}])
        BY <3>2, <4>2, <4>3
      <4>7. QED
        <5> HIDE DEF Value
        <5> QED BY <2>5, <4>4, <4>5, <4>6
    <3>3. CASE m + 1 \notin s
      BY <2>2, <2>4, <3>3 DEF Adds
    <3>4. QED
      BY <3>1, <3>2, <3>3
  <2>9. \A s \in SUBSET (1 .. m + 1) : \A x \in s : H[s] = g[x] + H[s \ {x}]
    BY <2>8
  <2>10. H \in [SUBSET (1 .. m + 1) -> Int]
    BY <2>6
  <2>11. Adds(g, m + 1, H)
    <3> HIDE DEF H
    <3> QED BY <2>7, <2>9, <2>10 DEF Adds
  <2>12. QED
    <3> HIDE DEF H
    <3> QED BY <2>11
<1>3. n \in S
  <2> HIDE DEF S
  <2> QED BY <1>1, <1>2, Induction
<1>4. QED
  BY <1>3

(* The function that SumFunction sums with, and what it solves.            *)
SumIter(g) ==
  LET iter[s \in SUBSET DOMAIN g] ==
        IF s = {} THEN 0
        ELSE LET x == CHOOSE x \in s : TRUE IN g[x] + iter[s \ {x}]
  IN iter

LEMMA SumUnfold == ASSUME NEW g PROVE SumFunction(g) = SumIter(g)[DOMAIN g]
BY DEF SumFunction, SumFunctionOnSet, FoldFunctionOnSet, MapThenFoldSet, SumIter

Solves(g, S, f) ==
  f = [s \in SUBSET S |->
         IF s = {} THEN 0 ELSE LET x == CHOOSE x \in s : TRUE IN g[x] + f[s \ {x}]]

LEMMA AddsUnique ==
  ASSUME NEW n \in Nat, NEW g, \A u \in 1 .. n : g[u] \in Int, NEW G, Adds(g, n, G),
         NEW f, Solves(g, 1 .. n, f)
  PROVE  f = G
<1>0. IsFiniteSet(1 .. n)
  BY FS_Interval, n \in Int
<1> DEFINE S == {k \in Nat : \A s \in SUBSET (1 .. n) : Cardinality(s) = k => f[s] = G[s]}
<1>1. 0 \in S
  <2>1. ASSUME NEW s \in SUBSET (1 .. n), Cardinality(s) = 0 PROVE f[s] = G[s]
    <3>1. IsFiniteSet(s)
      BY <1>0, FS_Subset
    <3>2. s = {}
      BY <2>1, <3>1, FS_EmptySet
    <3>3. f[{}] = 0 /\ G[{}] = 0
      BY DEF Adds, Solves
    <3>4. QED
      BY <3>2, <3>3
  <2>2. QED
    BY <2>1
<1>2. ASSUME NEW k \in Nat, k \in S PROVE k + 1 \in S
  <2>1. ASSUME NEW s \in SUBSET (1 .. n), Cardinality(s) = k + 1 PROVE f[s] = G[s]
    <3>1. IsFiniteSet(s)
      BY <1>0, FS_Subset
    <3>2. s # {}
      BY <2>1, <3>1, FS_EmptySet
    <3> DEFINE x == CHOOSE x \in s : TRUE
    <3>3. x \in s
      BY <3>2
    <3>4. Cardinality(s \ {x}) = k
      <4> HIDE DEF x
      <4>1. Cardinality(s \ {x}) = Cardinality(s) - 1
        BY <3>1, <3>3, FS_RemoveElement
      <4>2. QED
        BY <2>1, <4>1
    <3>5. f[s \ {x}] = G[s \ {x}]
      BY <1>2, <3>4
    <3>6. f[s] = g[x] + f[s \ {x}]
      BY <3>2 DEF Solves
    <3>7. G[s] = g[x] + G[s \ {x}]
      BY <3>3 DEF Adds
    <3>8. QED
      BY <3>5, <3>6, <3>7
  <2>2. k + 1 \in Nat
    OBVIOUS
  <2>3. QED
    BY <2>1, <2>2
<1>3. Nat \subseteq S
  <2> HIDE DEF S
  <2> QED BY <1>1, <1>2, Induction
<1>4. ASSUME NEW s \in SUBSET (1 .. n) PROVE f[s] = G[s]
  <2>1. IsFiniteSet(s)
    BY <1>0, FS_Subset
  <2>2. Cardinality(s) \in Nat
    BY <2>1, FS_CardinalityType
  <2>3. QED
    BY <1>3, <2>2
<1>6. f = [s \in SUBSET (1 .. n) |-> f[s]] /\ G = [s \in SUBSET (1 .. n) |-> G[s]]
  BY DEF Adds, Solves
<1>7. QED
  BY <1>4, <1>6

LEMMA SumIs ==
  ASSUME NEW n \in Nat, NEW g, DOMAIN g = 1 .. n, \A u \in 1 .. n : g[u] \in Int, NEW G, Adds(g, n, G)
  PROVE  SumFunction(g) = G[1 .. n]
<1>1. Solves(g, DOMAIN g, G)
  <2>1. ASSUME NEW s \in SUBSET (1 .. n)
        PROVE  G[s] = IF s = {} THEN 0
                      ELSE LET x == CHOOSE x \in s : TRUE IN g[x] + G[s \ {x}]
    <3>1. CASE s = {}
      BY <3>1 DEF Adds
    <3>2. CASE s # {}
      <4> DEFINE x == CHOOSE x \in s : TRUE
      <4>1. x \in s
        BY <3>2
      <4>2. G[s] = g[x] + G[s \ {x}]
        BY <4>1 DEF Adds
      <4>3. QED
        BY <3>2, <4>2
    <3>3. QED
      BY <3>1, <3>2
  <2>2. G = [s \in SUBSET (1 .. n) |-> G[s]]
    BY DEF Adds
  <2>3. QED
    BY <2>1, <2>2 DEF Solves
<1>2. Solves(g, DOMAIN g, SumIter(g))
  <2>1. SumIter(g) = CHOOSE f : Solves(g, DOMAIN g, f)
    BY DEF SumIter, Solves
  <2>2. QED
    BY <1>1, <2>1
<1>3. SumIter(g) = G
  BY <1>2, AddsUnique
<1>4. QED
  BY <1>3, SumUnfold

LEMMA SumEmpty ==
  ASSUME NEW g, DOMAIN g = 1 .. 0 PROVE SumFunction(g) = 0
<1>1. \A u \in 1 .. 0 : g[u] \in Int
  OBVIOUS
<1>2. PICK G : Adds(g, 0, G)
  BY <1>1, AddsExists
<1>3. SumFunction(g) = G[1 .. 0]
  BY <1>1, <1>2, SumIs
<1>4. 1 .. 0 = {}
  OBVIOUS
<1>5. QED
  BY <1>2, <1>3, <1>4 DEF Adds

LEMMA SumStep ==
  ASSUME NEW n \in Nat, NEW g, DOMAIN g = 1 .. n + 1, \A u \in 1 .. n + 1 : g[u] \in Int,
         NEW h, DOMAIN h = 1 .. n, \A u \in 1 .. n : h[u] = g[u]
  PROVE  /\ SumFunction(g) = g[n + 1] + SumFunction(h)
         /\ SumFunction(h) \in Int
<1>1. PICK G : Adds(g, n + 1, G)
  BY AddsExists
<1> DEFINE H == [s \in SUBSET (1 .. n) |-> G[s]]
<1>2. Adds(h, n, H)
  <2>1. SUBSET (1 .. n) \subseteq SUBSET (1 .. n + 1)
    OBVIOUS
  <2>2. H \in [SUBSET (1 .. n) -> Int]
    BY <1>1, <2>1 DEF Adds
  <2>3. H[{}] = 0
    BY <1>1 DEF Adds
  <2>4. ASSUME NEW s \in SUBSET (1 .. n), NEW x \in s PROVE H[s] = h[x] + H[s \ {x}]
    <3>1. G[s] = g[x] + G[s \ {x}]
      BY <1>1, <2>1 DEF Adds
    <3>2. QED
      BY <3>1
  <2> HIDE DEF H
  <2>5. QED
    BY <2>2, <2>3, <2>4 DEF Adds
<1>3. SumFunction(g) = G[1 .. n + 1]
  BY <1>1, SumIs, n + 1 \in Nat
<1>4. SumFunction(h) = H[1 .. n]
  <2> HIDE DEF H
  <2> QED BY <1>2, SumIs
<1>5. G[1 .. n + 1] = g[n + 1] + G[(1 .. n + 1) \ {n + 1}]
  <2>1. 1 .. n + 1 \in SUBSET (1 .. n + 1) /\ n + 1 \in 1 .. n + 1
    OBVIOUS
  <2>2. QED
    BY <1>1, <2>1 DEF Adds
<1>6. (1 .. n + 1) \ {n + 1} = 1 .. n
  OBVIOUS
<1>7. H[1 .. n] = G[1 .. n] /\ G[1 .. n] \in Int
  BY <1>1 DEF Adds
<1>8. QED
  BY <1>3, <1>4, <1>5, <1>6, <1>7

-----------------------------------------------------------------------------
(* Where the tracks of a CHD file lie.                                     *)

LEMMA Padded == \A n \in Nat : ChdPadded(n) = n + ((-n) % 4)
<1> SUFFICES ASSUME NEW n \in Nat PROVE ChdPadded(n) = n + ((-n) % 4)
  OBVIOUS
<1>1. ((n + 3) \div 4) * 4 = n + ((-n) % 4)
  OBVIOUS
<1>2. n + 4 - 1 = n + 3
  OBVIOUS
<1>3. QED
  BY <1>1, <1>2 DEF ChdPadded, CD_TRACK_PADDING

(* A track begins where the one before it ends, after its own gap if that  *)
(* is not stored; its frames come after the padded ones of that track.     *)
LEMMA ChdSums ==
  ASSUME NEW chd \in Seq(ChdRecords), NEW t \in 1 .. Len(chd)
  PROVE  /\ ChdBase(chd, t) \in Nat /\ ChdFirst(chd, t) \in Nat
         /\ t = 1 => ChdBase(chd, t) = 0 /\ ChdFirst(chd, t) = 0
         /\ t < Len(chd) =>
              ChdBase(chd, t + 1) = ChdBase(chd, t) + chd[t].frames + NotStored(chd, t + 1)
         /\ ChdFirst(chd, t + 1) = ChdFirst(chd, t) + ChdPadded(chd[t].frames)
<1> DEFINE N == Len(chd)
           gap(u) == NotStored(chd, u)
           fr(u) == chd[u].frames
           pad(u) == chd[u].frames + ((-chd[u].frames) % 4)
           gaps(n) == [u \in 1 .. n |-> gap(u)]
           frs(n) == [u \in 1 .. n |-> fr(u)]
           pads(n) == [u \in 1 .. n |-> pad(u)]
<1>1. ASSUME NEW u \in 1 .. N PROVE gap(u) \in Nat /\ fr(u) \in Nat /\ pad(u) \in Nat
  <2>1. chd[u] \in ChdRecords
    OBVIOUS
  <2>2. chd[u].frames \in Nat /\ chd[u].pregap \in Nat
    BY <2>1 DEF ChdRecords
  <2>3. QED
    BY <2>2 DEF NotStored
<1>2. /\ \A n : ChdBase(chd, n) = SumFunction(gaps(n)) + SumFunction(frs(n - 1))
      /\ \A n : ChdFirst(chd, n) = SumFunction(pads(n - 1))
  BY DEF ChdBase, ChdFirst
<1>3. N \in Nat /\ t \in Nat
  OBVIOUS
<1>11. gap(1) = 0
  BY DEF NotStored
<1>12. \A u \in 1 .. N : pad(u) = ChdPadded(chd[u].frames)
  BY <1>1, Padded
<1> HIDE DEF N, gap, fr, pad
<1>4. ASSUME NEW n \in Nat, n + 1 <= N
      PROVE  /\ SumFunction(gaps(n + 1)) = gap(n + 1) + SumFunction(gaps(n))
             /\ SumFunction(frs(n + 1)) = fr(n + 1) + SumFunction(frs(n))
             /\ SumFunction(pads(n + 1)) = pad(n + 1) + SumFunction(pads(n))
             /\ SumFunction(gaps(n)) \in Int /\ SumFunction(frs(n)) \in Int
             /\ SumFunction(pads(n)) \in Int
  <2>1. \A u \in 1 .. n + 1 : u \in 1 .. N
    BY <1>3, <1>4
  <2>2. \A u \in 1 .. n : u \in 1 .. n + 1
    OBVIOUS
  <2>3. n + 1 \in 1 .. n + 1
    OBVIOUS
  <2>4. /\ DOMAIN gaps(n + 1) = 1 .. n + 1 /\ DOMAIN gaps(n) = 1 .. n
        /\ \A u \in 1 .. n + 1 : gaps(n + 1)[u] = gap(u) /\ gaps(n + 1)[u] \in Int
        /\ \A u \in 1 .. n : gaps(n)[u] = gaps(n + 1)[u]
        /\ gaps(n + 1)[n + 1] = gap(n + 1)
    BY <1>1, <2>1, <2>2, <2>3
  <2>5. /\ DOMAIN frs(n + 1) = 1 .. n + 1 /\ DOMAIN frs(n) = 1 .. n
        /\ \A u \in 1 .. n + 1 : frs(n + 1)[u] = fr(u) /\ frs(n + 1)[u] \in Int
        /\ \A u \in 1 .. n : frs(n)[u] = frs(n + 1)[u]
        /\ frs(n + 1)[n + 1] = fr(n + 1)
    BY <1>1, <2>1, <2>2, <2>3
  <2>6. /\ DOMAIN pads(n + 1) = 1 .. n + 1 /\ DOMAIN pads(n) = 1 .. n
        /\ \A u \in 1 .. n + 1 : pads(n + 1)[u] = pad(u) /\ pads(n + 1)[u] \in Int
        /\ \A u \in 1 .. n : pads(n)[u] = pads(n + 1)[u]
        /\ pads(n + 1)[n + 1] = pad(n + 1)
    BY <1>1, <2>1, <2>2, <2>3
  <2> HIDE DEF gaps, frs, pads
  <2>7. SumFunction(gaps(n + 1)) = gap(n + 1) + SumFunction(gaps(n)) /\ SumFunction(gaps(n)) \in Int
    BY <2>4, SumStep
  <2>8. SumFunction(frs(n + 1)) = fr(n + 1) + SumFunction(frs(n)) /\ SumFunction(frs(n)) \in Int
    BY <2>5, SumStep
  <2>9. SumFunction(pads(n + 1)) = pad(n + 1) + SumFunction(pads(n)) /\ SumFunction(pads(n)) \in Int
    BY <2>6, SumStep
  <2>10. QED
    BY <2>7, <2>8, <2>9
<1>5. SumFunction(gaps(0)) = 0 /\ SumFunction(frs(0)) = 0 /\ SumFunction(pads(0)) = 0
  BY SumEmpty
<1> HIDE DEF gaps, frs, pads
<1> DEFINE S == {n \in Nat : n <= N => /\ SumFunction(gaps(n)) \in Nat
                                       /\ SumFunction(frs(n)) \in Nat
                                       /\ SumFunction(pads(n)) \in Nat}
<1>6. 0 \in S
  BY <1>5
<1>7. ASSUME NEW n \in Nat, n \in S PROVE n + 1 \in S
  <2>1. SUFFICES ASSUME n + 1 <= N
                 PROVE /\ SumFunction(gaps(n + 1)) \in Nat
                       /\ SumFunction(frs(n + 1)) \in Nat
                       /\ SumFunction(pads(n + 1)) \in Nat
    OBVIOUS
  <2>2. n + 1 \in 1 .. N /\ n <= N
    BY <1>3, <2>1
  <2>3. gap(n + 1) \in Nat /\ fr(n + 1) \in Nat /\ pad(n + 1) \in Nat
    BY <1>1, <2>2
  <2>4. QED
    BY <1>4, <1>7, <2>1, <2>2, <2>3
<1>8. \A n \in Nat : n <= N => /\ SumFunction(gaps(n)) \in Nat
                               /\ SumFunction(frs(n)) \in Nat
                               /\ SumFunction(pads(n)) \in Nat
  <2>1. Nat \subseteq S
    <3> HIDE DEF S
    <3> QED BY <1>6, <1>7, Induction
  <2>2. QED
    BY <2>1
<1>9. t <= N /\ t - 1 \in Nat /\ (t - 1) + 1 = t /\ (t + 1) - 1 = t /\ t - 1 <= N /\ t > 0
  BY <1>3 DEF N
<1>10. ChdBase(chd, t) \in Nat /\ ChdFirst(chd, t) \in Nat
  BY <1>2, <1>3, <1>8, <1>9
<1>13. ASSUME t = 1 PROVE ChdBase(chd, t) = 0 /\ ChdFirst(chd, t) = 0
  <2>1. SumFunction(gaps(1)) = gap(1) + SumFunction(gaps(0))
    BY <1>4, <1>9, <1>13, 0 \in Nat, 0 + 1 = 1
  <2>2. t - 1 = 0
    BY <1>13
  <2>3. SumFunction(gaps(1)) = 0
    BY <1>5, <1>11, <2>1
  <2>4. ChdBase(chd, t) = SumFunction(gaps(1)) + SumFunction(frs(0))
    BY <1>2, <1>13, <2>2
  <2>5. QED
    BY <1>2, <1>5, <2>2, <2>3, <2>4
<1>14. ASSUME t < N PROVE ChdBase(chd, t + 1) = ChdBase(chd, t) + fr(t) + gap(t + 1)
  <2>1. SumFunction(gaps(t + 1)) = gap(t + 1) + SumFunction(gaps(t))
    BY <1>3, <1>4, <1>14
  <2>2. SumFunction(frs(t)) = fr(t) + SumFunction(frs(t - 1))
    BY <1>4, <1>9
  <2>3. t + 1 \in 1 .. N /\ t \in 1 .. N
    BY <1>3, <1>9, <1>14
  <2>4. gap(t + 1) \in Nat /\ fr(t) \in Nat
    BY <1>1, <2>3
  <2>5. /\ ChdBase(chd, t + 1) = SumFunction(gaps(t + 1)) + SumFunction(frs(t))
        /\ ChdBase(chd, t) = SumFunction(gaps(t)) + SumFunction(frs(t - 1))
    BY <1>2, <1>9
  <2>6. SumFunction(gaps(t)) \in Nat /\ SumFunction(frs(t - 1)) \in Nat
    BY <1>3, <1>8, <1>9
  <2>7. QED
    BY <2>1, <2>2, <2>4, <2>5, <2>6
<1>15. ChdFirst(chd, t + 1) = ChdFirst(chd, t) + pad(t)
  <2>1. SumFunction(pads(t)) = pad(t) + SumFunction(pads(t - 1))
    BY <1>4, <1>9
  <2>2. t \in 1 .. N
    BY <1>3, <1>9
  <2>3. QED
    BY <1>1, <1>2, <1>8, <1>9, <2>1, <2>2
<1>16. QED
  BY <1>9, <1>10, <1>12, <1>13, <1>14, <1>15 DEF N, gap, fr

(* A track ends where its successor begins or earlier.                     *)
LEMMA ChdOrder ==
  ASSUME NEW chd \in Seq(ChdRecords), NEW t \in 1 .. Len(chd), NEW u \in 1 .. Len(chd), t < u
  PROVE  ChdBase(chd, t) + chd[t].frames <= ChdBase(chd, u) - NotStored(chd, u)
<1> DEFINE N == Len(chd)
           base(n) == ChdBase(chd, n)
           gap(n) == NotStored(chd, n)
           fr(n) == chd[n].frames
           S == {n \in Nat : t + 1 + n <= N => base(t) + fr(t) <= base(t + 1 + n) - gap(t + 1 + n)}
<1>1. ASSUME NEW n \in 1 .. N PROVE gap(n) \in Nat /\ fr(n) \in Nat /\ base(n) \in Nat
  <2>1. chd[n] \in ChdRecords
    OBVIOUS
  <2>2. chd[n].frames \in Nat /\ chd[n].pregap \in Nat
    BY <2>1 DEF ChdRecords
  <2>3. QED
    BY <2>2, ChdSums DEF NotStored
<1>2. ASSUME NEW n \in 1 .. N, n < N PROVE base(n + 1) = base(n) + fr(n) + gap(n + 1)
  BY <1>2, ChdSums
<1>3. N \in Nat /\ t \in Nat /\ u \in Nat /\ t > 0 /\ t <= N /\ u <= N /\ t \in 1 .. N /\ u \in 1 .. N
  OBVIOUS
<1> HIDE DEF N, base, gap, fr
<1>4. 0 \in S
  <2>1. SUFFICES ASSUME t + 1 <= N PROVE base(t) + fr(t) <= base(t + 1) - gap(t + 1)
    BY <1>3
  <2>2. t + 1 \in 1 .. N /\ t < N
    BY <1>3, <2>1
  <2>3. QED
    BY <1>1, <1>2, <1>3, <2>2
<1>5. ASSUME NEW n \in Nat, n \in S PROVE n + 1 \in S
  <2>1. SUFFICES ASSUME t + 1 + (n + 1) <= N
                 PROVE base(t) + fr(t) <= base(t + 1 + (n + 1)) - gap(t + 1 + (n + 1))
    OBVIOUS
  <2> DEFINE v == t + 1 + n
  <2>2. /\ v \in 1 .. N /\ v < N /\ v + 1 \in 1 .. N /\ t + 1 + (n + 1) = v + 1
        /\ base(t) + fr(t) <= base(v) - gap(v)
    BY <1>3, <1>5, <2>1
  <2>3. base(v + 1) = base(v) + fr(v) + gap(v + 1)
    BY <1>2, <2>2
  <2>4. gap(v) \in Nat /\ fr(v) \in Nat /\ base(v) \in Nat /\ gap(v + 1) \in Nat
    BY <1>1, <2>2
  <2>5. base(t) \in Nat /\ fr(t) \in Nat
    BY <1>1, <1>3
  <2> HIDE DEF v
  <2>6. QED
    BY <2>2, <2>3, <2>4, <2>5
<1>6. u - (t + 1) \in S /\ t + 1 + (u - (t + 1)) = u
  <2>1. u - (t + 1) \in Nat /\ t + 1 + (u - (t + 1)) = u
    BY <1>3
  <2>2. QED
    <3> HIDE DEF S
    <3> QED BY <1>4, <1>5, <2>1, Induction
<1>7. base(t) + fr(t) <= base(u) - gap(u)
  BY <1>3, <1>6
<1>8. QED
  BY <1>7 DEF base, fr, gap

(* The table of the first n tracks.  inc is 0 while ends are exclusive and *)
(* 1 when they are inclusive; the gap before a track, if it is not stored, *)
(* goes to the track before.                                               *)
EndOf(chd, n, t) ==
  IF t < n THEN ChdBase(chd, t + 1) ELSE ChdBase(chd, t) + chd[t].frames

ChdRow(row, chd, n, t, inc) ==
  /\ row.type = chd[t].type
  /\ row.offset = ChdFirst(chd, t) - ChdBase(chd, t)
  /\ row.start = ChdBase(chd, t) + (IF chd[t].pgvalid THEN chd[t].pregap ELSE 0)
  /\ row.start - row.pregap = ChdBase(chd, t) - (IF chd[t].pgvalid THEN 0 ELSE chd[t].pregap)
  /\ row.end + inc = EndOf(chd, n, t)

Layout(table, chd, n, inc) ==
  /\ table.last = n
  /\ \A t \in 1 .. n : ChdRow(table.tracks[t - 1], chd, n, t, inc)

LEMMA ChdTrackLaid ==
  ASSUME NEW image, NEW s, ChdOK(s, image), image.chd \in Seq(ChdRecords),
         NEW n \in Nat, n < Len(image.chd), n < MaxTracks,
         Layout(s.toc, image.chd, n, 0), s.sectors = ChdFirst(image.chd, n + 1)
  PROVE  LET r == ChdTrack(s, image.chd[n + 1])
         IN Layout(r.toc, image.chd, n + 1, 0) /\ r.sectors = ChdFirst(image.chd, n + 1 + 1)
<1> DEFINE chd == image.chd
           m == chd[n + 1]
           old(i) == s.toc.tracks[i]
           stored == IF m.pgvalid THEN m.pregap ELSE 0
           gap == IF m.pgvalid THEN 0 ELSE m.pregap
           prev == IF n = 0 THEN 0 ELSE old(n - 1).end + gap
           start == prev + stored
           end == start + m.frames - stored
           offset == s.sectors + stored - start
           this == [f |-> NoFile, offset |-> offset, pregap |-> m.pregap,
                    start |-> start, end |-> end, type |-> m.type]
           cut(i) == [old(i) EXCEPT !.end = prev]
           tracks == [i \in 0 .. MaxTracks |->
                        IF i = n THEN this ELSE IF i = n - 1 THEN cut(i) ELSE old(i)]
           t == [s.toc EXCEPT !.tracks = tracks, !.end = end + m.postgap, !.last = n + 1]
           base(u) == ChdBase(chd, u)
           N == Len(chd)
<1>1. /\ N \in Nat /\ n + 1 \in 1 .. N /\ chd \in Seq(ChdRecords)
      /\ \A u \in 1 .. N : chd[u] \in ChdRecords
  OBVIOUS
<1>2. /\ m.frames \in Nat /\ m.pregap \in Nat /\ m.postgap \in Nat
      /\ m.type \in TrackTypes /\ m.pgvalid \in BOOLEAN
  BY <1>1 DEF ChdRecords
<1>3. /\ s.toc.tracks \in [0 .. MaxTracks -> TrackSet] /\ s.toc \in Tables /\ s.toc.last = n
      /\ \A i \in 1 .. n : ChdRow(old(i - 1), chd, n, i, 0)
      /\ MaxTracks \in Nat
  BY ChdFacts, CdImageAssumption DEF Layout
<1>4. ChdTrack(s, m) = [sectors |-> s.sectors + ChdPadded(m.frames), toc |-> t]
  BY <1>3 DEF ChdTrack
<1>5. /\ base(n + 1) \in Nat /\ ChdFirst(chd, n + 1) \in Nat
      /\ n = 0 => base(n + 1) = 0
      /\ ChdFirst(chd, n + 1 + 1) = ChdFirst(chd, n + 1) + ChdPadded(m.frames)
  BY <1>1, ChdSums
<1>6. gap \in Nat /\ stored \in Nat /\ (n # 0 => gap = NotStored(chd, n + 1))
  BY <1>2 DEF NotStored
<1> HIDE DEF chd, m, old, stored, gap, N
<1>7. prev = base(n + 1)
  <2>1. CASE n = 0
    BY <1>5, <2>1
  <2>2. CASE n # 0
    <3>1. n \in 1 .. n /\ n \in 1 .. N /\ n < N
      BY <1>1, <2>2
    <3>2. /\ base(n + 1) = base(n) + chd[n].frames + NotStored(chd, n + 1)
          /\ base(n) \in Nat
      BY <1>1, <3>1, ChdSums DEF N
    <3>3. old(n - 1).end + 0 = base(n) + chd[n].frames
      BY <1>3, <3>1 DEF ChdRow, EndOf
    <3>4. n - 1 \in 0 .. MaxTracks
      BY <1>3, <2>2
    <3>5. old(n - 1) \in TrackSet
      BY <1>3, <3>4 DEF old
    <3>6. old(n - 1).end \in Int
      BY <3>5 DEF TrackSet
    <3>7. old(n - 1).end = base(n) + chd[n].frames
      BY <3>3, <3>6
    <3> HIDE DEF base
    <3>8. QED
      BY <1>6, <2>2, <3>2, <3>7
  <2>3. QED
    BY <2>1, <2>2
<1> HIDE DEF prev
<1>8. /\ start = base(n + 1) + stored /\ start - m.pregap = base(n + 1) - gap
      /\ end = base(n + 1) + m.frames /\ offset = ChdFirst(chd, n + 1) - base(n + 1)
  <2>1. m.pregap = stored + gap
    BY <1>2 DEF stored, gap
  <2> HIDE DEF base
  <2>2. QED
    BY <1>2, <1>5, <1>6, <1>7, <2>1 DEF chd
<1>9. this.start = start /\ this.pregap = m.pregap /\ this.end = end /\ this.offset = offset
      /\ this.type = m.type
  OBVIOUS
<1> HIDE DEF start, end, offset
<1>10. ChdRow(this, chd, n + 1, n + 1, 0)
  <2>1. EndOf(chd, n + 1, n + 1) = base(n + 1) + m.frames
    BY DEF EndOf, m
  <2>2. this.end + 0 = base(n + 1) + m.frames
    <3> HIDE DEF base, this
    <3> QED BY <1>2, <1>5, <1>8, <1>9
  <2> HIDE DEF this
  <2>3. QED
    BY <1>8, <1>9, <2>1, <2>2 DEF ChdRow, m, stored, gap
<1> HIDE DEF this
<1>11. ASSUME NEW i \in 0 .. MaxTracks
       PROVE  /\ cut(i).start = old(i).start /\ cut(i).pregap = old(i).pregap
              /\ cut(i).end = prev /\ cut(i).offset = old(i).offset /\ cut(i).type = old(i).type
              /\ old(i) \in TrackSet
  <2>1. old(i) \in TrackSet
    BY <1>3 DEF old
  <2> HIDE DEF old
  <2>2. QED
    BY <2>1 DEF TrackSet
<1> HIDE DEF cut
<1>12. /\ tracks[n] = this
       /\ \A i \in 0 .. MaxTracks :
            /\ i = n - 1 => tracks[i] = cut(i)
            /\ i # n /\ i # n - 1 => tracks[i] = old(i)
  BY <1>3
<1> HIDE DEF tracks
<1>13. t.last = n + 1 /\ t.tracks = tracks
  BY <1>3 DEF Tables
<1>14. ASSUME NEW u \in 1 .. n + 1 PROVE ChdRow(tracks[u - 1], chd, n + 1, u, 0)
  <2>1. CASE u = n + 1
    <3>1. u - 1 = n
      BY <2>1
    <3>2. QED
      BY <1>10, <1>12, <2>1, <3>1
  <2>2. CASE u # n + 1
    <3>1. u \in 1 .. n /\ u - 1 \in 0 .. MaxTracks /\ u < n + 1 /\ u - 1 # n
      BY <1>3, <2>2
    <3>2. ChdRow(old(u - 1), chd, n, u, 0)
      BY <1>3, <3>1
    <3>3. EndOf(chd, n + 1, u) = base(u + 1)
      BY <3>1 DEF EndOf
    <3>4. CASE u = n
      <4>1. tracks[u - 1] = cut(u - 1)
        BY <1>12, <3>1, <3>4
      <4>2. cut(u - 1).end = base(u + 1)
        BY <1>7, <1>11, <3>1, <3>4
      <4>3. cut(u - 1).end + 0 = base(u + 1)
        <5> HIDE DEF base
        <5> QED BY <1>5, <3>4, <4>2
      <4> HIDE DEF base
      <4>4. QED
        BY <1>11, <3>1, <3>2, <3>3, <4>1, <4>3 DEF ChdRow
    <3>5. CASE u # n
      <4>1. tracks[u - 1] = old(u - 1)
        BY <1>12, <3>1, <3>5
      <4>2. EndOf(chd, n, u) = base(u + 1)
        BY <3>1, <3>5 DEF EndOf
      <4>3. QED
        BY <3>2, <3>3, <4>1, <4>2 DEF ChdRow
    <3>6. QED
      BY <3>4, <3>5
  <2>3. QED
    BY <2>1, <2>2
<1>15. Layout(t, chd, n + 1, 0)
  <2> HIDE DEF t
  <2> QED BY <1>13, <1>14 DEF Layout
<1> HIDE DEF t
<1>16. QED
  BY <1>4, <1>5, <1>15 DEF chd, m

(* The table a CHD file gives is the layout of its tracks.                 *)
LEMMA ChdLaid ==
  ASSUME NEW image, image.name \in Names, image.sph \in Nat \ {0},
         image.chd \in Seq(ChdRecords), Len(image.chd) <= MaxTracks
  PROVE  Layout(load_chd(image), image.chd, Len(image.chd), 1)
<1> DEFINE chd == image.chd
           after(n) == ChdIter(image)[1 .. n]
           Laid(s, n) == /\ ChdOK(s, image) /\ Layout(s.toc, chd, n, 0)
                         /\ s.sectors = ChdFirst(chd, n + 1)
           S == {n \in Nat : n <= Len(chd) => Laid(after(n), n)}
<1>1. Len(chd) \in Nat /\ DOMAIN chd = 1 .. Len(chd) /\ MaxTracks \in Nat
  BY CdImageAssumption
<1>2. 0 \in S
  <2>1. after(0) = ChdStart(image)
    <3>1. 1 .. 0 = {} /\ 0 \in 0 .. Len(chd)
      BY <1>1
    <3>2. QED
      BY <3>1, ChdFold
  <2>2. ChdStart(image).toc.last = 0 /\ ChdStart(image).sectors = 0
    BY DEF ChdStart, EmptyToc
  <2>3. ChdFirst(chd, 1) = 0
    <3>1. DOMAIN [u \in 1 .. 1 - 1 |-> chd[u].frames + ((-chd[u].frames) % 4)] = 1 .. 0
      OBVIOUS
    <3>2. QED
      BY <3>1, SumEmpty DEF ChdFirst
  <2>4. Layout(ChdStart(image).toc, chd, 0, 0)
    BY <2>2 DEF Layout
  <2>5. 0 + 1 = 1
    OBVIOUS
  <2>6. Laid(after(0), 0)
    BY <2>1, <2>2, <2>3, <2>4, <2>5, ChdStartOK
  <2>7. QED
    BY <2>6
<1>3. ASSUME NEW n \in Nat, n \in S PROVE n + 1 \in S
  <2>1. SUFFICES ASSUME n + 1 <= Len(chd) PROVE Laid(after(n + 1), n + 1)
    OBVIOUS
  <2>2. n + 1 \in 0 .. Len(chd) /\ n + 1 > 0 /\ (n + 1) - 1 = n /\ n < Len(chd) /\ n < MaxTracks
    BY <1>1, <2>1
  <2>3. after(n + 1) = ChdTrack(after(n), chd[n + 1])
    BY <2>2, ChdFold
  <2>4. Laid(after(n), n) /\ chd[n + 1] \in ChdRecords
    BY <1>1, <1>3, <2>1, <2>2
  <2>5. ChdOK(after(n + 1), image)
    <3> HIDE DEF after, chd
    <3> QED BY <2>3, <2>4, ChdTrackOK
  <2> HIDE DEF after
  <2>6. Layout(after(n + 1).toc, chd, n + 1, 0) /\ after(n + 1).sectors = ChdFirst(chd, n + 1 + 1)
    BY <2>2, <2>3, <2>4, ChdTrackLaid
  <2>7. QED
    BY <2>5, <2>6
<1>4. Laid(after(Len(chd)), Len(chd))
  <2>1. Len(chd) \in S
    <3> HIDE DEF S
    <3> QED BY <1>1, <1>2, <1>3, Induction
  <2>2. QED
    BY <1>1, <2>1
<1> DEFINE s == ChdAll(image)
           n == s.toc.last
           old(i) == s.toc.tracks[i]
           inclusive(t) == [t EXCEPT !.end = @ - 1]
           tracks == [i \in 0 .. MaxTracks |-> IF i < n THEN inclusive(old(i)) ELSE old(i)]
           r == load_chd(image)
<1>5. ChdOK(s, image) /\ Layout(s.toc, chd, Len(chd), 0)
  BY <1>1, <1>4 DEF ChdAll
<1>6. r = [s.toc EXCEPT !.tracks = tracks]
  BY ChdUnfold
<1> HIDE DEF chd, after, S, s, r
<1>7. /\ n = Len(chd) /\ s.toc.tracks \in [0 .. MaxTracks -> TrackSet] /\ s.toc \in Tables
      /\ \A t \in 1 .. Len(chd) : ChdRow(old(t - 1), chd, Len(chd), t, 0)
  BY <1>5, ChdFacts DEF Layout
<1>8. ASSUME NEW i \in 0 .. MaxTracks
      PROVE  /\ inclusive(old(i)).start = old(i).start
             /\ inclusive(old(i)).pregap = old(i).pregap
             /\ inclusive(old(i)).offset = old(i).offset
             /\ inclusive(old(i)).type = old(i).type /\ inclusive(old(i)).end = old(i).end - 1
             /\ old(i).end \in Int
  <2>1. old(i) \in TrackSet
    BY <1>7
  <2> HIDE DEF old
  <2>2. QED
    BY <2>1 DEF TrackSet
<1> HIDE DEF inclusive, old
<1>9. r.last = Len(chd) /\ r.tracks = tracks
  BY <1>6, <1>7 DEF Tables
<1>10. ASSUME NEW t \in 1 .. Len(chd) PROVE ChdRow(tracks[t - 1], chd, Len(chd), t, 1)
  <2>1. t - 1 \in 0 .. MaxTracks /\ t - 1 < n
    BY <1>1, <1>7 DEF chd
  <2>2. tracks[t - 1] = inclusive(old(t - 1))
    BY <2>1
  <2> HIDE DEF tracks
  <2>3. (old(t - 1).end - 1) + 1 = old(t - 1).end + 0
    BY <1>8, <2>1
  <2>4. ChdRow(old(t - 1), chd, Len(chd), t, 0)
    BY <1>7
  <2>5. QED
    BY <1>8, <2>1, <2>2, <2>3, <2>4 DEF ChdRow
<1> HIDE DEF tracks, n
<1>11. QED
  BY <1>9, <1>10 DEF Layout, chd, r

-----------------------------------------------------------------------------
(* Where the tracks of a sheet's first file lie.                           *)

(* Sheets that say where the tracks of the first file begin: it comes      *)
(* first, its first track begins at its beginning, every later one after   *)
(* that, and no other FILE names it.                                       *)
PlainSheet(cue) ==
  LET index1 == Positions(cue, "INDEX1")
      file == Positions(cue, "FILE")
  IN /\ 1 \in file
     /\ \A p \in Positions(cue, "INDEX0") : (\A q \in index1 : p < q) => cue[p].at = 0
     /\ \A p, q \in index1 : q < p /\ (\A r \in file : r > 1 => p < r) => cue[p].at > 0
     /\ \A p \in file : p > 1 => cue[p].file # cue[1].file /\ \E q \in index1 : q < p

(* The first m entries are those of the first file.                        *)
FirstRows(table, m, c) ==
  LET row(i) == table.tracks[i]
  IN /\ m \in 1 .. table.last
     /\ row(0).f.file = c.file /\ row(0).f.size = c.size
     /\ row(0).offset = 0 /\ row(0).start = row(0).pregap
     /\ row(m - 1).end = c.size - 1
     /\ \A i \in 1 .. m - 1 : /\ row(i).offset > 0
                              /\ row(i).start - row(i).pregap = row(i).offset
                              /\ row(i).offset = row(i - 1).end + 1

LEMMA SameRows ==
  ASSUME NEW table \in Tables, NEW other, NEW c, NEW m, FirstRows(table, m, c),
         m <= other.last, other.last \in Nat,
         \A i \in 0 .. m - 1 : other.tracks[i] = table.tracks[i]
  PROVE  FirstRows(other, m, c)
<1>1. m \in 1 .. table.last /\ table.last \in Nat
  BY DEF FirstRows, Tables
<1>2. m \in 1 .. other.last /\ 0 \in 0 .. m - 1 /\ m - 1 \in 0 .. m - 1
      /\ \A i \in 1 .. m - 1 : i \in 0 .. m - 1 /\ i - 1 \in 0 .. m - 1
  BY <1>1
<1>3. QED
  BY <1>2 DEF FirstRows

LEMMA EntryRows ==
  ASSUME NEW s, CueOK(s), NEW t \in TrackSet, NEW index0, NEW state
  PROVE  LET r == Entry(s, t, index0, state)
         IN /\ r.toc.last = s.toc.last /\ r.toc.end = s.toc.end /\ r.index0 = index0
            /\ r.state = state /\ r.toc.tracks[s.toc.last] = t
            /\ \A i \in 0 .. s.toc.last - 1 : r.toc.tracks[i] = s.toc.tracks[i]
<1> DEFINE n == s.toc.last
           tracks == [s.toc.tracks EXCEPT ![n] = t]
           r == Entry(s, t, index0, state)
<1>1. n \in 0 .. MaxTracks /\ s.toc.tracks \in [0 .. MaxTracks -> TrackSet]
  BY DEF CueOK, Readers, Tables
<1>2. r = [s EXCEPT !.toc = [s.toc EXCEPT !.tracks = tracks],
                    !.index0 = index0, !.state = state]
  BY <1>1 DEF Entry, CueOK, Readers, Tables
<1>3. tracks[n] = t /\ \A i \in 0 .. n - 1 : tracks[i] = s.toc.tracks[i]
  BY <1>1, CdImageAssumption
<1> HIDE DEF tracks, r
<1>4. /\ r.toc = [s.toc EXCEPT !.tracks = tracks] /\ r.index0 = index0 /\ r.state = state
  BY <1>2 DEF CueOK, Readers
<1>5. r.toc.last = n /\ r.toc.end = s.toc.end /\ r.toc.tracks = tracks
  BY <1>4 DEF CueOK, Readers, Tables
<1>6. QED
  BY <1>3, <1>4, <1>5 DEF r

LEMMA OwnRows ==
  ASSUME NEW s, s.toc \in Tables, NEW index1
  PROVE  LET n == s.toc.last
             r == CueOwnFile(s.toc, s.index0, index1)
         IN /\ r.last = n + 1 /\ r.end = s.toc.end + s.toc.tracks[n].f.size
            /\ r.tracks[n].f = s.toc.tracks[n].f /\ r.tracks[n].offset = 0
            /\ r.tracks[n].start = s.toc.end + s.index0 + index1
            /\ r.tracks[n].pregap = index1 - s.index0 /\ r.tracks[n].end = r.end - 1
            /\ r.tracks[n].type = s.toc.tracks[n].type
<1> DEFINE n == s.toc.last
           end == s.toc.end + s.toc.tracks[n].f.size
           this == [s.toc.tracks[n] EXCEPT !.start = s.toc.end + s.index0 + index1,
                                          !.pregap = index1 - s.index0,
                                          !.offset = 0, !.end = end - 1]
           tracks == [s.toc.tracks EXCEPT ![n] = this]
           r == CueOwnFile(s.toc, s.index0, index1)
<1>1. n \in 0 .. MaxTracks /\ s.toc.tracks \in [0 .. MaxTracks -> TrackSet]
  BY DEF Tables
<1>2. s.toc.tracks[n] \in TrackSet
  BY <1>1
<1>3. r = [s.toc EXCEPT !.tracks = tracks, !.end = end, !.last = n + 1]
  BY DEF CueOwnFile
<1>4. /\ this.f = s.toc.tracks[n].f /\ this.offset = 0 /\ this.type = s.toc.tracks[n].type
      /\ this.start = s.toc.end + s.index0 + index1
      /\ this.pregap = index1 - s.index0 /\ this.end = end - 1
  BY <1>2 DEF TrackSet
<1> HIDE DEF this, end, r
<1>5. tracks[n] = this
  BY <1>1, CdImageAssumption
<1> HIDE DEF tracks, n
<1>6. r.last = n + 1 /\ r.end = end /\ r.tracks = tracks
  BY <1>3 DEF Tables
<1>7. QED
  BY <1>4, <1>5, <1>6 DEF r, end, n

LEMMA FollowsRows ==
  ASSUME NEW s, s.toc \in Tables, s.toc.last > 0, NEW index1
  PROVE  LET n == s.toc.last
             from == IF s.index0 = 0 THEN index1 ELSE s.index0
             r == CueFollows(s.toc, s.index0, index1)
         IN /\ r.last = n + 1 /\ r.end = s.toc.end
            /\ r.tracks[n].f = s.toc.tracks[n].f /\ r.tracks[n].offset = from
            /\ r.tracks[n].start = index1 /\ r.tracks[n].pregap = index1 - from
            /\ r.tracks[n].end = s.toc.end - 1 /\ r.tracks[n].type = s.toc.tracks[n].type
            /\ r.tracks[n - 1] = [s.toc.tracks[n - 1] EXCEPT !.end = from - 1]
<1> DEFINE n == s.toc.last
           from == IF s.index0 = 0 THEN index1 ELSE s.index0
           this == [s.toc.tracks[n] EXCEPT !.start = index1, !.pregap = index1 - from,
                                          !.offset = from, !.end = s.toc.end - 1]
           before == [s.toc.tracks EXCEPT ![n] = this]
           prev == [before[n - 1] EXCEPT !.end = from - 1]
           tracks == [before EXCEPT ![n - 1] = prev]
           r == CueFollows(s.toc, s.index0, index1)
<1>1. n \in 0 .. MaxTracks /\ s.toc.tracks \in [0 .. MaxTracks -> TrackSet] /\ n > 0
  BY DEF Tables
<1>2. s.toc.tracks[n] \in TrackSet
  BY <1>1
<1>3. r = [s.toc EXCEPT !.tracks = tracks, !.last = n + 1]
  BY <1>1 DEF CueFollows
<1>4. /\ this.f = s.toc.tracks[n].f /\ this.offset = from /\ this.type = s.toc.tracks[n].type
      /\ this.start = index1 /\ this.pregap = index1 - from /\ this.end = s.toc.end - 1
  BY <1>2 DEF TrackSet
<1> HIDE DEF this, from, r
<1>5. /\ before[n] = this /\ \A i \in 0 .. n - 1 : before[i] = s.toc.tracks[i]
      /\ DOMAIN before = 0 .. MaxTracks /\ n - 1 \in 0 .. n - 1 /\ n - 1 \in 0 .. MaxTracks
  BY <1>1, CdImageAssumption
<1> HIDE DEF before
<1>6. prev = [s.toc.tracks[n - 1] EXCEPT !.end = from - 1]
  BY <1>5
<1> HIDE DEF prev
<1>7. /\ tracks[n - 1] = prev
      /\ \A i \in 0 .. MaxTracks : i # n - 1 => tracks[i] = before[i]
  BY <1>5
<1>9. n # n - 1
  BY <1>1
<1> HIDE DEF tracks
<1>10. tracks[n] = this
  BY <1>1, <1>5, <1>7, <1>9
<1> HIDE DEF n
<1>11. r.last = n + 1 /\ r.end = s.toc.end /\ r.tracks = tracks
  BY <1>3 DEF Tables
<1>12. QED
  BY <1>4, <1>6, <1>7, <1>10, <1>11 DEF r, n, from

(* Neither changes the entries before.                                     *)
LEMMA OwnKeeps ==
  ASSUME NEW s, s.toc \in Tables, NEW index1, NEW i \in 0 .. s.toc.last - 1
  PROVE  CueOwnFile(s.toc, s.index0, index1).tracks[i] = s.toc.tracks[i]
<1> DEFINE n == s.toc.last
<1>1. n \in 0 .. MaxTracks /\ s.toc.tracks \in [0 .. MaxTracks -> TrackSet]
  BY DEF Tables
<1>2. i # n /\ i \in 0 .. MaxTracks
  BY <1>1, CdImageAssumption
<1>3. QED
  BY <1>1, <1>2 DEF CueOwnFile, Tables

LEMMA FollowsKeeps ==
  ASSUME NEW s, s.toc \in Tables, NEW index1, NEW i \in 0 .. s.toc.last - 2
  PROVE  CueFollows(s.toc, s.index0, index1).tracks[i] = s.toc.tracks[i]
<1> DEFINE n == s.toc.last
<1>1. n \in 0 .. MaxTracks /\ s.toc.tracks \in [0 .. MaxTracks -> TrackSet]
  BY DEF Tables
<1>2. i # n /\ i # n - 1 /\ i \in 0 .. MaxTracks
  BY <1>1, CdImageAssumption
<1>3. QED
  BY <1>1, <1>2 DEF CueFollows, Tables

LEMMA FollowsStart ==
  ASSUME NEW s, s.toc \in Tables, s.toc.last > 0, NEW index1
  PROVE  CueFollows(s.toc, s.index0, index1).tracks[s.toc.last].start = index1
<1> DEFINE n == s.toc.last
           from == IF s.index0 = 0 THEN index1 ELSE s.index0
           this == [s.toc.tracks[n] EXCEPT !.start = index1, !.pregap = index1 - from,
                                           !.offset = from, !.end = s.toc.end - 1]
           before == [s.toc.tracks EXCEPT ![n] = this]
           prev == [before[n - 1] EXCEPT !.end = from - 1]
           tracks == [before EXCEPT ![n - 1] = prev]
           r == CueFollows(s.toc, s.index0, index1)
<1>1. n \in 0 .. MaxTracks /\ s.toc.tracks \in [0 .. MaxTracks -> TrackSet] /\ n > 0
  BY DEF Tables
<1>2. n # n - 1 /\ s.toc.tracks[n] \in TrackSet
  <2>1. n \in Nat
    BY <1>1, CdImageAssumption
  <2>2. n # n - 1
    BY <2>1
  <2>3. QED
    BY <1>1, <2>2
<1>3. this.start = index1
  BY <1>2 DEF TrackSet
<1>4. r = [s.toc EXCEPT !.tracks = tracks, !.last = n + 1]
  BY <1>1 DEF CueFollows
<1> HIDE DEF this, r
<1>5. before[n] = this /\ DOMAIN before = 0 .. MaxTracks
  BY <1>1
<1> HIDE DEF before, prev
<1>6. tracks[n] = before[n]
  BY <1>1, <1>2, <1>5
<1> HIDE DEF tracks
<1>7. r.tracks = tracks
  BY <1>4 DEF Tables
<1>8. QED
  BY <1>3, <1>5, <1>6, <1>7 DEF r

(* What the first n commands of such a sheet make.                         *)
Nothing(s, cue, n) ==
  LET row == s.toc.tracks[0]
  IN /\ s.state = "READING" /\ s.toc.last = 0 /\ s.toc.end = 0 /\ s.index0 = 0
     /\ row.f.file = cue[1].file /\ row.f.size = cue[1].size /\ row.offset = 0
     /\ opened(row.f)
     /\ \A p \in 1 .. n : cue[p].cmd # "INDEX1"

(* With m tracks of the first file in the table, that file still open or   *)
(* another begun.                                                          *)
Some(s, cue, n, m) ==
  LET next == s.toc.tracks[s.toc.last]
  IN /\ FirstRows(s.toc, m, cue[1])
     /\ \E p \in 1 .. n : cue[p].cmd = "INDEX1"
     /\ s.state = "READING" =>
          \/ /\ m = s.toc.last /\ s.toc.end = cue[1].size /\ ~opened(next.f)
             /\ \A p \in 2 .. n : cue[p].cmd # "FILE"
          \/ m < s.toc.last
          \/ m = s.toc.last /\ opened(next.f)

FirstFile(s, cue, n) ==
  s.state # "FAILED" => Nothing(s, cue, n) \/ \E m \in Nat : Some(s, cue, n, m)

(* The first command.                                                      *)
LEMMA FirstCommand ==
  ASSUME NEW cue \in Seq(CueCommands), PlainSheet(cue)
  PROVE  FirstFile(CueCommand(CueStart, cue[1]), cue, 1)
<1> DEFINE c == cue[1]
           r == CueCommand(CueStart, c)
<1>1. 1 \in DOMAIN cue /\ c.cmd = "FILE" /\ c \in CueCommands
  BY DEF PlainSheet, Positions
<1>2. /\ CueOK(CueStart) /\ CueStart.toc = EmptyToc /\ CueStart.index0 = 0
      /\ CueStart.state = "READING" /\ EmptyToc.last = 0 /\ EmptyToc.end = 0
      /\ EmptyToc.tracks[0] = NoTrack
  BY CueStartOK, CdImageAssumption DEF CueStart, EmptyToc
<1> DEFINE f == IF c.found /\ c.binary
                THEN [file |-> c.file, size |-> c.size, pos |-> 0] ELSE NoFile
           offset == IF c.found THEN 0 ELSE NoTrack.offset
           t == [NoTrack EXCEPT !.f = f, !.offset = offset]
           state == IF opened(f) THEN "READING" ELSE "FAILED"
<1>3. c.file \in Names /\ c.size \in Nat /\ NoTrack.offset = 0
  BY <1>1 DEF CueCommands, NoTrack
<1>4. f \in FileSet
  BY <1>3 DEF FileSet, NoFile, Names
<1>5. t \in TrackSet /\ t.f = f /\ t.offset = 0
  <2>1. NoTrack \in TrackSet
    BY DEF NoTrack, NoFile, TrackSet, FileSet, TrackTypes
  <2>2. offset = 0 /\ offset \in Int
    BY <1>3
  <2> HIDE DEF f, offset
  <2>3. QED
    BY <1>4, <2>1, <2>2 DEF TrackSet
<1>6. r = Entry(CueStart, t, 0, state)
  BY <1>1, <1>2 DEF CueCommand, CueFile
<1>7. opened(f) => f.file = c.file /\ f.size = c.size
  BY DEF opened, NoFile
<1> HIDE DEF r, t, f
<1>8. /\ r.toc.last = 0 /\ r.toc.end = 0 /\ r.index0 = 0 /\ r.state = state
      /\ r.toc.tracks[0] = t
  BY <1>2, <1>5, <1>6, EntryRows
<1>9. \A p \in 1 .. 1 : cue[p].cmd # "INDEX1"
  BY <1>1
<1>10. r.state # "FAILED" => Nothing(r, cue, 1)
  BY <1>5, <1>7, <1>8, <1>9 DEF Nothing
<1>11. QED
  BY <1>10 DEF FirstFile, r

(* Every later command.                                                    *)
LEMMA NothingStep ==
  ASSUME NEW cue \in Seq(CueCommands), PlainSheet(cue), NEW s, CueOK(s),
         NEW n \in Nat \ {0}, n + 1 <= Len(cue), Nothing(s, cue, n)
  PROVE  FirstFile(CueCommand(s, cue[n + 1]), cue, n + 1)
<1> DEFINE c == cue[n + 1]
           row == s.toc.tracks[0]
           r == CueCommand(s, c)
<1>1. /\ n + 1 \in DOMAIN cue /\ DOMAIN cue = 1 .. Len(cue) /\ c \in CueCommands
      /\ Len(cue) \in Nat /\ cue[1].size \in Nat /\ cue[1].cmd = "FILE"
  <2>1. 1 \in DOMAIN cue /\ cue[1].cmd = "FILE" /\ cue[1] \in CueCommands
    BY DEF PlainSheet, Positions
  <2>2. QED
    BY <2>1 DEF CueCommands
<1>2. /\ s.state = "READING" /\ s.toc.last = 0 /\ s.toc.end = 0 /\ s.index0 = 0
      /\ row.f.file = cue[1].file /\ row.f.size = cue[1].size /\ row.offset = 0
      /\ opened(row.f) /\ \A p \in 1 .. n : cue[p].cmd # "INDEX1"
  BY DEF Nothing
<1>3. s.toc \in Tables /\ row \in TrackSet /\ MaxTracks \in Nat
  BY <1>2, CdImageAssumption DEF CueOK, Readers, Tables
<1>4. \A p \in 1 .. n + 1 : p # n + 1 => p \in 1 .. n
  OBVIOUS
<1>5. c.cmd \in {"FILE", "TRACK", "INDEX0", "INDEX1"}
  BY <1>1 DEF CueCommands
<1> HIDE DEF row
<1>6. CASE c.cmd = "FILE"
  <2>1. n + 1 \in Positions(cue, "FILE") /\ n + 1 > 1
    BY <1>1, <1>6 DEF Positions
  <2>2. PICK q \in Positions(cue, "INDEX1") : q < n + 1
    BY <2>1 DEF PlainSheet
  <2>3. q \in 1 .. n /\ cue[q].cmd = "INDEX1"
    BY <1>1, <2>2 DEF Positions
  <2>4. QED
    BY <1>2, <2>3
<1>7. CASE c.cmd = "TRACK"
  <2> DEFINE good == c.number = s.toc.last + 1 /\ c.type # "OTHER"
             t == [row EXCEPT !.type = c.type]
  <2>1. SUFFICES ASSUME r.state # "FAILED" PROVE Nothing(r, cue, n + 1)
    BY DEF FirstFile
  <2>2. good
    <3>1. SUFFICES ASSUME ~good PROVE FALSE
      OBVIOUS
    <3>2. r = Entry(s, [s.toc.tracks[s.toc.last] EXCEPT !.f = NoFile], 0, "FAILED")
      BY <1>2, <1>7, <3>1 DEF CueCommand, CueTrack
    <3>3. [s.toc.tracks[s.toc.last] EXCEPT !.f = NoFile] \in TrackSet
      BY <1>2, <1>3 DEF row, TrackSet, FileSet, NoFile
    <3> HIDE DEF r
    <3>4. r.state = "FAILED"
      BY <3>2, <3>3, EntryRows
    <3>5. QED
      BY <2>1, <3>4
  <2>3. r = Entry(s, t, 0, "READING")
    BY <1>2, <1>7, <2>2 DEF CueCommand, CueTrack, row
  <2>4. t \in TrackSet /\ t.f = row.f /\ t.offset = row.offset
    <3>1. c.type \in TrackTypes
      BY <1>1, <1>7, <2>2 DEF CueCommands
    <3>2. QED
      BY <1>3, <3>1 DEF TrackSet
  <2> HIDE DEF r, t
  <2>5. /\ r.toc.last = 0 /\ r.toc.end = 0 /\ r.index0 = 0 /\ r.state = "READING"
        /\ r.toc.tracks[0] = t
    BY <1>2, <2>3, <2>4, EntryRows
  <2>6. \A p \in 1 .. n + 1 : cue[p].cmd # "INDEX1"
    BY <1>2, <1>4, <1>7
  <2>7. QED
    BY <1>2, <2>4, <2>5, <2>6 DEF Nothing
<1>8. CASE c.cmd = "INDEX0"
  <2>1. c.at = 0
    <3>1. ASSUME NEW q \in Positions(cue, "INDEX1") PROVE n + 1 < q
      <4>1. q \in 1 .. Len(cue) /\ cue[q].cmd = "INDEX1"
        BY <1>1 DEF Positions
      <4>2. q \notin 1 .. n /\ q # n + 1
        BY <1>2, <1>8, <4>1
      <4>3. QED
        BY <1>1, <4>1, <4>2
    <3>2. n + 1 \in Positions(cue, "INDEX0")
      BY <1>1, <1>8 DEF Positions
    <3>3. QED
      BY <3>1, <3>2 DEF PlainSheet
  <2>2. r = [s EXCEPT !.index0 = 0]
    BY <1>2, <1>8, <2>1 DEF CueCommand
  <2>3. r.toc = s.toc /\ r.index0 = 0 /\ r.state = "READING"
    BY <1>2, <2>2 DEF CueOK, Readers
  <2>4. \A p \in 1 .. n + 1 : cue[p].cmd # "INDEX1"
    BY <1>2, <1>4, <1>8
  <2>5. Nothing(r, cue, n + 1)
    <3> HIDE DEF r
    <3> QED BY <1>2, <2>3, <2>4 DEF Nothing, row
  <2>6. QED
    BY <2>5 DEF FirstFile
<1>9. CASE c.cmd = "INDEX1"
  <2> DEFINE toc1 == CueOwnFile(s.toc, s.index0, c.at)
  <2>1. c.at \in Nat
    BY <1>1, <1>9 DEF CueCommands
  <2>2. r = CueIndex1(s, c.at)
    BY <1>2, <1>9 DEF CueCommand
  <2>3. r.toc = toc1 /\ ~opened(r.toc.tracks[r.toc.last].f)
    <3>1. CueIndex1(s, c.at).toc = toc1
      BY <1>2 DEF CueIndex1, CueOK, Readers, row
    <3>2. ~opened(CueIndex1(s, c.at).toc.tracks[CueIndex1(s, c.at).toc.last].f)
      BY <1>2, <2>1, CueIndex1OK
    <3> HIDE DEF toc1, r
    <3>3. QED
      BY <2>2, <3>1, <3>2
  <2>4. /\ toc1.last = 1 /\ toc1.end = cue[1].size /\ toc1.tracks[0].f = row.f
        /\ toc1.tracks[0].offset = 0 /\ toc1.tracks[0].start = c.at
        /\ toc1.tracks[0].pregap = c.at /\ toc1.tracks[0].end = cue[1].size - 1
    <3>1. 0 \in Nat /\ 0 + 1 = 1 /\ 0 + cue[1].size = cue[1].size /\ 0 + 0 + c.at = c.at
          /\ c.at - 0 = c.at
      BY <1>1, <2>1
    <3>2. /\ toc1.last = s.toc.last + 1
          /\ toc1.end = s.toc.end + s.toc.tracks[s.toc.last].f.size
          /\ toc1.tracks[s.toc.last].f = s.toc.tracks[s.toc.last].f
          /\ toc1.tracks[s.toc.last].offset = 0
          /\ toc1.tracks[s.toc.last].start = s.toc.end + s.index0 + c.at
          /\ toc1.tracks[s.toc.last].pregap = c.at - s.index0
          /\ toc1.tracks[s.toc.last].end = toc1.end - 1
      <4> HIDE DEF c
      <4>1. toc1.last = s.toc.last + 1 /\ toc1.end = s.toc.end + s.toc.tracks[s.toc.last].f.size
        BY <1>3, OwnRows
      <4>2. /\ toc1.tracks[s.toc.last].f = s.toc.tracks[s.toc.last].f
            /\ toc1.tracks[s.toc.last].offset = 0
        BY <1>3, OwnRows
      <4>3. toc1.tracks[s.toc.last].start = s.toc.end + s.index0 + c.at
        BY <1>3, OwnRows
      <4>4. toc1.tracks[s.toc.last].pregap = c.at - s.index0
        BY <1>3, OwnRows
      <4>5. toc1.tracks[s.toc.last].end = toc1.end - 1
        BY <1>3, OwnRows
      <4>6. QED
        BY <4>1, <4>2, <4>3, <4>4, <4>5
    <3> HIDE DEF toc1
    <3>3. QED
      BY <1>2, <3>1, <3>2 DEF row
  <2> HIDE DEF toc1, r
  <2>5. FirstRows(r.toc, 1, cue[1])
    <3>1. 1 \in 1 .. 1 /\ 1 - 1 = 0 /\ 1 .. 1 - 1 = {}
      OBVIOUS
    <3>2. QED
      BY <1>2, <2>3, <2>4, <3>1 DEF FirstRows
  <2>6. \E p \in 1 .. n + 1 : cue[p].cmd = "INDEX1"
    BY <1>9
  <2>7. ASSUME NEW p \in 2 .. n + 1 PROVE cue[p].cmd # "FILE"
    <3>1. SUFFICES ASSUME cue[p].cmd = "FILE" PROVE FALSE
      OBVIOUS
    <3>2. p \in Positions(cue, "FILE") /\ p > 1
      BY <1>1, <3>1 DEF Positions
    <3>3. PICK q \in Positions(cue, "INDEX1") : q < p
      BY <3>2 DEF PlainSheet
    <3>4. q \in 1 .. n /\ cue[q].cmd = "INDEX1"
      BY <1>1, <3>3 DEF Positions
    <3>5. QED
      BY <1>2, <3>4
  <2>8. Some(r, cue, n + 1, 1)
    BY <2>3, <2>4, <2>5, <2>6, <2>7 DEF Some
  <2>9. QED
    BY <2>8 DEF FirstFile, r
<1>10. QED
  BY <1>5, <1>6, <1>7, <1>8, <1>9

LEMMA SomeStep ==
  ASSUME NEW cue \in Seq(CueCommands), PlainSheet(cue), NEW s, CueOK(s),
         NEW n \in Nat \ {0}, n + 1 <= Len(cue), NEW m \in Nat, Some(s, cue, n, m)
  PROVE  FirstFile(CueCommand(s, cue[n + 1]), cue, n + 1)
<1> DEFINE c == cue[n + 1]
           k == s.toc.last
           row == s.toc.tracks[k]
           r == CueCommand(s, c)
<1>1. /\ n + 1 \in DOMAIN cue /\ DOMAIN cue = 1 .. Len(cue) /\ c \in CueCommands
      /\ Len(cue) \in Nat /\ cue[1].cmd = "FILE"
  BY DEF PlainSheet, Positions
<1>2. FirstRows(s.toc, m, cue[1]) /\ \E p \in 1 .. n : cue[p].cmd = "INDEX1"
  BY DEF Some
<1>3. /\ s.toc \in Tables /\ k \in 0 .. MaxTracks /\ m \in 1 .. k /\ MaxTracks \in Nat
      /\ row \in TrackSet
  BY <1>2, CdImageAssumption DEF CueOK, Readers, Tables, FirstRows
<1>4. \A p \in 1 .. n : p \in 1 .. n + 1
  OBVIOUS
<1>5. \E p \in 1 .. n + 1 : cue[p].cmd = "INDEX1"
  BY <1>2, <1>4
<1>6. CASE s.state # "READING"
  <2>1. r = s
    BY <1>6 DEF CueCommand
  <2>2. Some(s, cue, n + 1, m)
    BY <1>2, <1>5, <1>6 DEF Some
  <2>3. QED
    BY <2>1, <2>2 DEF FirstFile
<1>7. CASE s.state = "READING"
  <2>1. \/ /\ m = k /\ s.toc.end = cue[1].size /\ ~opened(row.f)
           /\ \A p \in 2 .. n : cue[p].cmd # "FILE"
        \/ m < k
        \/ m = k /\ opened(row.f)
    BY <1>7 DEF Some
  <2>2. c.cmd \in {"FILE", "TRACK", "INDEX0", "INDEX1"}
    BY <1>1 DEF CueCommands
  <2>3. ASSUME NEW t \in TrackSet, NEW index0, NEW state, state # "FAILED",
               r = Entry(s, t, index0, state),
               \/ opened(t.f)
               \/ m < k
               \/ /\ m = k /\ s.toc.end = cue[1].size /\ ~opened(t.f)
                  /\ \A p \in 2 .. n + 1 : cue[p].cmd # "FILE"
        PROVE  Some(r, cue, n + 1, m)
    <3> HIDE DEF r, c
    <3>1. /\ r.toc.last = k /\ r.toc.end = s.toc.end /\ r.toc.tracks[k] = t
          /\ \A i \in 0 .. k - 1 : r.toc.tracks[i] = s.toc.tracks[i]
      BY <2>3, EntryRows
    <3>2. m <= k /\ k \in Nat /\ \A i \in 0 .. m - 1 : i \in 0 .. k - 1
      BY <1>3
    <3>3. FirstRows(r.toc, m, cue[1])
      BY <1>2, <1>3, <3>1, <3>2, SameRows
    <3>4. m < k \/ m = k
      BY <1>3
    <3>5. QED
      BY <1>5, <2>3, <3>1, <3>3, <3>4 DEF Some
  <2>4. CASE c.cmd = "FILE"
    <3> DEFINE f == IF c.found /\ c.binary
                    THEN [file |-> c.file, size |-> c.size, pos |-> 0] ELSE NoFile
               offset == IF c.found THEN 0 ELSE row.offset
               t == [row EXCEPT !.f = f, !.offset = offset]
               state == IF opened(f) THEN "READING" ELSE "FAILED"
    <3>1. r = Entry(s, t, s.index0, state)
      BY <1>7, <2>4 DEF CueCommand, CueFile
    <3>2. f \in FileSet
      BY <1>1, <2>4 DEF CueCommands, FileSet, NoFile, Names
    <3>3. offset \in Int
      BY <1>3 DEF TrackSet
    <3> HIDE DEF f, offset, r, row
    <3>4. t \in TrackSet /\ t.f = f
      BY <1>3, <3>2, <3>3 DEF TrackSet
    <3> HIDE DEF t
    <3>5. CASE state = "FAILED"
      <4>1. r.state = "FAILED"
        BY <3>1, <3>4, <3>5, EntryRows
      <4>2. QED
        BY <4>1 DEF FirstFile, r
    <3>6. CASE state # "FAILED"
      <4>1. opened(t.f)
        BY <3>4, <3>6
      <4>2. Some(r, cue, n + 1, m)
        BY <2>3, <3>1, <3>4, <3>6, <4>1
      <4>3. QED
        BY <4>2 DEF FirstFile, r
    <3>7. QED
      BY <3>5, <3>6
  <2>5. CASE c.cmd = "TRACK"
    <3> DEFINE good == c.number = s.toc.last + 1 /\ c.type # "OTHER"
               t == [row EXCEPT !.type = c.type]
               u == [row EXCEPT !.f = NoFile]
    <3>1. CASE ~good
      <4>1. r = Entry(s, u, 0, "FAILED")
        BY <1>7, <2>5, <3>1 DEF CueCommand, CueTrack
      <4>2. u \in TrackSet
        <5>1. NoFile \in FileSet
          BY DEF FileSet, NoFile
        <5> HIDE DEF row
        <5>2. QED
          BY <1>3, <5>1 DEF TrackSet
      <4> HIDE DEF r
      <4>3. r.state = "FAILED"
        BY <4>1, <4>2, EntryRows
      <4>4. QED
        BY <4>3 DEF FirstFile, r
    <3>2. CASE good
      <4>1. r = Entry(s, t, 0, "READING")
        BY <1>7, <2>5, <3>2 DEF CueCommand, CueTrack
      <4>2. c.type \in TrackTypes
        BY <1>1, <2>5, <3>2 DEF CueCommands
      <4> HIDE DEF r, row
      <4>3. t \in TrackSet /\ t.f = row.f
        BY <1>3, <4>2 DEF TrackSet
      <4> HIDE DEF t
      <4>4. (\A p \in 2 .. n : cue[p].cmd # "FILE") => \A p \in 2 .. n + 1 : cue[p].cmd # "FILE"
        <5>1. \A p \in 2 .. n + 1 : p = n + 1 \/ p \in 2 .. n
          OBVIOUS
        <5>2. QED
          BY <2>5, <5>1
      <4>5. Some(r, cue, n + 1, m)
        BY <2>1, <2>3, <4>1, <4>3, <4>4
      <4>6. QED
        BY <4>5 DEF FirstFile, r
    <3>3. QED
      BY <3>1, <3>2
  <2>6. CASE c.cmd = "INDEX0"
    <3>1. r = [s EXCEPT !.index0 = c.at]
      BY <1>7, <2>6 DEF CueCommand
    <3>2. r.toc = s.toc /\ r.state = "READING"
      BY <1>7, <3>1 DEF CueOK, Readers
    <3>3. (\A p \in 2 .. n : cue[p].cmd # "FILE") => \A p \in 2 .. n + 1 : cue[p].cmd # "FILE"
      <4>1. \A p \in 2 .. n + 1 : p = n + 1 \/ p \in 2 .. n
        OBVIOUS
      <4>2. QED
        BY <2>6, <4>1
    <3>4. Some(r, cue, n + 1, m)
      <4> HIDE DEF r
      <4> QED BY <1>2, <1>5, <2>1, <3>2, <3>3 DEF Some
    <3>5. QED
      BY <3>4 DEF FirstFile
  <2>7. CASE c.cmd = "INDEX1"
    <3> DEFINE own == opened(row.f)
               toc1 == r.toc
               from == IF s.index0 = 0 THEN c.at ELSE s.index0
    <3>1. c.at \in Nat /\ s.index0 \in Nat
      BY <1>1, <2>7 DEF CueCommands, CueOK, Readers
    <3>2. r = CueIndex1(s, c.at)
      BY <1>7, <2>7 DEF CueCommand
    <3>3. /\ own => toc1 = CueOwnFile(s.toc, s.index0, c.at)
          /\ ~own => toc1 = CueFollows(s.toc, s.index0, c.at)
      <4>1. CueIndex1(s, c.at).toc = IF own THEN CueOwnFile(s.toc, s.index0, c.at)
                                    ELSE CueFollows(s.toc, s.index0, c.at)
        BY DEF CueIndex1, CueOK, Readers
      <4>2. QED
        BY <3>2, <4>1
    <3>4. ~opened(toc1.tracks[toc1.last].f)
      <4>1. ~opened(CueIndex1(s, c.at).toc.tracks[CueIndex1(s, c.at).toc.last].f)
        BY <1>7, <3>1, CueIndex1OK
      <4> HIDE DEF r
      <4>2. QED
        BY <3>2, <4>1
    <3>5. own => /\ toc1.last = k + 1
                 /\ \A i \in 0 .. k - 1 : toc1.tracks[i] = s.toc.tracks[i]
      <4> HIDE DEF r, c
      <4>1. LET t == CueOwnFile(s.toc, s.index0, c.at)
            IN /\ t.last = s.toc.last + 1
               /\ \A i \in 0 .. s.toc.last - 1 : t.tracks[i] = s.toc.tracks[i]
        <5>1. CueOwnFile(s.toc, s.index0, c.at).last = s.toc.last + 1
          BY <1>3, OwnRows
        <5>2. QED
          BY <1>3, <5>1, OwnKeeps
      <4>2. QED
        BY <3>3, <4>1
    <3>6. ~own => /\ toc1.last = k + 1 /\ toc1.end = s.toc.end
                  /\ toc1.tracks[k].offset = from /\ toc1.tracks[k].start = c.at
                  /\ toc1.tracks[k].pregap = c.at - from
                  /\ toc1.tracks[k].end = s.toc.end - 1
                  /\ toc1.tracks[k - 1] = [s.toc.tracks[k - 1] EXCEPT !.end = from - 1]
                  /\ \A i \in 0 .. k - 2 : toc1.tracks[i] = s.toc.tracks[i]
      <4>1. k > 0
        BY <1>3
      <4> HIDE DEF r, c
      <4> DEFINE t == CueFollows(s.toc, s.index0, c.at)
      <4>2. /\ t.last = s.toc.last + 1 /\ t.end = s.toc.end
            /\ t.tracks[s.toc.last].offset = from /\ t.tracks[s.toc.last].start = c.at
            /\ t.tracks[s.toc.last].pregap = c.at - from
            /\ t.tracks[s.toc.last].end = s.toc.end - 1
            /\ t.tracks[s.toc.last - 1] = [s.toc.tracks[s.toc.last - 1] EXCEPT !.end = from - 1]
        <5>1. t.last = s.toc.last + 1 /\ t.end = s.toc.end
          BY <1>3, <4>1, FollowsRows
        <5>2. t.tracks[s.toc.last].start = c.at
          BY <1>3, <4>1, FollowsStart
        <5>7. t.tracks[s.toc.last].offset = from
          BY <1>3, <4>1, FollowsRows
        <5>3. t.tracks[s.toc.last].pregap = c.at - from
          BY <1>3, <4>1, FollowsRows
        <5>4. t.tracks[s.toc.last].end = s.toc.end - 1
          BY <1>3, <4>1, FollowsRows
        <5>5. t.tracks[s.toc.last - 1] = [s.toc.tracks[s.toc.last - 1] EXCEPT !.end = from - 1]
          BY <1>3, <4>1, FollowsRows
        <5>6. QED
          BY <5>1, <5>2, <5>3, <5>4, <5>5, <5>7
      <4>3. \A i \in 0 .. s.toc.last - 2 : t.tracks[i] = s.toc.tracks[i]
        BY <1>3, FollowsKeeps
      <4> HIDE DEF t
      <4>4. ~own => toc1 = t
        BY <3>3 DEF t
      <4>5. QED
        BY <4>2, <4>3, <4>4
    <3> HIDE DEF toc1, r, c
    <3>7. toc1.last = k + 1 /\ k \in Nat /\ m <= k
      BY <1>3, <3>5, <3>6
    <3>8. CASE own \/ m < k
      <4>1. ASSUME NEW i \in 0 .. m - 1 PROVE toc1.tracks[i] = s.toc.tracks[i]
        <5>1. CASE own
          BY <1>3, <3>5, <5>1
        <5>2. CASE ~own
          <6>1. i \in 0 .. k - 2
            BY <1>3, <3>8, <5>2
          <6>2. QED
            BY <3>6, <5>2, <6>1
        <5>3. QED
          BY <5>1, <5>2
      <4>2. m <= toc1.last /\ toc1.last \in Nat /\ m < toc1.last
        BY <1>3, <3>7
      <4>3. FirstRows(toc1, m, cue[1])
        BY <1>2, <1>3, <4>1, <4>2, SameRows
      <4>4. Some(r, cue, n + 1, m)
        BY <1>5, <4>2, <4>3 DEF Some, toc1
      <4>5. QED
        BY <4>4 DEF FirstFile, r, c
    <3>9. CASE ~own /\ m = k
      <4>1. s.toc.end = cue[1].size /\ \A p \in 2 .. n : cue[p].cmd # "FILE"
        BY <1>3, <2>1, <3>9
      <4>2. from > 0 /\ from \in Nat
        <5>1. c.at > 0
          <6>1. n + 1 \in Positions(cue, "INDEX1")
            BY <1>1, <2>7 DEF Positions, c
          <6>2. PICK q \in 1 .. n : cue[q].cmd = "INDEX1"
            BY <1>2
          <6>3. q \in Positions(cue, "INDEX1") /\ q < n + 1
            BY <1>1, <6>2 DEF Positions
          <6>4. ASSUME NEW p \in Positions(cue, "FILE"), p > 1 PROVE n + 1 < p
            <7>1. p \in 1 .. Len(cue) /\ cue[p].cmd = "FILE"
              BY <1>1 DEF Positions
            <7>2. p \notin 2 .. n /\ p # n + 1
              BY <2>7, <4>1, <7>1 DEF c
            <7>3. QED
              BY <1>1, <6>4, <7>1, <7>2
          <6>5. QED
            BY <6>1, <6>3, <6>4 DEF PlainSheet, c
        <5>2. QED
          BY <3>1, <5>1
      <4> HIDE DEF from
      <4>3. /\ toc1.tracks[k - 1].end = from - 1
            /\ toc1.tracks[k - 1].f = s.toc.tracks[k - 1].f
            /\ toc1.tracks[k - 1].offset = s.toc.tracks[k - 1].offset
            /\ toc1.tracks[k - 1].start = s.toc.tracks[k - 1].start
            /\ toc1.tracks[k - 1].pregap = s.toc.tracks[k - 1].pregap
        <5>1. k - 1 \in 0 .. MaxTracks
          BY <1>3
        <5>2. s.toc.tracks[k - 1] \in TrackSet
          BY <1>3, <5>1 DEF Tables
        <5>3. QED
          BY <3>6, <3>9, <5>2 DEF TrackSet
      <4>4. ASSUME NEW i \in 0 .. k - 1
            PROVE  /\ toc1.tracks[i].f = s.toc.tracks[i].f
                   /\ toc1.tracks[i].offset = s.toc.tracks[i].offset
                   /\ toc1.tracks[i].start = s.toc.tracks[i].start
                   /\ toc1.tracks[i].pregap = s.toc.tracks[i].pregap
                   /\ i < k - 1 => toc1.tracks[i].end = s.toc.tracks[i].end
        <5>1. CASE i = k - 1
          BY <4>3, <5>1
        <5>2. CASE i # k - 1
          <6> HIDE DEF k
          <6>1. i \in 0 .. k - 2
            BY <3>7, <5>2
          <6>2. QED
            BY <3>6, <3>9, <6>1
        <5>3. QED
          BY <5>1, <5>2
      <4>5. toc1.tracks[k].start - toc1.tracks[k].pregap = from
        <5>1. c.at - (c.at - from) = from
          BY <3>1, <4>2
        <5>2. QED
          BY <3>6, <3>9, <5>1
      <4>6. ASSUME NEW i \in 1 .. k
            PROVE  /\ toc1.tracks[i].offset > 0
                   /\ toc1.tracks[i].start - toc1.tracks[i].pregap = toc1.tracks[i].offset
                   /\ toc1.tracks[i].offset = toc1.tracks[i - 1].end + 1
        <5>1. CASE i = k
          <6>1. (from - 1) + 1 = from
            BY <4>2
          <6>2. QED
            BY <3>6, <3>9, <4>2, <4>3, <4>5, <5>1, <6>1
        <5>2. CASE i # k
          <6>1. i \in 1 .. m - 1 /\ i \in 0 .. k - 1 /\ i - 1 \in 0 .. k - 1 /\ i - 1 < k - 1
            BY <1>3, <3>9, <5>2
          <6>2. QED
            BY <1>2, <4>4, <6>1 DEF FirstRows
        <5>3. QED
          BY <5>1, <5>2
      <4>7. 0 \in 0 .. k - 1 /\ k + 1 \in 1 .. toc1.last /\ (k + 1) - 1 = k
        BY <1>3, <3>7
      <4>8. FirstRows(toc1, k + 1, cue[1])
        BY <1>2, <3>6, <3>9, <4>1, <4>4, <4>6, <4>7 DEF FirstRows
      <4>9. \A p \in 2 .. n + 1 : cue[p].cmd # "FILE"
        <5>1. \A p \in 2 .. n + 1 : p = n + 1 \/ p \in 2 .. n
          OBVIOUS
        <5>2. QED
          BY <2>7, <4>1, <5>1 DEF c
      <4>10. Some(r, cue, n + 1, k + 1)
        BY <1>5, <3>4, <3>6, <3>7, <3>9, <4>1, <4>8, <4>9 DEF Some, toc1
      <4>11. k + 1 \in Nat
        BY <3>7
      <4>12. QED
        BY <4>10, <4>11 DEF FirstFile, r, c
    <3>10. QED
      BY <1>3, <3>8, <3>9
  <2>8. QED
    BY <2>2, <2>4, <2>5, <2>6, <2>7
<1>8. QED
  BY <1>6, <1>7

(* The table of such a sheet.                                              *)
LEMMA CueFirst ==
  ASSUME NEW image, image.cue \in Seq(CueCommands), PlainSheet(image.cue)
  PROVE  LET s == load_cue(image)
         IN s.state # "FAILED" /\ s.toc.last > 0 =>
              \E m \in Nat : FirstRows(s.toc, m, image.cue[1])
<1> DEFINE cue == image.cue
           after(n) == CueIter(cue)[1 .. n]
           Good(n) == CueOK(after(n)) /\ FirstFile(after(n), cue, n)
           S == {n \in Nat : n + 1 <= Len(cue) => Good(n + 1)}
<1>1. /\ Len(cue) \in Nat /\ DOMAIN cue = 1 .. Len(cue) /\ 1 \in 0 .. Len(cue)
      /\ Len(cue) > 0 /\ cue \in Seq(CueCommands)
      /\ \A n \in 1 .. Len(cue) : cue[n] \in CueCommands
  <2>1. 1 \in DOMAIN cue
    BY DEF PlainSheet, Positions
  <2>2. QED
    BY <2>1
<1>2. 0 \in S
  <2>1. after(1) = CueCommand(CueStart, cue[1])
    <3>1. 1 .. 1 - 1 = {} /\ 1 > 0
      OBVIOUS
    <3>2. CueIter(cue)[1 .. 1] = CueCommand(CueIter(cue)[1 .. 1 - 1], cue[1])
      BY <1>1, <3>1, CueFold
    <3>3. CueIter(cue)[{}] = CueStart
      BY <1>1, CueFold
    <3>4. QED
      BY <3>1, <3>2, <3>3
  <2>2. CueOK(after(1))
    <3> HIDE DEF after, cue
    <3>1. cue[1] \in CueCommands
      BY <1>1
    <3>2. QED
      BY <2>1, <3>1, CueStartOK, CueCommandOK
  <2>3. FirstFile(after(1), cue, 1)
    BY <2>1, FirstCommand
  <2>4. 0 + 1 = 1
    OBVIOUS
  <2> HIDE DEF Good
  <2>5. Good(0 + 1)
    BY <2>2, <2>3, <2>4 DEF Good
  <2>6. QED
    BY <2>5
<1>3. ASSUME NEW k \in Nat, k \in S PROVE k + 1 \in S
  <2> DEFINE n == k + 1
  <2>1. SUFFICES ASSUME n + 1 <= Len(cue) PROVE Good(n + 1)
    OBVIOUS
  <2>2. /\ n \in Nat \ {0} /\ n + 1 \in 0 .. Len(cue) /\ n + 1 > 0 /\ (n + 1) - 1 = n
        /\ n <= Len(cue)
    BY <1>1, <2>1
  <2>3. Good(n)
    BY <1>3, <2>2
  <2> HIDE DEF n
  <2>4. after(n + 1) = CueCommand(after(n), cue[n + 1])
    BY <1>1, <2>2, CueFold
  <2>5. cue[n + 1] \in CueCommands
    BY <1>1, <2>2
  <2>6. CueOK(after(n)) /\ FirstFile(after(n), cue, n)
    BY <2>3
  <2>7. PlainSheet(cue) /\ n + 1 <= Len(cue)
    BY <2>1
  <2> HIDE DEF after, cue
  <2>8. CueOK(after(n + 1))
    BY <2>4, <2>5, <2>6, CueCommandOK
  <2>9. FirstFile(after(n + 1), cue, n + 1)
    <3>1. CASE after(n).state = "FAILED"
      <4>1. after(n + 1) = after(n)
        BY <2>4, <3>1 DEF CueCommand
      <4>2. QED
        BY <3>1, <4>1 DEF FirstFile
    <3>2. CASE after(n).state # "FAILED" /\ Nothing(after(n), cue, n)
      BY <1>1, <2>2, <2>4, <2>6, <2>7, <3>2, NothingStep
    <3>3. CASE after(n).state # "FAILED" /\ \E m \in Nat : Some(after(n), cue, n, m)
      BY <1>1, <2>2, <2>4, <2>6, <2>7, <3>3, SomeStep
    <3>4. QED
      BY <2>6, <3>1, <3>2, <3>3 DEF FirstFile
  <2>10. QED
    BY <2>8, <2>9
<1>4. Good(Len(cue))
  <2>1. Len(cue) - 1 \in S
    <3>1. Len(cue) - 1 \in Nat
      BY <1>1
    <3> HIDE DEF S
    <3>2. QED
      BY <1>2, <1>3, <3>1, Induction
  <2>2. (Len(cue) - 1) + 1 = Len(cue) /\ Len(cue) <= Len(cue)
    BY <1>1
  <2> HIDE DEF Good
  <2>3. QED
    BY <2>1, <2>2
<1>5. load_cue(image) = after(Len(cue))
  BY <1>1, CueUnfold
<1> HIDE DEF after
<1>6. QED
  BY <1>4, <1>5 DEF FirstFile, Nothing, Some

(* The tracks of the first file leave no address of it out.                *)
LEMMA CueCovers ==
  ASSUME NEW table \in Tables, NEW c, NEW m, FirstRows(table, m, c), c.size \in Nat,
         NEW lba \in 0 .. c.size - 1
  PROVE  \E i \in 0 .. m - 1 : Holds(table.tracks[i], lba)
<1> DEFINE at(i) == table.tracks[i]
<1>1. /\ m \in Nat /\ m > 0 /\ m <= MaxTracks /\ MaxTracks \in Nat
      /\ at(0).start = at(0).pregap /\ at(m - 1).end = c.size - 1
      /\ \A i \in 1 .. m - 1 : /\ at(i).start - at(i).pregap = at(i).offset
                               /\ at(i).offset = at(i - 1).end + 1
  BY CdImageAssumption DEF FirstRows, Tables
<1>2. ASSUME NEW i \in 0 .. m - 1
      PROVE  at(i).start \in Int /\ at(i).pregap \in Int /\ at(i).end \in Int
  <2>1. i \in 0 .. MaxTracks
    BY <1>1
  <2>2. at(i) \in TrackSet
    BY <2>1 DEF Tables
  <2>3. QED
    BY <2>2 DEF TrackSet
<1> HIDE DEF at
<1> DEFINE T == {i \in 0 .. m - 1 : lba <= at(i).end}
<1>3. m - 1 \in T /\ T \subseteq Nat
  BY <1>1
<1>4. PICK i \in T : \A j \in T : i <= j
  <2> HIDE DEF T
  <2> QED BY <1>3, Least
<1>5. at(i).start - at(i).pregap <= lba
  <2>1. CASE i = 0
    BY <1>1, <1>2, <2>1
  <2>2. CASE i # 0
    <3>1. i \in 1 .. m - 1 /\ i - 1 \in 0 .. m - 1
      BY <1>1, <1>4, <2>2
    <3>2. i - 1 \notin T
      BY <1>4, <3>1
    <3>3. ~(lba <= at(i - 1).end)
      BY <3>1, <3>2
    <3>4. at(i).start - at(i).pregap = at(i - 1).end + 1
      BY <1>1, <3>1
    <3>5. QED
      BY <1>2, <3>1, <3>3, <3>4
  <2>3. QED
    BY <2>1, <2>2
<1>6. QED
  BY <1>4, <1>5 DEF Holds, at

(* What the first file stores.                                             *)
LEMMA NothingSums ==
  ASSUME NEW cue, NEW p, FilesBefore(cue, p) \ {Max(FilesBefore(cue, p))} = {}
  PROVE  FileBase(cue, p) = 0
<1> DEFINE S == FilesBefore(cue, p) \ {Max(FilesBefore(cue, p))}
           Iter(f) ==
             f = [s \in SUBSET S |->
                    IF s = {} THEN 0
                    ELSE LET x == CHOOSE x \in s : TRUE IN cue[x].size + f[s \ {x}]]
<1>1. FileBase(cue, p) = (CHOOSE f : Iter(f))[S]
  BY DEF FileBase, MapThenSumSet, MapThenFoldSet
<1> HIDE DEF S
<1>2. S = {}
  BY DEF S
<1>3. \E f : Iter(f)
  <2> DEFINE g == [s \in SUBSET S |-> 0]
  <2>1. Iter(g)
    BY <1>2
  <2>2. QED
    BY <2>1
<1>4. \A f : Iter(f) => f[S] = 0
  BY <1>2
<1> HIDE DEF Iter
<1>5. QED
  BY <1>1, <1>3, <1>4

LEMMA FirstStored ==
  ASSUME NEW cue \in Seq(CueCommands), PlainSheet(cue), NEW s \in CueStored(cue),
         s.sector.file = cue[1].file
  PROVE  s.lba \in 0 .. cue[1].size - 1 /\ s.sector = Sector(cue[1].file, s.lba, FALSE)
<1>0. PICK p \in Positions(cue, "FILE") : \E k \in 0 .. cue[p].size - 1 :
        s = [lba |-> FileBase(cue, p + 1) + k, sector |-> Sector(cue[p].file, k, FALSE)]
  BY DEF CueStored
<1>1. PICK k \in 0 .. cue[p].size - 1 :
        s = [lba |-> FileBase(cue, p + 1) + k, sector |-> Sector(cue[p].file, k, FALSE)]
  BY <1>0
<1>2. p = 1
  <2>1. cue[p].file = cue[1].file
    BY <1>1 DEF Sector
  <2>2. p \in Nat /\ ~(p > 1) /\ p > 0
    BY <2>1 DEF PlainSheet, Positions
  <2>3. QED
    BY <2>2
<1>3. FilesBefore(cue, 2) = {1}
  <2>1. 1 \in Positions(cue, "FILE") /\ \A q \in Positions(cue, "FILE") : q \in Nat \ {0}
    BY DEF PlainSheet, Positions
  <2>2. QED
    BY <2>1 DEF FilesBefore
<1>4. Max({1}) = 1
  BY DEF Max
<1>5. FileBase(cue, 2) = 0
  <2>1. FilesBefore(cue, 2) \ {Max(FilesBefore(cue, 2))} = {}
    BY <1>3, <1>4
  <2>2. QED
    BY <2>1, NothingSums DEF FileBase
<1>6. 1 + 1 = 2 /\ 0 + k = k
  BY <1>2, <1>1
<1>7. QED
  BY <1>1, <1>2, <1>5, <1>6

(* A track of a CHD file holds its frames; a run of addresses that reaches *)
(* one of them and stays in a track stays in this one.                     *)
LEMMA ChdHolder ==
  ASSUME NEW chd \in Seq(ChdRecords), NEW table \in Tables,
         Layout(table, chd, Len(chd), 1),
         NEW t \in 1 .. Len(chd), NEW k \in 0 .. chd[t].frames - 1
  PROVE  LET lba == ChdBase(chd, t) + k
         IN /\ lba \in Nat /\ t - 1 \in 0 .. table.last - 1
            /\ Holds(table.tracks[t - 1], lba)
            /\ lba + table.tracks[t - 1].offset = ChdFirst(chd, t) + k
            /\ table.tracks[t - 1].type = chd[t].type
            /\ \A i \in 0 .. table.last - 1, a \in Int :
                 /\ a <= lba /\ Holds(table.tracks[i], a)
                 /\ lba <= table.tracks[i].end
                 => i = t - 1
<1> DEFINE lba == ChdBase(chd, t) + k
           at(u) == table.tracks[u - 1]
           N == Len(chd)
           base(u) == ChdBase(chd, u)
           kept(u) == IF chd[u].pgvalid THEN 0 ELSE chd[u].pregap
<1>1. /\ N \in Nat /\ table.last = N /\ t \in Nat /\ t > 0 /\ t <= N
      /\ \A u \in 1 .. N : ChdRow(at(u), chd, N, u, 1)
      /\ table.tracks \in [0 .. MaxTracks -> TrackSet] /\ table.last <= MaxTracks
      /\ MaxTracks \in Nat
  BY CdImageAssumption DEF Layout, Tables
<1>2. ASSUME NEW u \in 1 .. N
      PROVE  /\ base(u) \in Nat /\ ChdFirst(chd, u) \in Nat /\ chd[u].frames \in Nat
             /\ NotStored(chd, u) \in Nat /\ kept(u) \in Nat
             /\ u # 1 => kept(u) = NotStored(chd, u)
             /\ u < N => base(u + 1) = base(u) + chd[u].frames + NotStored(chd, u + 1)
  <2>1. chd[u] \in ChdRecords
    OBVIOUS
  <2>2. chd[u].frames \in Nat /\ chd[u].pregap \in Nat /\ chd[u].pgvalid \in BOOLEAN
    BY <2>1 DEF ChdRecords
  <2>3. base(u) \in Nat /\ ChdFirst(chd, u) \in Nat
    BY ChdSums
  <2>4. u < N => base(u + 1) = base(u) + chd[u].frames + NotStored(chd, u + 1)
    BY ChdSums
  <2>5. QED
    BY <2>2, <2>3, <2>4 DEF NotStored
<1>3. ASSUME NEW u \in 1 .. N
      PROVE  /\ at(u).start - at(u).pregap = base(u) - kept(u)
             /\ at(u).start - at(u).pregap \in Int
             /\ u < N => at(u).end = base(u + 1) - 1
             /\ ~(u < N) => at(u).end = base(u) + chd[u].frames - 1
             /\ at(u).end \in Int
             /\ at(u).offset = ChdFirst(chd, u) - base(u)
             /\ at(u).type = chd[u].type
  <2>1. u - 1 \in 0 .. MaxTracks
    BY <1>1
  <2>2. at(u) \in TrackSet
    BY <1>1, <2>1
  <2>3. at(u).start \in Int /\ at(u).pregap \in Int /\ at(u).end \in Int
    BY <2>2 DEF TrackSet
  <2>4. ChdRow(at(u), chd, N, u, 1)
    BY <1>1
  <2>5. u < N => u + 1 \in 1 .. N
    BY <1>1
  <2>6. EndOf(chd, N, u) \in Int
    BY <1>2, <2>5 DEF EndOf
  <2>7. at(u).end + 1 = EndOf(chd, N, u)
    BY <2>4 DEF ChdRow
  <2>8. at(u).end = EndOf(chd, N, u) - 1
    BY <2>3, <2>6, <2>7
  <2>9. u < N => at(u).end = base(u + 1) - 1
    BY <2>8 DEF EndOf
  <2>10. ~(u < N) => at(u).end = base(u) + chd[u].frames - 1
    <3>1. ~(u < N) => EndOf(chd, N, u) = base(u) + chd[u].frames
      BY DEF EndOf
    <3>2. base(u) \in Nat /\ chd[u].frames \in Nat
      BY <1>2
    <3> HIDE DEF base
    <3>3. QED
      BY <2>8, <3>1, <3>2
  <2>11. /\ at(u).start - at(u).pregap = base(u) - kept(u)
         /\ at(u).offset = ChdFirst(chd, u) - base(u)
         /\ at(u).type = chd[u].type
    BY <2>4 DEF ChdRow
  <2> HIDE DEF at, base, kept
  <2>12. QED
    BY <2>3, <2>9, <2>10, <2>11
<1>4. ASSUME NEW u \in 1 .. N, NEW v \in 1 .. N, u < v
      PROVE  base(u) + chd[u].frames <= base(v) - NotStored(chd, v)
  BY <1>4, ChdOrder
<1> HIDE DEF at, kept
<1>5. /\ lba \in Nat /\ base(t) <= lba /\ lba < base(t) + chd[t].frames
  BY <1>2
<1> HIDE DEF lba, base
<1>6. at(t).start - at(t).pregap <= lba /\ lba <= at(t).end
  <2>1. at(t).start - at(t).pregap <= lba
    <3>1. kept(t) \in Nat /\ base(t) \in Nat
      BY <1>2
    <3>2. at(t).start - at(t).pregap = base(t) - kept(t)
      BY <1>3
    <3>3. QED
      BY <1>5, <3>1, <3>2
  <2>2. t < N => t + 1 \in 1 .. N
    BY <1>1
  <2>3. t < N => NotStored(chd, t + 1) \in Nat /\ base(t + 1) \in Nat
    BY <1>2, <2>2
  <2>4. lba <= at(t).end
    <3>1. base(t) \in Nat /\ chd[t].frames \in Nat
      BY <1>2
    <3>2. CASE t < N
      <4>1. at(t).end = base(t + 1) - 1
        BY <1>3, <3>2
      <4>2. base(t + 1) = base(t) + chd[t].frames + NotStored(chd, t + 1)
        BY <1>2, <3>2
      <4>3. QED
        BY <1>5, <2>3, <3>1, <3>2, <4>1, <4>2
    <3>3. CASE ~(t < N)
      <4>1. at(t).end = base(t) + chd[t].frames - 1
        BY <1>3, <3>3
      <4>2. QED
        BY <1>5, <3>1, <4>1
    <3>4. QED
      BY <3>2, <3>3
  <2>5. QED
    BY <2>1, <2>4
<1>7. ASSUME NEW u \in 1 .. N, NEW a \in Int, a <= lba,
             at(u).start - at(u).pregap <= a, lba <= at(u).end
      PROVE  u = t
  <2>1. CASE u < t
    <3>1. u < N /\ u + 1 \in 1 .. N
      BY <1>1, <2>1
    <3>2. at(u).end = base(u + 1) - 1
      BY <1>3, <3>1
    <3>3. base(u + 1) <= base(t)
      <4>1. CASE u + 1 = t
        BY <1>2, <4>1
      <4>2. CASE u + 1 # t
        <5>1. u + 1 < t
          BY <2>1, <4>2
        <5>2. base(u + 1) + chd[u + 1].frames <= base(t) - NotStored(chd, t)
          BY <1>4, <3>1, <5>1
        <5>3. base(u + 1) \in Nat /\ chd[u + 1].frames \in Nat
          BY <1>2, <3>1
        <5>4. base(t) \in Nat /\ NotStored(chd, t) \in Nat
          BY <1>2
        <5> HIDE DEF N
        <5>5. QED
          BY <5>2, <5>3, <5>4
      <4>3. QED
        BY <4>1, <4>2
    <3>4. base(u + 1) \in Nat /\ base(t) \in Nat
      BY <1>2, <3>1
    <3>5. QED
      BY <1>5, <1>7, <3>2, <3>3, <3>4
  <2>2. CASE t < u
    <3>1. base(t) + chd[t].frames <= base(u) - NotStored(chd, u)
      BY <1>4, <2>2
    <3>2. u # 1 /\ t \in 1 .. N
      BY <1>1, <2>2
    <3>3. kept(u) = NotStored(chd, u)
      BY <1>2, <3>2
    <3>4. at(u).start - at(u).pregap = base(u) - NotStored(chd, u)
      BY <1>3, <3>3
    <3>5. base(u) \in Nat /\ NotStored(chd, u) \in Nat
      BY <1>2
    <3>6. base(t) + chd[t].frames <= at(u).start - at(u).pregap
      BY <3>1, <3>4
    <3>7. at(u).start - at(u).pregap \in Int /\ base(t) \in Nat /\ chd[t].frames \in Nat
      BY <1>2, <1>3
    <3>8. at(u).start - at(u).pregap <= lba
      BY <1>5, <1>7, <3>7
    <3>9. QED
      BY <1>5, <3>6, <3>7, <3>8
  <2>3. QED
    BY <1>1, <2>1, <2>2
<1>8. lba + at(t).offset = ChdFirst(chd, t) + k
  <2>1. at(t).offset = ChdFirst(chd, t) - base(t)
    BY <1>3
  <2>2. ChdFirst(chd, t) \in Nat /\ base(t) \in Nat /\ k \in Int
    BY <1>2
  <2>3. lba = base(t) + k
    BY DEF lba, base
  <2>4. QED
    BY <2>1, <2>2, <2>3
<1>9. ASSUME NEW i \in 0 .. table.last - 1, NEW a \in Int,
             a <= lba, Holds(table.tracks[i], a), lba <= table.tracks[i].end
      PROVE  i = t - 1
  <2> DEFINE u == i + 1
  <2>1. u \in 1 .. N /\ u - 1 = i
    BY <1>1
  <2>2. at(u) = table.tracks[i]
    BY <2>1 DEF at
  <2>3. at(u).start - at(u).pregap <= a /\ lba <= at(u).end
    BY <1>9, <2>2 DEF Holds
  <2> HIDE DEF u
  <2>4. u = t
    BY <1>7, <1>9, <2>1, <2>3
  <2>5. QED
    BY <2>1, <2>4
<1>10. Holds(table.tracks[t - 1], lba) /\ table.tracks[t - 1].type = chd[t].type
  BY <1>3, <1>6 DEF Holds, at
<1>11. t - 1 \in 0 .. table.last - 1
  BY <1>1
<1>12. QED
  BY <1>5, <1>8, <1>9, <1>10, <1>11 DEF lba, base, at

(* A run of addresses that reaches a sector of the first file stays in one *)
(* of that file's tracks, which are read from where they are in it.        *)
LEMMA CueHolder ==
  ASSUME NEW table \in Tables, NEW c, c.size \in Nat, NEW m \in Nat, FirstRows(table, m, c),
         NEW a \in Nat, a < c.size, NEW i \in 0 .. table.last - 1,
         \A j \in 0 .. table.last - 1 : Holds(table.tracks[j], a) => i <= j
  PROVE  LET t == table.tracks[i]
         IN /\ t.offset # 0 \/ i = 0
            /\ t.offset + a - t.start + t.pregap = a
<1>1. m \in 1 .. table.last /\ table.last \in Nat /\ table.last <= MaxTracks /\ MaxTracks \in Nat
  BY CdImageAssumption DEF FirstRows, Tables
<1>2. a \in 0 .. c.size - 1
  OBVIOUS
<1>3. PICK j \in 0 .. m - 1 : Holds(table.tracks[j], a)
  BY <1>2, CueCovers
<1>4. i <= j
  <2>1. j \in 0 .. table.last - 1
    BY <1>1
  <2>2. QED
    BY <1>3, <2>1
<1>5. i \in 0 .. m - 1 /\ i \in 0 .. MaxTracks
  BY <1>1, <1>4
<1>6. table.tracks[i] \in TrackSet
  BY <1>5 DEF Tables
<1> DEFINE t == table.tracks[i]
<1>7. t.offset \in Int /\ t.start \in Int /\ t.pregap \in Int
  BY <1>6 DEF TrackSet
<1>8. CASE i = 0
  <2>1. t.offset = 0 /\ t.start = t.pregap
    BY <1>8 DEF FirstRows
  <2> HIDE DEF t
  <2>2. t.offset + a - t.start + t.pregap = a
    BY <1>7, <2>1
  <2>3. QED
    BY <1>8, <2>2 DEF t
<1>9. CASE i # 0
  <2>1. i \in 1 .. m - 1
    BY <1>5, <1>9
  <2>2. t.offset > 0 /\ t.start - t.pregap = t.offset
    BY <2>1 DEF FirstRows
  <2> HIDE DEF t
  <2>3. t.offset + a - t.start + t.pregap = a /\ t.offset # 0
    BY <1>7, <2>2
  <2>4. QED
    BY <2>3 DEF t
<1>10. QED
  BY <1>8, <1>9

-----------------------------------------------------------------------------
(* What reading leaves of the table: all but positions in files.           *)

Still(table, moved) ==
  /\ moved.last = table.last
  /\ \A i \in 0 .. MaxTracks :
       LET t == table.tracks[i]
           u == moved.tracks[i]
       IN /\ u.start = t.start /\ u.end = t.end /\ u.pregap = t.pregap
          /\ u.offset = t.offset /\ u.type = t.type
          /\ u.f.file = t.f.file /\ u.f.size = t.f.size

LEMMA PositionedStill ==
  ASSUME NEW table \in Tables, NEW k \in 0 .. MaxTracks, NEW pos \in Int
  PROVE  LET moved == [table EXCEPT !.tracks[k].f.pos = pos]
         IN Still(table, moved) /\ moved.tracks[k].f.pos = pos
<1> DEFINE t == table.tracks[k]
           f == [t.f EXCEPT !.pos = pos]
           u == [t EXCEPT !.f = f]
           tracks == [table.tracks EXCEPT ![k] = u]
           moved == [table EXCEPT !.tracks[k].f.pos = pos]
<1>1. table.tracks \in [0 .. MaxTracks -> TrackSet]
  BY DEF Tables
<1>2. t \in TrackSet
  BY <1>1
<1>3. t.f \in FileSet
  BY <1>2 DEF TrackSet
<1>4. moved = [table EXCEPT !.tracks = tracks]
  OBVIOUS
<1> HIDE DEF t, moved
<1>5. f.file = t.f.file /\ f.size = t.f.size /\ f.pos = pos
  BY <1>3 DEF FileSet
<1> HIDE DEF f
<1>6. /\ u.f = f /\ u.start = t.start /\ u.end = t.end /\ u.pregap = t.pregap
      /\ u.offset = t.offset /\ u.type = t.type
  BY <1>2 DEF TrackSet
<1> HIDE DEF u
<1>7. \A j \in 0 .. MaxTracks : tracks[j] = IF j = k THEN u ELSE table.tracks[j]
  BY <1>1
<1> HIDE DEF tracks
<1>8. moved.last = table.last /\ moved.tracks = tracks
  BY <1>4 DEF Tables
<1>9. tracks[k].f.pos = pos
  BY <1>5, <1>6, <1>7
<1>10. ASSUME NEW j \in 0 .. MaxTracks
       PROVE  LET v == table.tracks[j]
                  w == moved.tracks[j]
              IN /\ w.start = v.start /\ w.end = v.end /\ w.pregap = v.pregap
                 /\ w.offset = v.offset /\ w.type = v.type
                 /\ w.f.file = v.f.file /\ w.f.size = v.f.size
  <2>1. CASE j = k
    BY <1>5, <1>6, <1>7, <1>8, <2>1 DEF t
  <2>2. CASE j # k
    BY <1>7, <1>8, <2>2
  <2>3. QED
    BY <2>1, <2>2
<1>11. QED
  BY <1>8, <1>9, <1>10 DEF Still, moved

LEMMA StillRows ==
  ASSUME NEW table \in Tables, NEW moved, Still(table, moved), NEW m, NEW c,
         FirstRows(table, m, c)
  PROVE  FirstRows(moved, m, c)
<1>1. /\ m \in 1 .. table.last /\ table.last \in Nat /\ table.last <= MaxTracks
      /\ MaxTracks \in Nat
  BY CdImageAssumption DEF FirstRows, Tables
<1>2. m \in 1 .. moved.last
  BY <1>1 DEF Still
<1>3. 0 \in 0 .. MaxTracks /\ m - 1 \in 0 .. MaxTracks
  BY <1>1
<1>4. ASSUME NEW i \in 1 .. m - 1
      PROVE  /\ moved.tracks[i].offset > 0
             /\ moved.tracks[i].start - moved.tracks[i].pregap = moved.tracks[i].offset
             /\ moved.tracks[i].offset = moved.tracks[i - 1].end + 1
  <2>1. i \in 0 .. MaxTracks /\ i - 1 \in 0 .. MaxTracks
    BY <1>1
  <2>2. /\ table.tracks[i].offset > 0
        /\ table.tracks[i].start - table.tracks[i].pregap = table.tracks[i].offset
        /\ table.tracks[i].offset = table.tracks[i - 1].end + 1
    BY DEF FirstRows
  <2>3. /\ moved.tracks[i].offset = table.tracks[i].offset
        /\ moved.tracks[i].start = table.tracks[i].start
        /\ moved.tracks[i].pregap = table.tracks[i].pregap
        /\ moved.tracks[i - 1].end = table.tracks[i - 1].end
    BY <2>1 DEF Still
  <2>4. QED
    BY <2>2, <2>3
<1>5. /\ moved.tracks[0].f.file = c.file /\ moved.tracks[0].f.size = c.size
      /\ moved.tracks[0].offset = 0 /\ moved.tracks[0].start = moved.tracks[0].pregap
  BY <1>3 DEF FirstRows, Still
<1>6. moved.tracks[m - 1].end = c.size - 1
  BY <1>3 DEF FirstRows, Still
<1>7. QED
  BY <1>2, <1>4, <1>5, <1>6 DEF FirstRows

LEMMA StillHolds ==
  ASSUME NEW table \in Tables, NEW moved, Still(table, moved),
         NEW i \in 0 .. table.last - 1, NEW lba
  PROVE  /\ Holds(moved.tracks[i], lba) <=> Holds(table.tracks[i], lba)
         /\ moved.tracks[i].end = table.tracks[i].end
<1>1. i \in 0 .. MaxTracks
  BY CdImageAssumption DEF Tables
<1>2. QED
  BY <1>1 DEF Still, Holds

-----------------------------------------------------------------------------
(* What a read returns.                                                    *)

(* Images whose tables are proved right: CHD files of no more tracks than  *)
(* the table has room for, and sheets that say where the first file's      *)
(* tracks begin.                                                           *)
Sensible(image) ==
  \/ image.kind = "chd" /\ Len(image.chd) <= MaxTracks
  \/ image.kind = "cue" /\ PlainSheet(image.cue)

(* The sectors of which ReadExact says what a read returns.                *)
Claimed ==
  {s \in DiscStored : disc.kind = "chd" \/ s.sector.file = toc.tracks[0].f.file}

(* The table is that of the disc.                                          *)
TableRead ==
  /\ disc = NoDisc \/ (disc.kind \in {"cue", "chd"} /\ toc.last > 0)
  /\ disc.kind = "chd" =>
       /\ disc.chd \in Seq(ChdRecords) /\ disc.name \in Names /\ toc.chd_f = disc.name
       /\ Len(disc.chd) <= MaxTracks => Layout(toc, disc.chd, Len(disc.chd), 1)
  /\ disc.kind = "cue" =>
       /\ disc.cue \in Seq(CueCommands) /\ toc.chd_f = "NONE"
       /\ PlainSheet(disc.cue) => \E m \in Nat : FirstRows(toc, m, disc.cue[1])

(* Every sector is held by a track.                                        *)
LEMMA ClaimedHeld ==
  ASSUME toc \in Tables, TableRead, Sensible(disc), NEW s \in Claimed
  PROVE  s.lba \in Nat /\ \E i \in 0 .. toc.last - 1 : Holds(toc.tracks[i], s.lba)
<1>1. CASE disc.kind = "chd"
  <2>1. /\ disc.chd \in Seq(ChdRecords) /\ Layout(toc, disc.chd, Len(disc.chd), 1)
        /\ DOMAIN disc.chd = 1 .. Len(disc.chd)
    BY <1>1 DEF TableRead, Sensible
  <2>2. s \in ChdStored(disc)
    BY <1>1 DEF Claimed, DiscStored
  <2>3. PICK t \in 1 .. Len(disc.chd) : \E k \in 0 .. disc.chd[t].frames - 1 :
          s = [lba |-> ChdBase(disc.chd, t) + k,
               sector |-> Sector(disc.name, ChdFirst(disc.chd, t) + k,
                                 disc.chd[t].type = "AUDIO")]
    BY <2>1, <2>2 DEF ChdStored
  <2>4. PICK k \in 0 .. disc.chd[t].frames - 1 :
          s = [lba |-> ChdBase(disc.chd, t) + k,
               sector |-> Sector(disc.name, ChdFirst(disc.chd, t) + k,
                                 disc.chd[t].type = "AUDIO")]
    BY <2>3
  <2>5. s.lba = ChdBase(disc.chd, t) + k
    BY <2>4
  <2>6. /\ ChdBase(disc.chd, t) + k \in Nat /\ t - 1 \in 0 .. toc.last - 1
        /\ Holds(toc.tracks[t - 1], ChdBase(disc.chd, t) + k)
    BY <2>1, ChdHolder
  <2>7. QED
    BY <2>5, <2>6
<1>2. CASE disc.kind = "cue"
  <2>1. disc.cue \in Seq(CueCommands) /\ PlainSheet(disc.cue)
    BY <1>2 DEF TableRead, Sensible
  <2>2. PICK m \in Nat : FirstRows(toc, m, disc.cue[1])
    BY <1>2, <2>1 DEF TableRead
  <2>3. s \in CueStored(disc.cue) /\ s.sector.file = disc.cue[1].file
    BY <1>2, <2>2 DEF Claimed, DiscStored, FirstRows
  <2>4. s.lba \in 0 .. disc.cue[1].size - 1
    BY <2>1, <2>3, FirstStored
  <2>5. 1 \in DOMAIN disc.cue /\ disc.cue[1].cmd = "FILE"
    BY <2>1 DEF PlainSheet, Positions
  <2>6. disc.cue[1] \in CueCommands
    BY <2>1, <2>5
  <2>7. disc.cue[1].size \in Nat
    BY <2>5, <2>6 DEF CueCommands
  <2>8. \E i \in 0 .. m - 1 : Holds(toc.tracks[i], s.lba)
    BY <2>2, <2>4, <2>7, CueCovers
  <2>9. m <= toc.last /\ toc.last \in Nat
    BY <2>2, CdImageAssumption DEF FirstRows, Tables
  <2>10. QED
    BY <2>4, <2>7, <2>8, <2>9
<1>3. QED
  BY <1>1, <1>2 DEF Sensible

(* The frame of a CHD file that a sector is.                               *)
LEMMA ClaimedChd ==
  ASSUME toc \in Tables, TableRead, Sensible(disc), disc.kind = "chd", NEW s \in Claimed,
         NEW i \in 0 .. toc.last - 1, NEW a \in Int,
         a <= s.lba, Holds(toc.tracks[i], a), s.lba <= toc.tracks[i].end
  PROVE  s.sector = Sector(toc.chd_f, s.lba + toc.tracks[i].offset,
                           toc.tracks[i].type = "AUDIO")
<1>1. /\ disc.chd \in Seq(ChdRecords) /\ Layout(toc, disc.chd, Len(disc.chd), 1)
      /\ DOMAIN disc.chd = 1 .. Len(disc.chd) /\ toc.chd_f = disc.name
  BY DEF TableRead, Sensible
<1>2. s \in ChdStored(disc)
  BY DEF Claimed, DiscStored
<1>3. PICK t \in 1 .. Len(disc.chd) : \E k \in 0 .. disc.chd[t].frames - 1 :
        s = [lba |-> ChdBase(disc.chd, t) + k,
             sector |-> Sector(disc.name, ChdFirst(disc.chd, t) + k,
                               disc.chd[t].type = "AUDIO")]
  BY <1>1, <1>2 DEF ChdStored
<1>4. PICK k \in 0 .. disc.chd[t].frames - 1 :
        s = [lba |-> ChdBase(disc.chd, t) + k,
             sector |-> Sector(disc.name, ChdFirst(disc.chd, t) + k,
                               disc.chd[t].type = "AUDIO")]
  BY <1>3
<1>5. /\ s.lba = ChdBase(disc.chd, t) + k
      /\ s.sector = Sector(disc.name, ChdFirst(disc.chd, t) + k, disc.chd[t].type = "AUDIO")
  BY <1>4
<1>6. /\ ChdBase(disc.chd, t) + k + toc.tracks[t - 1].offset = ChdFirst(disc.chd, t) + k
      /\ toc.tracks[t - 1].type = disc.chd[t].type
  BY <1>1, ChdHolder
<1>7. \A j \in 0 .. toc.last - 1, b \in Int :
        /\ b <= ChdBase(disc.chd, t) + k /\ Holds(toc.tracks[j], b)
        /\ ChdBase(disc.chd, t) + k <= toc.tracks[j].end
        => j = t - 1
  BY <1>1, ChdHolder
<1>8. i = t - 1
  BY <1>5, <1>7
<1>9. QED
  BY <1>1, <1>5, <1>6, <1>8

(* The sector of the first file.                                           *)
LEMMA ClaimedCue ==
  ASSUME toc \in Tables, TableRead, Sensible(disc), disc.kind = "cue"
  PROVE  LET size == toc.tracks[0].f.size
         IN /\ opened(toc.tracks[0].f) /\ size \in Nat
            /\ \A s \in Claimed :
                 s.lba < size /\ s.sector = Sector(toc.tracks[0].f.file, s.lba, FALSE)
            /\ \A a \in Nat, i \in 0 .. toc.last - 1 :
                 a < size
                 /\ (\A j \in 0 .. toc.last - 1 : Holds(toc.tracks[j], a) => i <= j) =>
                   LET t == toc.tracks[i]
                   IN /\ t.offset # 0 \/ i = 0
                      /\ t.offset + a - t.start + t.pregap = a
<1>1. disc.cue \in Seq(CueCommands) /\ PlainSheet(disc.cue)
  BY DEF TableRead, Sensible
<1>2. PICK m \in Nat : FirstRows(toc, m, disc.cue[1])
  BY <1>1 DEF TableRead
<1>3. 1 \in DOMAIN disc.cue /\ disc.cue[1].cmd = "FILE"
  BY <1>1 DEF PlainSheet, Positions
<1>4. disc.cue[1] \in CueCommands
  BY <1>1, <1>3
<1>5. disc.cue[1].size \in Nat /\ disc.cue[1].file \in Names
  BY <1>3, <1>4 DEF CueCommands
<1>6. toc.tracks[0].f.file = disc.cue[1].file /\ toc.tracks[0].f.size = disc.cue[1].size
  BY <1>2 DEF FirstRows
<1>7. opened(toc.tracks[0].f)
  BY <1>5, <1>6 DEF opened, Names
<1>8. ASSUME NEW s \in Claimed
      PROVE  /\ s.lba < disc.cue[1].size
             /\ s.sector = Sector(toc.tracks[0].f.file, s.lba, FALSE)
  <2>1. s \in CueStored(disc.cue) /\ s.sector.file = disc.cue[1].file
    BY <1>6 DEF Claimed, DiscStored
  <2>2. /\ s.lba \in 0 .. disc.cue[1].size - 1
        /\ s.sector = Sector(disc.cue[1].file, s.lba, FALSE)
    BY <1>1, <2>1, FirstStored
  <2>3. QED
    BY <1>5, <1>6, <2>2
<1>9. ASSUME NEW a \in Nat, NEW i \in 0 .. toc.last - 1, a < disc.cue[1].size,
             \A j \in 0 .. toc.last - 1 : Holds(toc.tracks[j], a) => i <= j
      PROVE  LET t == toc.tracks[i]
             IN /\ t.offset # 0 \/ i = 0
                /\ t.offset + a - t.start + t.pregap = a
  BY <1>2, <1>5, <1>9, CueHolder
<1>10. QED
  BY <1>5, <1>6, <1>7, <1>8, <1>9

(* The first n slots are right.                                            *)
Filled(n) ==
  \A k \in 0 .. n - 1 : \A s \in Claimed : s.lba = asked[1] + k => buffer[k + 1] = s.sector

(* A call ReadExact is about, begun or answered.                           *)
Reading ==
  /\ Alive /\ Sensible(disc) /\ asked[2] > 0 /\ asked[1] >= 0 /\ InOneTrack /\ ~chd_failed

(* A call in a track has gone on in the track it began in, and the first   *)
(* file is where the call is.                                              *)
InTrack ==
  LET holds(j) == Holds(toc.tracks[j], asked[1])
  IN /\ holds(call.i) /\ \A j \in 0 .. toc.last - 1 : holds(j) => call.i <= j
     /\ call.lba = asked[1] + call.slot - 1 /\ call.cnt = asked[2] - call.slot + 1
     /\ call.lba <= toc.tracks[call.i].end
     /\ disc.kind = "cue" /\ call.lba < toc.tracks[0].f.size =>
          toc.tracks[0].f.pos = call.lba

(* What a call has read, by the loop it is in.                             *)
CallRead ==
  /\ call.loop = "IDLE" => Filled(asked[2])
  /\ call.loop = "OUTER" =>
       call.lba = asked[1] /\ call.cnt = asked[2] /\ call.slot = 1
  /\ call.loop = "INNER" => InTrack /\ Filled(call.slot - 1)

ReadInv ==
  /\ asked[1] \in Int /\ asked[2] \in Nat /\ TableRead
  /\ Reading => CallRead

LEMMA InitRead == Init => ReadInv
<1> SUFFICES ASSUME Init PROVE ReadInv
  OBVIOUS
<1>1. asked = <<0, 0>> /\ disc = NoDisc /\ NoDisc.kind = "none"
  BY NoDiscKind DEF Init
<1>2. TableRead
  <2>1. disc.kind # "chd" /\ disc.kind # "cue"
    BY <1>1
  <2>2. QED
    BY <1>1, <2>1 DEF TableRead
<1>3. ~Reading
  BY <1>1 DEF Reading
<1>4. QED
  BY <1>1, <1>2, <1>3 DEF ReadInv

LEMMA MountRead == ASSUME HostInv, ReadInv, pcfx_mount_cd PROVE ReadInv'
<1>1. asked' = <<0, 0>>
  BY DEF pcfx_mount_cd
<1>2. asked'[1] \in Int /\ asked'[2] \in Nat /\ ~(asked'[2] > 0)
  BY <1>1
<1>3. ~Reading'
  BY <1>2 DEF Reading
<1>4. TableRead'
  <2>1. CASE Unmounted
    <3>1. disc' = NoDisc /\ disc'.kind # "chd" /\ disc'.kind # "cue"
      BY <2>1, NoDiscKind DEF Unmounted
    <3>2. QED
      BY <3>1 DEF TableRead
  <2>2. ASSUME NEW image \in shelf, MountCue(image), ~Unmounted PROVE TableRead'
    <3>1. image.kind = "cue" /\ shelf \in Shelves
      BY <2>2 DEF MountCue, HostInv, MountOK
    <3>2. image.cue \in Seq(CueCommands)
      BY <3>1, ImageAssumption
    <3>3. /\ load_cue(image).state # "FAILED" /\ load_cue(image).toc.last > 0
          /\ disc' = image /\ toc' = load_cue(image).toc
      BY <2>2 DEF MountCue, Mounted
    <3>4. load_cue(image).toc.chd_f = "NONE"
      BY <3>2, CueLoaded DEF CueOK
    <3>5. PlainSheet(image.cue) => \E m \in Nat : FirstRows(toc', m, image.cue[1])
      <4>1. SUFFICES ASSUME PlainSheet(image.cue)
                     PROVE  \E m \in Nat : FirstRows(load_cue(image).toc, m, image.cue[1])
        BY <3>3
      <4>2. QED
        BY <3>2, <3>3, <4>1, CueFirst
    <3>6. QED
      BY <3>1, <3>2, <3>3, <3>4, <3>5 DEF TableRead
  <2>3. ASSUME NEW image \in shelf, MountChd(image), ~Unmounted PROVE TableRead'
    <3>1. image.kind = "chd" /\ shelf \in Shelves
      BY <2>3 DEF MountChd, HostInv, MountOK
    <3>2. /\ image.chd \in Seq(ChdRecords) /\ image.name \in Names
          /\ image.sph \in Nat \ {0}
      BY <3>1, ImageAssumption
    <3>3. CASE UNCHANGED mountvars
      BY <3>3 DEF mountvars, ReadInv, TableRead, Layout
    <3>4. CASE ~(UNCHANGED mountvars)
      <4>1. load_chd(image).last > 0 /\ disc' = image /\ toc' = load_chd(image)
        BY <2>3, <3>4 DEF MountChd, Mounted
      <4>2. load_chd(image).chd_f = image.name
        BY <3>2, ChdLoaded DEF ChdTable
      <4>3. Len(image.chd) <= MaxTracks => Layout(toc', image.chd, Len(image.chd), 1)
        BY <3>2, <4>1, ChdLaid
      <4>4. QED
        BY <3>1, <3>2, <4>1, <4>2, <4>3 DEF TableRead
    <3>5. QED
      BY <3>3, <3>4
  <2>4. QED
    BY <2>1, <2>2, <2>3 DEF pcfx_mount_cd, MountNothing
<1>5. QED
  BY <1>2, <1>3, <1>4 DEF ReadInv

LEMMA CallReads ==
  ASSUME HostInv, ReadInv, NEW r \in Requests, pcfx_read_cd(r[1], r[2])
  PROVE  ReadInv'
<1>1. /\ call' = Outer(r[1], r[2], 1) /\ asked' = <<r[1], r[2]>>
      /\ disc' = disc /\ toc' = toc
  BY DEF pcfx_read_cd
<1>2. r[1] \in Int /\ r[2] \in Nat \ {0}
  BY CdHostAssumption
<1>3. call' = [loop |-> "OUTER", lba |-> r[1], cnt |-> r[2], slot |-> 1, i |-> 0]
  BY <1>1, <1>2 DEF Outer
<1>4. TableRead'
  BY <1>1 DEF ReadInv, TableRead, Layout
<1>5. CallRead'
  BY <1>1, <1>3 DEF CallRead
<1>6. QED
  BY <1>1, <1>2, <1>4, <1>5 DEF ReadInv

LEMMA TocReads == ASSUME HostInv, ReadInv, ReadToc PROVE ReadInv'
<1>1. /\ call.loop = "OUTER" /\ (call.lba < 0 \/ toc.last = 0)
      /\ UNCHANGED <<shelf, mountvars, hunkvars, asked>>
  BY DEF ReadToc
<1>2. /\ disc' = disc /\ toc' = toc /\ asked' = asked /\ hunkmem' = hunkmem
      /\ chd_failed' = chd_failed
  BY <1>1 DEF mountvars, hunkvars
<1>3. TableRead'
  BY <1>2 DEF ReadInv, TableRead, Layout
<1>4. Reading' => Reading
  BY <1>2 DEF Reading, Alive, InOneTrack
<1>5. ~Reading
  <2>1. SUFFICES ASSUME Reading PROVE FALSE
    OBVIOUS
  <2>2. call.loop = "OUTER" /\ (call.lba < 0 \/ toc.last = 0)
    BY DEF ReadToc
  <2>3. call.lba = asked[1] /\ asked[1] >= 0 /\ asked[1] \in Int
    BY <2>1, <2>2 DEF ReadInv, CallRead, Reading
  <2>4. disc # NoDisc
    BY <2>1, NoDiscKind DEF Reading, Sensible
  <2>5. toc.last > 0 /\ toc.last \in Nat
    BY <2>4, CdImageAssumption DEF ReadInv, TableRead, HostInv, MountOK, Tables
  <2>6. QED
    BY <2>2, <2>3, <2>5
<1>6. QED
  BY <1>2, <1>3, <1>4, <1>5 DEF ReadInv

(* What a read leaves as it is.                                            *)
LEMMA StillRead ==
  ASSUME HostInv, ReadInv, Still(toc, toc'), toc'.chd_f = toc.chd_f,
         toc.chd_f # "NONE" => toc' = toc,
         disc' = disc, asked' = asked, hunkmem' = hunkmem
  PROVE  /\ TableRead' /\ Claimed' = Claimed
         /\ Reading' /\ ~chd_failed => Reading
<1>1. toc \in Tables /\ toc'.last = toc.last
  BY DEF HostInv, MountOK, Still
<1>2. TableRead'
  <2>1. CASE disc.kind = "chd"
    <3>1. toc' = toc
      BY <2>1 DEF ReadInv, TableRead, Names
    <3>2. QED
      BY <3>1 DEF ReadInv, TableRead, Layout
  <2>2. CASE disc.kind # "chd"
    <3>1. PlainSheet(disc.cue) /\ disc.kind = "cue" => \E m \in Nat : FirstRows(toc', m, disc.cue[1])
      <4>1. SUFFICES ASSUME PlainSheet(disc.cue), disc.kind = "cue"
                     PROVE  \E m \in Nat : FirstRows(toc', m, disc.cue[1])
        OBVIOUS
      <4>2. PICK m \in Nat : FirstRows(toc, m, disc.cue[1])
        BY <4>1 DEF ReadInv, TableRead
      <4>3. FirstRows(toc', m, disc.cue[1])
        BY <1>1, <4>2, StillRows
      <4>4. QED
        BY <4>3
    <3>2. QED
      BY <1>1, <2>2, <3>1 DEF ReadInv, TableRead
  <2>3. QED
    BY <2>1, <2>2
<1>3. Claimed' = Claimed
  <2>1. toc'.tracks[0].f.file = toc.tracks[0].f.file
    <3>1. 0 \in 0 .. MaxTracks
      BY CdImageAssumption
    <3>2. QED
      BY <3>1 DEF Still
  <2>2. DiscStored' = DiscStored
    BY DEF DiscStored
  <2>3. QED
    BY <2>1, <2>2 DEF Claimed
<1>4. InOneTrack' => InOneTrack
  <2>1. \A j \in 0 .. toc.last - 1 : \A a : Holds(toc'.tracks[j], a) <=> Holds(toc.tracks[j], a)
    BY <1>1, StillHolds
  <2>2. {j \in 0 .. toc'.last - 1 : Holds(toc'.tracks[j], asked'[1])}
          = {j \in 0 .. toc.last - 1 : Holds(toc.tracks[j], asked[1])}
    BY <1>1, <2>1
  <2>3. QED
    BY <1>1, <2>1, <2>2 DEF InOneTrack
<1>5. Reading' /\ ~chd_failed => Reading
  BY <1>4 DEF Reading, Alive
<1>6. QED
  BY <1>2, <1>3, <1>5

LEMMA FindStill ==
  ASSUME HostInv, FindTrack
  PROVE  LET found == {j \in 0 .. toc.last - 1 : Holds(toc.tracks[j], call.lba)}
             t == toc.tracks[Min(found)]
             pos == t.offset + call.lba - t.start + t.pregap
         IN /\ Still(toc, toc') /\ toc'.chd_f = toc.chd_f
            /\ found # {} =>
                 /\ Min(found) \in found /\ \A j \in found : Min(found) <= j
                 /\ toc.chd_f = "NONE" /\ opened(toc.tracks[0].f) => toc'.tracks[0].f.pos = pos
<1> DEFINE found == {j \in 0 .. toc.last - 1 : Holds(toc.tracks[j], call.lba)}
           i == Min(found)
           t == toc.tracks[i]
           pos == t.offset + call.lba - t.start + t.pregap
<1>1. /\ toc \in Tables /\ toc.last \in 0 .. MaxTracks /\ call.lba \in Int
      /\ toc.tracks \in [0 .. MaxTracks -> TrackSet]
  BY DEF HostInv, MountOK, CallOK, Tables
<1>2. Still(toc, toc)
  BY DEF Still
<1>3. toc'.chd_f = toc.chd_f
  BY FindMoves DEF Moved
<1>4. CASE found = {}
  <2>1. toc' = toc
    BY <1>4 DEF FindTrack
  <2>2. QED
    BY <1>2, <1>3, <1>4, <2>1
<1>5. CASE found # {}
  <2>1. toc' = IF toc.chd_f = "NONE" /\ opened(toc.tracks[0].f)
               THEN [toc EXCEPT !.tracks[0].f.pos = pos] ELSE toc
    BY <1>5 DEF FindTrack
  <2>2. i \in found /\ \A j \in found : i <= j
    <3>1. found \subseteq Nat
      BY <1>1
    <3> HIDE DEF found
    <3>2. QED
      BY <1>5, <3>1, MinIs
  <2>3. t \in TrackSet
    <3>1. i \in 0 .. MaxTracks
      BY <1>1, <2>2, CdImageAssumption
    <3> HIDE DEF i
    <3>2. QED
      BY <1>1, <3>1
  <2>4. pos \in Int
    <3> HIDE DEF t
    <3>1. t.offset \in Int /\ t.start \in Int /\ t.pregap \in Int
      BY <2>3 DEF TrackSet
    <3>2. QED
      BY <1>1, <3>1
  <2> HIDE DEF pos
  <2>5. PICK k \in 0 .. MaxTracks : k = 0
    BY CdImageAssumption
  <2> DEFINE moved == [toc EXCEPT !.tracks[k].f.pos = pos]
  <2>6. Still(toc, moved) /\ moved.tracks[k].f.pos = pos
    BY <1>1, <2>4, PositionedStill
  <2>7. toc' = IF toc.chd_f = "NONE" /\ opened(toc.tracks[0].f) THEN moved ELSE toc
    BY <2>1, <2>5
  <2> HIDE DEF moved
  <2>8. Still(toc, toc')
    BY <1>2, <2>6, <2>7
  <2>9. toc.chd_f = "NONE" /\ opened(toc.tracks[0].f) => toc'.tracks[0].f.pos = pos
    BY <2>5, <2>6, <2>7
  <2>10. QED
    BY <1>3, <2>2, <2>8, <2>9 DEF pos
<1>6. QED
  BY <1>4, <1>5

LEMMA FindReads == ASSUME HostInv, ReadInv, FindTrack PROVE ReadInv'
<1> DEFINE found == {j \in 0 .. toc.last - 1 : Holds(toc.tracks[j], call.lba)}
           i == Min(found)
           t == toc.tracks[i]
           pos == t.offset + call.lba - t.start + t.pregap
<1>1. /\ call.loop = "OUTER" /\ buffer' = [buffer EXCEPT ![call.slot] = Filler]
      /\ asked' = asked /\ disc' = disc /\ hunkmem' = hunkmem /\ chd_failed' = chd_failed
      /\ toc.chd_f # "NONE" => toc' = toc
  BY FindMoves DEF FindTrack, Put, hunkvars
<1>2. Still(toc, toc') /\ toc'.chd_f = toc.chd_f
  BY FindStill
<1>3. /\ TableRead' /\ Claimed' = Claimed /\ (Reading' /\ ~chd_failed => Reading)
  BY <1>1, <1>2, StillRead
<1>4. SUFFICES ASSUME Reading' PROVE CallRead'
  BY <1>1, <1>3 DEF ReadInv
<1>5. Reading /\ call.lba = asked[1] /\ call.cnt = asked[2] /\ call.slot = 1
  <2>1. Reading
    BY <1>1, <1>3, <1>4 DEF Reading
  <2>2. QED
    BY <1>1, <2>1 DEF ReadInv, CallRead
<1>6. /\ toc \in Tables /\ toc.last \in 0 .. MaxTracks /\ DOMAIN buffer = 1 .. Slots
      /\ call \in [loop : {"IDLE", "OUTER", "INNER"}, lba : Int, cnt : Nat, slot : Nat, i : Nat]
      /\ Slots \in Nat /\ call.cnt > 0 /\ call.slot + call.cnt <= Slots + 1
      /\ asked[1] \in Nat /\ asked[2] \in Nat \ {0}
  BY <1>1, <1>5 DEF HostInv, MountOK, CallOK, Tables, ReadInv, Reading
<1>7. CASE found = {}
  <2>1. asked[2] = 1
    <3>1. found = {j \in 0 .. toc.last - 1 : Holds(toc.tracks[j], asked[1])}
      BY <1>5
    <3> HIDE DEF found
    <3>2. QED
      BY <1>5, <1>7, <3>1 DEF Reading, InOneTrack
  <2>2. call' = Outer(call.lba + 1, call.cnt - 1, call.slot)
    BY <1>7 DEF FindTrack
  <2>3. call'.loop = "IDLE"
    BY <1>5, <2>1, <2>2 DEF Outer, Idle
  <2>4. Filled(asked[2])'
    <3>1. SUFFICES ASSUME NEW s \in Claimed, s.lba = asked[1] PROVE FALSE
      BY <1>1, <1>3, <1>6, <2>1 DEF Filled
    <3>2. \E j \in 0 .. toc.last - 1 : Holds(toc.tracks[j], s.lba)
      BY <1>5, <1>6, <3>1, ClaimedHeld DEF ReadInv, Reading
    <3>3. QED
      BY <1>5, <1>7, <3>1, <3>2
  <2>5. QED
    BY <2>3, <2>4 DEF CallRead
<1>8. CASE found # {}
  <2>1. call' = [call EXCEPT !.loop = "INNER", !.i = i]
    BY <1>8 DEF FindTrack
  <2>2. i \in found /\ \A j \in found : i <= j
    BY <1>8, FindStill
  <2>3. /\ call'.loop = "INNER" /\ call'.i = i /\ call'.lba = call.lba
        /\ call'.cnt = call.cnt /\ call'.slot = call.slot
    BY <1>6, <2>1
  <2>4. toc.chd_f = "NONE" /\ opened(toc.tracks[0].f) => toc'.tracks[0].f.pos = pos
    BY <1>8, FindStill
  <2>5. /\ i \in 0 .. toc.last - 1 /\ Holds(toc.tracks[i], asked[1])
        /\ \A j \in 0 .. toc.last - 1 : Holds(toc.tracks[j], asked[1]) => i <= j
    BY <1>5, <2>2
  <2>6. /\ Holds(toc'.tracks[i], asked[1]) /\ toc'.tracks[i].end = toc.tracks[i].end
        /\ \A j \in 0 .. toc'.last - 1 : Holds(toc'.tracks[j], asked[1]) => i <= j
    <3> HIDE DEF i
    <3>1. toc'.last = toc.last
      BY <1>2 DEF Still
    <3>2. QED
      BY <1>2, <1>6, <2>5, <3>1, StillHolds
  <2>7. ASSUME disc.kind = "cue", call.lba < toc'.tracks[0].f.size
        PROVE  toc'.tracks[0].f.pos = call.lba
    <3>1. toc'.tracks[0].f.size = toc.tracks[0].f.size
      <4>1. 0 \in 0 .. MaxTracks
        BY CdImageAssumption
      <4>2. QED
        BY <1>2, <4>1 DEF Still
    <3>2. opened(toc.tracks[0].f) /\ toc.chd_f = "NONE"
      BY <1>5, <1>6, <2>7, ClaimedCue DEF ReadInv, Reading, TableRead
    <3>3. t.offset + asked[1] - t.start + t.pregap = asked[1]
      <4> HIDE DEF i
      <4>1. QED
        BY <1>5, <1>6, <2>5, <2>7, <3>1, ClaimedCue DEF ReadInv, Reading
    <3>4. pos = call.lba
      BY <1>5, <3>3
    <3>5. QED
      BY <2>4, <3>2, <3>4
  <2>8. call'.lba <= toc'.tracks[call'.i].end
    <3>1. asked[1] <= toc.tracks[i].end
      BY <2>5 DEF Holds
    <3>2. QED
      BY <1>5, <2>3, <2>6, <3>1
  <2>9. InTrack'
    <3>1. call'.lba = asked[1] + call'.slot - 1 /\ call'.cnt = asked[2] - call'.slot + 1
      BY <1>5, <1>6, <2>3
    <3> HIDE DEF i
    <3>2. QED
      BY <1>1, <2>3, <2>6, <2>7, <2>8, <3>1 DEF InTrack
  <2>10. Filled(call.slot - 1)'
    BY <1>5, <2>3 DEF Filled
  <2>11. QED
    BY <2>3, <2>9, <2>10 DEF CallRead
<1>9. QED
  BY <1>7, <1>8

(* On in the track, or out of it at the end of the request.                *)
LEMMA SectorReads ==
  ASSUME HostInv, ReadInv, Reading, call.loop = "INNER", call' = NextSector,
         Still(toc, toc'), Claimed' = Claimed, asked' = asked, disc' = disc,
         \A k \in 1 .. Slots : k # call.slot => buffer'[k] = buffer[k],
         \A s \in Claimed : s.lba = call.lba => buffer'[call.slot] = s.sector,
         disc.kind = "cue" /\ call.lba + 1 < toc.tracks[0].f.size =>
           toc'.tracks[0].f.pos = call.lba + 1
  PROVE  CallRead'
<1> DEFINE i == call.i
           holds(j) == Holds(toc.tracks[j], asked[1])
<1>1. /\ toc \in Tables /\ toc.last \in 0 .. MaxTracks /\ toc'.last = toc.last
      /\ call \in [loop : {"IDLE", "OUTER", "INNER"}, lba : Int, cnt : Nat, slot : Nat, i : Nat]
      /\ Slots \in Nat /\ call.cnt > 0 /\ call.slot > 0 /\ call.slot + call.cnt <= Slots + 1
      /\ asked[1] \in Nat /\ asked[2] \in Nat \ {0} /\ i \in 0 .. toc.last - 1
  BY DEF HostInv, MountOK, CallOK, Tables, ReadInv, Reading, Still
<1>2. InTrack /\ Filled(call.slot - 1)
  BY DEF ReadInv, CallRead
<1>3. /\ holds(i) /\ \A j \in 0 .. toc.last - 1 : holds(j) => i <= j
      /\ call.lba = asked[1] + call.slot - 1 /\ call.cnt = asked[2] - call.slot + 1
      /\ call.lba <= toc.tracks[i].end
  BY <1>2 DEF InTrack
<1>4. ASSUME NEW k \in 0 .. call.slot - 1, NEW s \in Claimed, s.lba = asked[1] + k
      PROVE  buffer'[k + 1] = s.sector
  <2>1. CASE k = call.slot - 1
    <3>1. s.lba = call.lba /\ k + 1 = call.slot
      BY <1>1, <1>3, <1>4, <2>1
    <3>2. QED
      BY <3>1
  <2>2. CASE k # call.slot - 1
    <3>1. k \in 0 .. (call.slot - 1) - 1 /\ k + 1 \in 1 .. Slots /\ k + 1 # call.slot
      BY <1>1, <2>2
    <3>2. buffer[k + 1] = s.sector
      BY <1>2, <1>4, <3>1 DEF Filled
    <3>3. QED
      BY <3>1, <3>2
  <2>3. QED
    BY <2>1, <2>2
<1>5. call.lba + 1 > toc.tracks[i].end => call.cnt = 1
  <2>1. SUFFICES ASSUME call.lba + 1 > toc.tracks[i].end, asked[2] # 1 PROVE call.cnt = 1
    BY <1>1, <1>3
  <2> DEFINE found == {j \in 0 .. toc.last - 1 : holds(j)}
  <2>2. PICK f \in found : f = Min(found) /\ Holds(toc.tracks[f], asked[1] + asked[2] - 1)
    BY <2>1 DEF Reading, InOneTrack
  <2>3. found \subseteq Nat /\ i \in found /\ \A j \in found : i <= j
    BY <1>1, <1>3
  <2>4. Min(found) <= i
    <3> HIDE DEF found
    <3>1. QED
      BY <2>2, <2>3, MinIs
  <2>5. f = i
    <3>1. f \in Nat /\ i \in Nat /\ i <= f /\ f <= i
      BY <1>1, <2>2, <2>3, <2>4
    <3>2. QED
      BY <3>1
  <2>6. asked[1] + asked[2] - 1 <= toc.tracks[i].end
    BY <2>2, <2>5 DEF Holds
  <2>7. i \in 0 .. MaxTracks
    BY <1>1, CdImageAssumption
  <2>8. toc.tracks[i] \in TrackSet
    BY <1>1, <2>7 DEF Tables
  <2>9. toc.tracks[i].end \in Int
    BY <2>8 DEF TrackSet
  <2> HIDE DEF i
  <2>10. QED
    BY <1>1, <1>3, <2>1, <2>6, <2>9
<1>6. CASE call.cnt = 1
  <2>1. call' = Idle
    <3>1. call.lba + 1 > toc.tracks[i].end => call' = Outer(call.lba + 1, 0, call.slot)
      BY <1>6 DEF NextSector
    <3>2. QED
      BY <1>6, <3>1 DEF NextSector, Outer
  <2>2. asked[2] = call.slot
    BY <1>1, <1>3, <1>6
  <2>3. Filled(asked[2])'
    BY <1>4, <2>2 DEF Filled
  <2>4. QED
    BY <2>1, <2>3 DEF CallRead, Idle
<1>7. CASE call.cnt # 1
  <2>1. call' = [call EXCEPT !.lba = @ + 1, !.cnt = @ - 1, !.slot = @ + 1]
    BY <1>5, <1>7 DEF NextSector
  <2>2. /\ call'.loop = "INNER" /\ call'.i = i /\ call'.lba = call.lba + 1
        /\ call'.cnt = call.cnt - 1 /\ call'.slot = call.slot + 1
    BY <1>1, <2>1
  <2>3. Filled(call.slot - 1)'
    <3>1. call'.slot - 1 = call.slot
      BY <1>1, <2>2
    <3>2. QED
      BY <1>4, <3>1 DEF Filled
  <2>4. /\ Holds(toc'.tracks[i], asked[1]) /\ toc'.tracks[i].end = toc.tracks[i].end
        /\ \A j \in 0 .. toc'.last - 1 : Holds(toc'.tracks[j], asked[1]) => i <= j
    BY <1>1, <1>3, StillHolds
  <2>5. toc'.tracks[0].f.size = toc.tracks[0].f.size
    <3>1. 0 \in 0 .. MaxTracks
      BY CdImageAssumption
    <3>2. QED
      BY <3>1 DEF Still
  <2>6. call.lba + 1 <= toc.tracks[i].end
    <3>1. i \in 0 .. MaxTracks
      BY <1>1, CdImageAssumption
    <3>2. toc.tracks[i] \in TrackSet
      BY <1>1, <3>1 DEF Tables
    <3>3. toc.tracks[i].end \in Int
      BY <3>2 DEF TrackSet
    <3>4. ~(call.lba + 1 > toc.tracks[i].end)
      BY <1>5, <1>7
    <3> HIDE DEF i
    <3>5. QED
      BY <1>1, <3>3, <3>4
  <2>7. /\ call'.lba = asked[1] + call'.slot - 1 /\ call'.cnt = asked[2] - call'.slot + 1
    BY <1>1, <1>3, <2>2
  <2>8. InTrack'
    <3> HIDE DEF i
    <3>1. QED
      BY <2>2, <2>4, <2>5, <2>6, <2>7 DEF InTrack
  <2>9. QED
    BY <2>2, <2>3, <2>8 DEF CallRead
<1>8. QED
  BY <1>6, <1>7

LEMMA FileStill ==
  ASSUME HostInv, ReadFile
  PROVE  LET k == IF toc.tracks[call.i].offset # 0 THEN 0 ELSE call.i
             f == toc.tracks[k].f
         IN /\ Still(toc, toc')
            /\ opened(f) /\ f.pos < f.size => toc'.tracks[k].f.pos = f.pos + 1
<1> DEFINE k == IF toc.tracks[call.i].offset # 0 THEN 0 ELSE call.i
           f == toc.tracks[k].f
<1>1. toc \in Tables /\ toc.last \in 0 .. MaxTracks /\ call.i \in 0 .. toc.last - 1
  BY DEF ReadFile, HostInv, MountOK, CallOK, Tables
<1>2. toc \in Tables /\ k \in 0 .. MaxTracks
  BY <1>1, CdImageAssumption
<1>3. k \in 0 .. MaxTracks
  BY <1>2
<1>4. \/ /\ opened(f) /\ f.pos < f.size
         /\ toc' = [toc EXCEPT !.tracks[k].f.pos = f.pos + 1]
      \/ ~(opened(f) /\ f.pos < f.size) /\ toc' = toc
  BY DEF ReadFile
<1>5. Still(toc, toc') /\ (opened(f) /\ f.pos < f.size => toc'.tracks[k].f.pos = f.pos + 1)
  <2> HIDE DEF k
  <2>1. toc.tracks[k] \in TrackSet
    BY <1>2, <1>3 DEF Tables
  <2>2. f.pos + 1 \in Int
    BY <2>1 DEF TrackSet, FileSet
  <2> DEFINE pos == f.pos + 1
  <2> HIDE DEF pos
  <2>3. LET moved == [toc EXCEPT !.tracks[k].f.pos = pos]
        IN Still(toc, moved) /\ moved.tracks[k].f.pos = pos
    BY <1>2, <1>3, <2>2, PositionedStill DEF pos
  <2>4. Still(toc, toc)
    BY DEF Still
  <2>5. opened(f) /\ f.pos < f.size => toc' = [toc EXCEPT !.tracks[k].f.pos = pos]
    BY <1>4 DEF pos
  <2>6. ~(opened(f) /\ f.pos < f.size) => toc' = toc
    BY <1>4
  <2>7. QED
    BY <2>3, <2>4, <2>5, <2>6 DEF pos
<1>6. QED
  BY <1>5

LEMMA FileReads == ASSUME HostInv, ReadInv, ReadFile PROVE ReadInv'
<1> DEFINE k == IF toc.tracks[call.i].offset # 0 THEN 0 ELSE call.i
           f == toc.tracks[k].f
           size == toc.tracks[0].f.size
<1>1. /\ call.loop = "INNER" /\ toc.chd_f = "NONE" /\ call' = NextSector
      /\ asked' = asked /\ disc' = disc /\ hunkmem' = hunkmem /\ chd_failed' = chd_failed
      /\ \A j \in 1 .. Slots : j # call.slot => buffer'[j] = buffer[j]
  <2>1. DOMAIN buffer = 1 .. Slots
    BY DEF HostInv
  <2>2. QED
    BY <2>1 DEF ReadFile, Put, hunkvars
<1>2. /\ toc \in Tables /\ toc.last \in 0 .. MaxTracks /\ call.i \in 0 .. toc.last - 1
      /\ DOMAIN buffer = 1 .. Slots /\ call.slot \in 1 .. Slots /\ call.lba \in Int
  BY <1>1 DEF HostInv, MountOK, CallOK, Tables
<1>3. k \in 0 .. MaxTracks
  BY <1>2, CdImageAssumption
<1>4. \/ /\ opened(f) /\ f.pos < f.size
         /\ buffer' = [buffer EXCEPT ![call.slot] = Sector(f.file, f.pos, FALSE)]
         /\ toc' = [toc EXCEPT !.tracks[k].f.pos = f.pos + 1]
      \/ /\ ~(opened(f) /\ f.pos < f.size)
         /\ toc' = toc /\ buffer' = buffer
  BY DEF ReadFile, Put
<1>5. Still(toc, toc') /\ (opened(f) /\ f.pos < f.size => toc'.tracks[k].f.pos = f.pos + 1)
  BY <1>1, FileStill
<1>6. toc'.chd_f = toc.chd_f
  BY FileMoves DEF Moved
<1>7. TableRead' /\ Claimed' = Claimed /\ (Reading' /\ ~chd_failed => Reading)
  BY <1>1, <1>5, <1>6, StillRead
<1>8. SUFFICES ASSUME Reading' PROVE CallRead'
  BY <1>1, <1>7 DEF ReadInv
<1>9. Reading
  BY <1>1, <1>7, <1>8 DEF Reading
<1>10. InTrack /\ TableRead /\ Sensible(disc) /\ asked[1] \in Nat
  BY <1>1, <1>9 DEF ReadInv, CallRead, Reading
<1>11. disc.kind = "cue"
  BY <1>1, <1>10 DEF TableRead, Sensible, Names
<1>12. asked[1] <= call.lba
  BY <1>1, <1>2, <1>10 DEF InTrack, HostInv, CallOK
<1>13. ASSUME call.lba < size
       PROVE  /\ k = 0 /\ opened(f) /\ f.pos = call.lba /\ f.pos < f.size
  <2>1. size \in Nat /\ opened(toc.tracks[0].f)
    BY <1>2, <1>10, <1>11, ClaimedCue
  <2>2. asked[1] < size
    BY <1>2, <1>10, <1>12, <1>13, <2>1
  <2>3. \A j \in 0 .. toc.last - 1 : Holds(toc.tracks[j], asked[1]) => call.i <= j
    BY <1>10 DEF InTrack
  <2>4. toc.tracks[call.i].offset # 0 \/ call.i = 0
    BY <1>2, <1>10, <1>11, <2>2, <2>3, ClaimedCue
  <2>5. k = 0
    BY <2>4
  <2>6. toc.tracks[0].f.pos = call.lba
    BY <1>10, <1>11, <1>13 DEF InTrack
  <2>7. QED
    BY <1>13, <2>1, <2>5, <2>6
<1> HIDE DEF k
<1>14. ASSUME NEW s \in Claimed, s.lba = call.lba
       PROVE  buffer'[call.slot] = s.sector
  <2>1. s.lba < size /\ s.sector = Sector(toc.tracks[0].f.file, s.lba, FALSE)
    BY <1>2, <1>10, <1>11, ClaimedCue
  <2>2. k = 0 /\ opened(f) /\ f.pos = call.lba /\ f.pos < f.size
    BY <1>13, <1>14, <2>1
  <2>3. buffer' = [buffer EXCEPT ![call.slot] = Sector(f.file, f.pos, FALSE)]
    BY <1>4, <2>2
  <2>4. QED
    BY <1>2, <1>14, <2>1, <2>2, <2>3
<1>15. ASSUME call.lba + 1 < size PROVE toc'.tracks[0].f.pos = call.lba + 1
  <2>1. size \in Nat
    BY <1>2, <1>10, <1>11, ClaimedCue
  <2>2. call.lba < size
    BY <1>2, <1>15, <2>1
  <2>3. k = 0 /\ opened(f) /\ f.pos = call.lba /\ f.pos < f.size
    BY <1>13, <2>2
  <2>4. QED
    BY <1>5, <2>3
<1>16. QED
  BY <1>1, <1>5, <1>7, <1>9, <1>14, <1>15, SectorReads

LEMMA ChdReads == ASSUME HostInv, ReadInv, ReadChd PROVE ReadInv'
<1>1. /\ call.loop = "INNER" /\ toc.chd_f # "NONE" /\ call' = NextSector
      /\ asked' = asked /\ disc' = disc /\ toc' = toc
  BY DEF ReadChd, mountvars
<1>2. /\ toc \in Tables /\ toc.last \in 0 .. MaxTracks /\ call.i \in 0 .. toc.last - 1
      /\ DOMAIN buffer = 1 .. Slots /\ call.slot \in 1 .. Slots /\ call.lba \in Int
      /\ Hunk \in Nat
  BY <1>1, HunkType DEF HostInv, MountOK, CallOK, Tables
<1>3. Still(toc, toc') /\ toc'.chd_f = toc.chd_f
  BY <1>1 DEF Still
<1>4. CASE ChdReadFails
  <2>1. ~Reading' /\ hunkmem' = hunkmem
    BY <1>4 DEF ChdReadFails, Reading
  <2>2. TableRead'
    BY <1>1, <1>3, <2>1, StillRead
  <2>3. QED
    BY <1>1, <2>1, <2>2 DEF ReadInv
<1>5. CASE ChdReadDone
  <2>1. /\ hunknum' = Hunk /\ hunkmem' = hunkmem /\ chd_failed' = chd_failed
        /\ buffer' = [buffer EXCEPT ![call.slot] = FromHunk(hunkdata')]
    BY <1>5 DEF ChdReadDone, Put
  <2>2. TableRead' /\ Claimed' = Claimed /\ (Reading' /\ ~chd_failed => Reading)
    BY <1>1, <1>3, <2>1, StillRead
  <2>3. SUFFICES ASSUME Reading' PROVE CallRead'
    BY <1>1, <2>2 DEF ReadInv
  <2>4. Reading
    BY <2>1, <2>2, <2>3 DEF Reading
  <2>5. hunkdata' = [name |-> toc.chd_f, hunk |-> Hunk]
    <3>1. CacheTrue'
      BY ChdHost DEF HostInv
    <3>2. QED
      BY <1>1, <1>2, <2>1, <2>3, <3>1 DEF CacheTrue, Reading
  <2>6. FromHunk(hunkdata') = Sector(toc.chd_f, ChdFrame, toc.tracks[call.i].type = "AUDIO")
    <3>1. hunkdata' # Junk
      BY <1>1, <2>5 DEF Junk
    <3>2. FromHunk(hunkdata') = Sector(toc.chd_f, Hunk * toc.sph + HunkOffset,
                                       toc.tracks[call.i].type = "AUDIO")
      BY <2>5, <3>1 DEF FromHunk
    <3>3. Hunk * toc.sph + HunkOffset = ChdFrame
      <4>1. toc.sph \in Nat \ {0}
        BY <1>2 DEF Tables
      <4>2. ChdFrame \in Int
        <5>1. call.i \in 0 .. MaxTracks
          BY <1>2, CdImageAssumption
        <5>2. toc.tracks[call.i] \in TrackSet
          BY <1>2, <5>1 DEF Tables
        <5>3. toc.tracks[call.i].offset \in Int
          BY <5>2 DEF TrackSet
        <5>4. QED
          BY <1>2, <5>3 DEF ChdFrame
      <4>3. QED
        BY <4>1, <4>2 DEF Hunk, HunkOffset
    <3>4. QED
      BY <3>2, <3>3
  <2>7. InTrack /\ Sensible(disc) /\ TableRead /\ asked[1] \in Nat
    BY <1>1, <2>4 DEF ReadInv, CallRead, Reading
  <2>8. disc.kind = "chd"
    BY <1>1, <2>7 DEF TableRead, Sensible
  <2>9. ASSUME NEW s \in Claimed, s.lba = call.lba
        PROVE  buffer'[call.slot] = s.sector
    <3>1. /\ Holds(toc.tracks[call.i], asked[1]) /\ call.lba <= toc.tracks[call.i].end
          /\ asked[1] <= call.lba
      BY <1>1, <1>2, <2>7 DEF InTrack, HostInv, CallOK
    <3>2. s.sector = Sector(toc.chd_f, s.lba + toc.tracks[call.i].offset,
                            toc.tracks[call.i].type = "AUDIO")
      BY <1>2, <2>7, <2>8, <2>9, <3>1, ClaimedChd
    <3>3. s.sector = Sector(toc.chd_f, ChdFrame, toc.tracks[call.i].type = "AUDIO")
      BY <2>9, <3>2 DEF ChdFrame
    <3>4. QED
      BY <1>2, <2>1, <2>6, <3>3
  <2>10. \A j \in 1 .. Slots : j # call.slot => buffer'[j] = buffer[j]
    BY <1>2, <2>1
  <2>11. QED
    BY <1>1, <1>3, <2>2, <2>4, <2>8, <2>9, <2>10, SectorReads
<1>6. QED
  BY <1>4, <1>5 DEF ReadChd

LEMMA StepRead == HostInv /\ ReadInv /\ [Next]_vars => ReadInv'
<1> SUFFICES ASSUME HostInv, ReadInv, [Next]_vars PROVE ReadInv'
  OBVIOUS
<1>1. CASE pcfx_mount_cd
  BY <1>1, MountRead
<1>2. CASE \E r \in Requests : pcfx_read_cd(r[1], r[2])
  BY <1>2, CallReads
<1>3. CASE ReadToc
  BY <1>3, TocReads
<1>4. CASE FindTrack
  BY <1>4, FindReads
<1>5. CASE ReadFile
  BY <1>5, FileReads
<1>6. CASE ReadChd
  BY <1>6, ChdReads
<1>7. CASE UNCHANGED vars
  <2>1. /\ toc' = toc /\ disc' = disc /\ asked' = asked /\ hunkmem' = hunkmem
        /\ chd_failed' = chd_failed /\ call' = call /\ buffer' = buffer
    BY <1>7 DEF vars, mountvars, hunkvars
  <2>2. Still(toc, toc')
    BY <2>1 DEF Still
  <2>3. TableRead' /\ Claimed' = Claimed /\ (Reading' /\ ~chd_failed => Reading)
    BY <2>1, <2>2, StillRead
  <2>4. Reading' => Reading
    BY <2>1, <2>3 DEF Reading
  <2>5. CallRead => CallRead'
    BY <2>1, <2>3 DEF CallRead, Filled, InTrack
  <2>6. QED
    BY <2>1, <2>3, <2>4, <2>5 DEF ReadInv
<1>8. QED
  BY <1>1, <1>2, <1>3, <1>4, <1>5, <1>6, <1>7 DEF Next

(* A read returns the sectors the disc has at those addresses, whatever    *)
(* was mounted and read before it, for any images, any number of tracks    *)
(* and any request: of a CHD file that has no more tracks than the table,  *)
(* every sector; of a sheet that says where the first file's tracks begin, *)
(* every sector of that file (pcfx_read_cd, mister_chd_read_sector).       *)
THEOREM ReadsAreExact == Spec => [](Sensible(disc) => ReadExact)
<1>1. HostInv /\ ReadInv => (Sensible(disc) => ReadExact)
  <2> SUFFICES ASSUME ReadInv, Sensible(disc), Answered, asked[1] >= 0, InOneTrack, ~chd_failed
               PROVE  SectorsAre(Claimed)
    BY DEF ReadExact, Claimed
  <2>1. Filled(asked[2])
    BY DEF ReadInv, Reading, Answered, CallRead
  <2>2. QED
    BY <2>1 DEF Filled, SectorsAre
<1>2. Init => HostInv /\ ReadInv
  BY InitHost, InitRead
<1>3. (HostInv /\ ReadInv) /\ [Next]_vars => (HostInv /\ ReadInv)'
  BY StepHost, StepRead
<1>4. QED
  BY <1>1, <1>2, <1>3, PTL DEF Spec

-----------------------------------------------------------------------------
(* The table of contents.                                                  *)

(* Addresses from here on have a minute that does not fit a byte.          *)
MsfEnd == 1151850

LEMMA MsfParts ==
  ASSUME NEW n \in Nat, n <= 1151999
  PROVE  ((n \div 4500) * 60 + (n % 4500) \div 75) * 75 + (n % 75) = n
<1> DEFINE q == n \div 4500
           r == n % 4500
           s == r \div 75
           f == n % 75
<1>1. q \in Int /\ r \in Nat /\ n = 4500 * q + r
  BY SMT
<1>2. s \in Int /\ f \in Int /\ r % 75 = f
  BY SMT
<1>3. r = 75 * s + (r % 75)
  <2> HIDE DEF r, f
  <2>1. QED
    BY SMT, <1>1
<1> HIDE DEF q, r, s, f
<1>4. (q * 60 + s) * 75 + f = n
  BY SMT, <1>1, <1>2, <1>3
<1>5. QED
  BY <1>4 DEF q, r, s, f

LEMMA MsfExact ==
  ASSUME NEW lba \in Nat, lba < MsfEnd
  PROVE  LET a == lba_to_msf(lba) IN (a.m * 60 + a.s) * 75 + a.f - 150 = lba
<1>1. lba < 1151850
  BY SMT DEF MsfEnd
<1>2. PICK n \in Nat : n = lba + 150
  OBVIOUS
<1>3. n <= 1151999 /\ lba = n - 150
  BY SMT, <1>1, <1>2
<1>4. (n \div 4500) % 256 = n \div 4500
  BY SMT, <1>3
<1>5. lba_to_msf(lba) = [m |-> n \div 4500, s |-> (n % 4500) \div 75, f |-> n % 75]
  BY <1>2, <1>4 DEF lba_to_msf
<1>6. ((n \div 4500) * 60 + (n % 4500) \div 75) * 75 + (n % 75) - 150 = lba
  BY SMT, <1>3, MsfParts
<1>7. QED
  BY <1>5, <1>6

LEMMA SwappedControl == Swapped(1) = 16 /\ Swapped(65) = 20
BY DEF Swapped

(* The tracks of a table, each at an address that has a minute.            *)
TrackList(table) ==
  {[number |-> t, audio |-> table.tracks[t - 1].type = "AUDIO",
    start |-> table.tracks[t - 1].start] : t \in 1 .. table.last}

Timed(table) ==
  \A t \in 1 .. table.last : /\ table.tracks[t - 1].start \in Nat
                             /\ table.tracks[t - 1].start < MsfEnd

(* The reply lists the tracks of a table.                                  *)
LEMMA Listed ==
  ASSUME NEW table \in Tables, NEW from \in Int, table.last > 0, Timed(table)
  PROVE  LET tracks == TrackList(table)
             reply == toc_data(prepare_toc_buffer(table), from)
             listed == {[number |-> reply.descs[k].track,
                         audio |-> reply.descs[k].control = 16,
                         start |-> LET a == reply.descs[k].msf
                                   IN (a.m * 60 + a.s) * 75 + a.f - 150]
                        : k \in DOMAIN reply.descs}
         IN /\ listed = {t \in tracks : t.number >= from}
            /\ reply.length = 2 + 8 * Cardinality(tracks)
            /\ reply.first = 1 /\ reply.last = Cardinality(tracks)
<1> DEFINE n == table.last
           row(t) == table.tracks[t - 1]
           track(t) == [number |-> t, audio |-> row(t).type = "AUDIO", start |-> row(t).start]
           tracks == {track(t) : t \in 1 .. n}
           entry(t) == [control |-> IF row(t).type = "AUDIO" THEN 1 ELSE 65, track |-> t,
                        msf |-> lba_to_msf(row(t).start)]
           entries == [t \in 1 .. n |-> entry(t)]
           later == {k \in 1 .. n : entries[k].track >= from} \cup {n + 1}
           first == Min(later)
           desc(e) == [e EXCEPT !.control = Swapped(@)]
           descs == [i \in 1 .. n + 1 - first |-> desc(entries[first + i - 1])]
           told(d) == [number |-> d.track, audio |-> d.control = 16,
                       start |-> LET a == d.msf IN (a.m * 60 + a.s) * 75 + a.f - 150]
           reply == toc_data(prepare_toc_buffer(table), from)
<1>1. n \in Nat \ {0}
  BY CdImageAssumption DEF Tables
<1>2. prepare_toc_buffer(table) = entries
  BY DEF prepare_toc_buffer
<1>3. Len(entries) = n
  BY <1>1
<1>4. /\ reply.length = 2 + 8 * n /\ reply.first = entries[1].track
      /\ reply.last = entries[n].track /\ reply.descs = descs
  <2> HIDE DEF entries
  <2>1. QED
    BY <1>2, <1>3 DEF toc_data
<1>5. entries[1].track = 1 /\ entries[n].track = n
  BY <1>1
<1>6. /\ \A k \in 1 .. n : entries[k].track = k
      /\ \A k \in 1 .. n : entries[k] = entry(k)
  OBVIOUS
<1> HIDE DEF entries
<1>7. first \in 1 .. n + 1 /\ \A k \in 1 .. n : k >= first <=> k >= from
  <2>1. later \subseteq Nat /\ later # {}
    BY <1>1
  <2>2. first \in later /\ \A k \in later : first <= k
    <3> HIDE DEF later
    <3>1. QED
      BY <2>1, MinIs
  <2>3. first \in 1 .. n + 1
    BY <1>1, <2>2
  <2>4. ASSUME NEW k \in 1 .. n, k >= from PROVE k >= first
    <3>1. k \in later
      BY <1>6, <2>4
    <3> HIDE DEF first, later
    <3>2. first <= k
      BY <2>2, <3>1
    <3>3. QED
      BY <2>3, <3>2
  <2>5. ASSUME NEW k \in 1 .. n, k >= first PROVE k >= from
    <3>1. first # n + 1
      <4> HIDE DEF first
      <4> QED BY <1>1, <2>3, <2>5
    <3>2. first \in 1 .. n /\ entries[first].track >= from
      BY <2>2, <2>3, <3>1
    <3>3. first >= from
      <4> HIDE DEF first
      <4> QED BY <1>6, <3>2
    <3> HIDE DEF first
    <3>4. QED
      BY <2>3, <2>5, <3>3
  <2>6. QED
    <3> HIDE DEF first
    <3> QED BY <2>3, <2>4, <2>5
<1> HIDE DEF first
<1>8. ASSUME NEW t \in 1 .. n PROVE told(desc(entry(t))) = track(t)
  <2>1. /\ desc(entry(t)).track = t /\ desc(entry(t)).msf = lba_to_msf(row(t).start)
        /\ desc(entry(t)).control = Swapped(IF row(t).type = "AUDIO" THEN 1 ELSE 65)
    OBVIOUS
  <2>2. (desc(entry(t)).control = 16) = (row(t).type = "AUDIO")
    <3>1. CASE row(t).type = "AUDIO"
      BY <2>1, <3>1, SwappedControl
    <3>2. CASE row(t).type # "AUDIO"
      BY <2>1, <3>2, SwappedControl
    <3>3. QED
      BY <3>1, <3>2
  <2> DEFINE a == desc(entry(t)).msf
  <2>3. (a.m * 60 + a.s) * 75 + a.f - 150 = row(t).start
    <3>1. row(t).start \in Nat /\ row(t).start < MsfEnd
      BY DEF Timed
    <3>2. a = lba_to_msf(row(t).start)
      BY <2>1
    <3> HIDE DEF a, row
    <3>3. QED
      BY <3>1, <3>2, MsfExact
  <2> HIDE DEF desc, entry, row
  <2>4. QED
    BY <2>1, <2>2, <2>3
<1>9. {told(descs[k]) : k \in DOMAIN descs} = {t \in tracks : t.number >= from}
  <2>1. DOMAIN descs = 1 .. n + 1 - first
    OBVIOUS
  <2>2. ASSUME NEW k \in 1 .. n + 1 - first
        PROVE  /\ first + k - 1 \in 1 .. n /\ first + k - 1 >= from
               /\ descs[k] = desc(entry(first + k - 1))
    <3>1. first + k - 1 \in 1 .. n /\ first + k - 1 >= first
      BY <1>1, <1>7
    <3>2. first + k - 1 >= from
      BY <1>7, <3>1
    <3>3. descs[k] = desc(entries[first + k - 1])
      OBVIOUS
    <3> HIDE DEF desc, entry
    <3>4. QED
      BY <1>6, <3>1, <3>2, <3>3
  <2>3. ASSUME NEW t \in 1 .. n, t >= from
        PROVE  t - first + 1 \in 1 .. n + 1 - first /\ first + (t - first + 1) - 1 = t
    BY <1>1, <1>7, <2>3
  <2>4. \A t : track(t).number = t
    OBVIOUS
  <2> HIDE DEF descs, told, desc, entry, track
  <2>5. ASSUME NEW k \in DOMAIN descs PROVE told(descs[k]) \in {t \in tracks : t.number >= from}
    <3>1. k \in 1 .. n + 1 - first
      BY <2>1
    <3>2. told(descs[k]) = track(first + k - 1)
      BY <1>8, <2>2, <3>1
    <3>3. QED
      BY <2>2, <2>4, <3>1, <3>2
  <2>6. ASSUME NEW x \in tracks, x.number >= from PROVE \E k \in DOMAIN descs : x = told(descs[k])
    <3>1. PICK t \in 1 .. n : x = track(t)
      OBVIOUS
    <3>2. t >= from
      BY <2>4, <2>6, <3>1
    <3> DEFINE k == t - first + 1
    <3>3. k \in 1 .. n + 1 - first /\ first + k - 1 = t
      BY <2>3, <3>2
    <3> HIDE DEF k
    <3>4. told(descs[k]) = track(t)
      BY <1>8, <2>2, <3>3
    <3>5. QED
      BY <2>1, <3>1, <3>3, <3>4
  <2>7. QED
    BY <2>5, <2>6
<1>10. Cardinality(tracks) = n
  <2> DEFINE b == [t \in 1 .. n |-> track(t)]
  <2>1. \A t, u \in 1 .. n : track(t) = track(u) => t = u
    <3>1. \A t : track(t).number = t
      OBVIOUS
    <3> HIDE DEF track
    <3>2. QED
      BY <3>1
  <2> HIDE DEF track
  <2>2. b \in Bijection(1 .. n, tracks)
    BY <2>1 DEF Bijection, Injection, Surjection, IsInjective
  <2>3. IsFiniteSet(1 .. n) /\ Cardinality(1 .. n) = n
    <3>1. 1 \in Int /\ n \in Int /\ ~(1 > n) /\ n - 1 + 1 = n
      BY <1>1
    <3> HIDE DEF n
    <3>2. QED
      BY <3>1, FS_Interval
  <2> HIDE DEF b, tracks
  <2>4. Cardinality(1 .. n) = Cardinality(tracks)
    BY <2>2, <2>3, FS_Bijection DEF ExistsBijection
  <2>5. QED
    BY <2>3, <2>4
<1>11. {told(reply.descs[k]) : k \in DOMAIN reply.descs} = {t \in tracks : t.number >= from}
  <2> HIDE DEF told, reply, descs, tracks
  <2>1. QED
    BY <1>4, <1>9
<1>12. QED
  <2> HIDE DEF reply, tracks
  <2>1. /\ reply.length = 2 + 8 * Cardinality(tracks) /\ reply.first = 1
        /\ reply.last = Cardinality(tracks)
    BY <1>4, <1>5, <1>10
  <2>2. QED
    BY <1>11, <2>1 DEF reply, tracks, TrackList

(* CHD files whose tracks fit the table and the minutes of its entries.    *)
ListableChd(chd) ==
  /\ Len(chd) <= MaxTracks
  /\ \A t \in 1 .. Len(chd) :
       ChdBase(chd, t) + (IF chd[t].pgvalid THEN chd[t].pregap ELSE 0) < MsfEnd

LEMMA ChdListed ==
  ASSUME NEW chd \in Seq(ChdRecords), ListableChd(chd), NEW table,
         Layout(table, chd, Len(chd), 1)
  PROVE  TrackList(table) = ChdTracks(chd) /\ Timed(table)
<1> DEFINE start(t) == ChdBase(chd, t) + (IF chd[t].pgvalid THEN chd[t].pregap ELSE 0)
<1>1. /\ DOMAIN chd = 1 .. Len(chd) /\ table.last = Len(chd)
      /\ \A t \in 1 .. Len(chd) : /\ table.tracks[t - 1].type = chd[t].type
                                  /\ table.tracks[t - 1].start = start(t)
  BY DEF Layout, ChdRow
<1>2. ASSUME NEW t \in 1 .. Len(chd) PROVE start(t) \in Nat /\ start(t) < MsfEnd
  <2>1. chd[t] \in ChdRecords
    OBVIOUS
  <2>2. chd[t].pregap \in Nat
    BY <2>1 DEF ChdRecords
  <2>3. ChdBase(chd, t) \in Nat
    BY ChdSums
  <2>4. start(t) \in Nat
    BY <2>2, <2>3
  <2>5. start(t) < MsfEnd
    BY DEF ListableChd
  <2>6. QED
    BY <2>4, <2>5
<1>3. ChdTracks(chd) = {[number |-> t, audio |-> chd[t].type = "AUDIO", start |-> start(t)]
                        : t \in 1 .. Len(chd)}
  BY <1>1 DEF ChdTracks
<1> HIDE DEF start
<1>4. TrackList(table) = ChdTracks(chd)
  BY <1>1, <1>3 DEF TrackList
<1>5. Timed(table)
  BY <1>1, <1>2 DEF Timed
<1>6. QED
  BY <1>4, <1>5

(* Sums over any of the indices.                                           *)
LEMMA AddsPart ==
  ASSUME NEW n \in Nat, NEW g, NEW G, Adds(g, n, G), NEW S \in SUBSET (1 .. n),
         NEW f, Solves(g, S, f)
  PROVE  f[S] = G[S]
<1>0. IsFiniteSet(1 .. n)
  BY FS_Interval, n \in Int
<1> DEFINE K == {k \in Nat : \A s \in SUBSET S : Cardinality(s) = k => f[s] = G[s]}
<1>1. 0 \in K
  <2>1. ASSUME NEW s \in SUBSET S, Cardinality(s) = 0 PROVE f[s] = G[s]
    <3>1. IsFiniteSet(s)
      BY <1>0, FS_Subset
    <3>2. s = {}
      BY <2>1, <3>1, FS_EmptySet
    <3>3. f[{}] = 0 /\ G[{}] = 0
      BY DEF Adds, Solves
    <3>4. QED
      BY <3>2, <3>3
  <2>2. QED
    BY <2>1
<1>2. ASSUME NEW k \in Nat, k \in K PROVE k + 1 \in K
  <2>1. ASSUME NEW s \in SUBSET S, Cardinality(s) = k + 1 PROVE f[s] = G[s]
    <3>1. IsFiniteSet(s)
      BY <1>0, FS_Subset
    <3>2. s # {}
      BY <2>1, <3>1, FS_EmptySet
    <3> DEFINE x == CHOOSE x \in s : TRUE
    <3>3. x \in s
      BY <3>2
    <3>4. Cardinality(s \ {x}) = k
      <4> HIDE DEF x
      <4>1. Cardinality(s \ {x}) = Cardinality(s) - 1
        BY <3>1, <3>3, FS_RemoveElement
      <4>2. QED
        BY <2>1, <4>1
    <3>5. f[s \ {x}] = G[s \ {x}]
      BY <1>2, <3>4
    <3>6. f[s] = g[x] + f[s \ {x}]
      BY <3>2 DEF Solves
    <3>7. G[s] = g[x] + G[s \ {x}]
      BY <3>3 DEF Adds
    <3>8. QED
      BY <3>5, <3>6, <3>7
  <2>2. k + 1 \in Nat
    OBVIOUS
  <2>3. QED
    BY <2>1, <2>2
<1>3. Nat \subseteq K
  <2> HIDE DEF K
  <2> QED BY <1>1, <1>2, Induction
<1>4. IsFiniteSet(S)
  BY <1>0, FS_Subset
<1>5. Cardinality(S) \in Nat
  BY <1>4, FS_CardinalityType
<1>6. QED
  BY <1>3, <1>5

(* Where the files of a sheet begin: one after the other.                  *)
Sizes(cue) ==
  [u \in 1 .. Len(cue) |-> IF u \in Positions(cue, "FILE") THEN cue[u].size ELSE 0]

LEMMA BaseIs ==
  ASSUME NEW cue \in Seq(CueCommands), NEW G, Adds(Sizes(cue), Len(cue), G), NEW p
  PROVE  FileBase(cue, p) = G[FilesBefore(cue, p) \ {Max(FilesBefore(cue, p))}]
<1> DEFINE n == Len(cue)
           g == Sizes(cue)
           S == FilesBefore(cue, p) \ {Max(FilesBefore(cue, p))}
           Iter(f) ==
             f = [s \in SUBSET S |->
                    IF s = {} THEN 0
                    ELSE LET x == CHOOSE x \in s : TRUE IN cue[x].size + f[s \ {x}]]
<1>1. FileBase(cue, p) = (CHOOSE f : Iter(f))[S]
  BY DEF FileBase, MapThenSumSet, MapThenFoldSet
<1>2. S \in SUBSET (1 .. n) /\ \A q \in S : g[q] = cue[q].size
  <2>1. DOMAIN cue = 1 .. n
    OBVIOUS
  <2>2. Positions(cue, "FILE") \subseteq 1 .. n
    BY <2>1 DEF Positions
  <2>3. FilesBefore(cue, p) \subseteq Positions(cue, "FILE")
    BY DEF FilesBefore
  <2>4. QED
    BY <2>2, <2>3 DEF Sizes
<1>0. n \in Nat
  OBVIOUS
<1> HIDE DEF S, n, g
<1>8. Adds(g, n, G)
  BY DEF n, g
<1>3. \A f : Iter(f) <=> Solves(g, S, f)
  <2>1. ASSUME NEW f, NEW s \in SUBSET S
        PROVE  (IF s = {} THEN 0
                ELSE LET x == CHOOSE x \in s : TRUE IN cue[x].size + f[s \ {x}])
             = (IF s = {} THEN 0
                ELSE LET x == CHOOSE x \in s : TRUE IN g[x] + f[s \ {x}])
    <3>1. s # {} => (CHOOSE x \in s : TRUE) \in s
      OBVIOUS
    <3>2. QED
      BY <1>2, <3>1
  <2>2. ASSUME NEW f
        PROVE  [s \in SUBSET S |->
                 IF s = {} THEN 0
                 ELSE LET x == CHOOSE x \in s : TRUE IN cue[x].size + f[s \ {x}]]
             = [s \in SUBSET S |->
                 IF s = {} THEN 0
                 ELSE LET x == CHOOSE x \in s : TRUE IN g[x] + f[s \ {x}]]
    BY <2>1
  <2>3. QED
    BY <2>2 DEF Solves
<1>4. \E f : Iter(f)
  <2> DEFINE h == [s \in SUBSET S |-> G[s]]
  <2>1. Solves(g, S, h)
    <3>1. ASSUME NEW s \in SUBSET S
          PROVE  h[s] = IF s = {} THEN 0
                        ELSE LET x == CHOOSE x \in s : TRUE IN g[x] + h[s \ {x}]
      <4>1. s \in SUBSET (1 .. n)
        BY <1>2
      <4>2. CASE s = {}
        BY <1>8, <4>2 DEF Adds
      <4>3. CASE s # {}
        <5> DEFINE x == CHOOSE x \in s : TRUE
        <5>1. x \in s
          BY <4>3
        <5>2. G[s] = g[x] + G[s \ {x}]
          BY <1>8, <4>1, <5>1 DEF Adds
        <5>3. s \ {x} \in SUBSET S
          OBVIOUS
        <5>4. QED
          BY <4>3, <5>2, <5>3
      <4>4. QED
        BY <4>2, <4>3
    <3>2. h = [s \in SUBSET S |-> h[s]]
      OBVIOUS
    <3> HIDE DEF h
    <3>3. QED
      BY <3>1, <3>2 DEF Solves
  <2> HIDE DEF h, Iter
  <2>2. QED
    BY <1>3, <2>1
<1>5. \A f : Iter(f) => f[S] = G[S]
  <2>1. ASSUME NEW f, Iter(f) PROVE f[S] = G[S]
    <3>1. Solves(g, S, f)
      BY <1>3, <2>1
    <3>2. QED
      BY <1>0, <1>2, <1>8, <3>1, AddsPart
  <2> HIDE DEF Iter
  <2>2. QED
    BY <2>1
<1> HIDE DEF Iter
<1>6. FileBase(cue, p) = G[S]
  <2> DEFINE f == CHOOSE f : Iter(f)
  <2>1. Iter(f)
    BY <1>4
  <2> HIDE DEF f
  <2>2. f[S] = G[S]
    BY <1>5, <2>1
  <2>3. QED
    BY <1>1, <2>2 DEF f
<1>7. QED
  BY <1>6 DEF S

(* The file a command of a sheet is about.                                 *)
Current(cue, n, f) ==
  /\ f \in Positions(cue, "FILE") /\ f <= n
  /\ \A g \in Positions(cue, "FILE") : ~(f < g /\ g <= n)

LEMMA Bases ==
  ASSUME NEW cue \in Seq(CueCommands), NEW n \in 1 .. Len(cue), 1 \in Positions(cue, "FILE")
  PROVE  /\ FileBase(cue, n) \in Nat /\ FileBase(cue, n + 1) \in Nat
         /\ n \notin Positions(cue, "FILE") => FileBase(cue, n + 1) = FileBase(cue, n)
         /\ \E f \in 1 .. n : Current(cue, n, f)
         /\ n \in Positions(cue, "FILE") =>
              \A f : Current(cue, n - 1, f) =>
                FileBase(cue, n + 1) = FileBase(cue, n) + cue[f].size
<1> DEFINE N == Len(cue)
           file == Positions(cue, "FILE")
           g == Sizes(cue)
           before(p) == FilesBefore(cue, p)
           base(p) == before(p) \ {Max(before(p))}
<1>1. /\ N \in Nat /\ file \subseteq 1 .. N /\ n \in Nat \ {0} /\ 1 \in file
      /\ \A u \in file : cue[u] \in CueCommands /\ cue[u].cmd = "FILE"
      /\ \A p : before(p) \subseteq file
      /\ \A p \in Nat : \A q : q \in before(p) <=> q \in file /\ q < p
      /\ file \subseteq Nat \ {0} /\ \A q \in file : q \in Nat /\ q > 0
  BY DEF Positions, FilesBefore
<1>2. \A u \in file : cue[u].size \in Nat
  BY <1>1 DEF CueCommands
<1> HIDE DEF N, file, before
<1>13. N \in Nat /\ n \in Nat /\ n > 0 /\ 1 \in file /\ \A q \in file : q \in Nat /\ q > 0
  BY <1>1
<1>14. ASSUME NEW p \in Nat PROVE \A q : q \in before(p) <=> q \in file /\ q < p
  BY <1>1
<1>15. /\ \A q : q \in before(n) <=> q \in file /\ q < n
       /\ \A q : q \in before(n + 1) <=> q \in file /\ q < n + 1
  <2>1. n + 1 \in Nat
    BY <1>13
  <2>2. QED
    BY <1>13, <1>14, <2>1
<1>3. \A u \in 1 .. N : g[u] \in Int
  BY <1>2 DEF Sizes, file, N
<1>4. /\ \A u \in file : g[u] = cue[u].size
      /\ \A u \in 1 .. N : g[u] \in Nat
  BY <1>1, <1>2 DEF Sizes, file, N
<1> HIDE DEF g
<1>5. PICK G : Adds(g, N, G)
  BY <1>1, <1>3, AddsExists
<1>6. ASSUME NEW p PROVE FileBase(cue, p) = G[base(p)] /\ base(p) \in SUBSET (1 .. N)
  <2>1. FileBase(cue, p) = G[FilesBefore(cue, p) \ {Max(FilesBefore(cue, p))}]
    BY <1>5, BaseIs DEF g, N
  <2>2. before(p) \subseteq file /\ file \subseteq 1 .. N
    BY <1>1
  <2>3. QED
    BY <2>1, <2>2 DEF before
<1>7. \A s \in SUBSET (1 .. N) : G[s] \in Nat
  <2> DEFINE S == {k \in Nat : \A s \in SUBSET (1 .. N) : Cardinality(s) = k => G[s] \in Nat}
  <2>0. \A s \in SUBSET (1 .. N) : IsFiniteSet(s)
    <3>0. 1 \in Int /\ N \in Int
      BY <1>1
    <3>1. IsFiniteSet(1 .. N)
      BY <3>0, FS_Interval
    <3>2. QED
      BY <3>1, FS_Subset
  <2>1. 0 \in S
    <3>1. ASSUME NEW s \in SUBSET (1 .. N), Cardinality(s) = 0 PROVE G[s] \in Nat
      <4>1. s = {}
        BY <2>0, <3>1, FS_EmptySet
      <4>2. QED
        BY <1>5, <4>1 DEF Adds
    <3>2. QED
      BY <3>1
  <2>2. ASSUME NEW k \in Nat, k \in S PROVE k + 1 \in S
    <3>1. ASSUME NEW s \in SUBSET (1 .. N), Cardinality(s) = k + 1 PROVE G[s] \in Nat
      <4>1. s # {}
        BY <2>0, <3>1, FS_EmptySet
      <4>2. PICK x \in s : TRUE
        BY <4>1
      <4>3. Cardinality(s \ {x}) = Cardinality(s) - 1
        BY <2>0, FS_RemoveElement
      <4>4. Cardinality(s \ {x}) = k
        BY <3>1, <4>3
      <4>5. G[s \ {x}] \in Nat
        BY <2>2, <4>4
      <4>6. G[s] = g[x] + G[s \ {x}] /\ g[x] \in Nat
        BY <1>4, <1>5 DEF Adds
      <4>7. QED
        BY <4>5, <4>6
    <3>2. k + 1 \in Nat
      OBVIOUS
    <3>3. QED
      BY <3>1, <3>2
  <2>3. Nat \subseteq S
    <3> HIDE DEF S
    <3> QED BY <2>1, <2>2, Induction
  <2>4. ASSUME NEW s \in SUBSET (1 .. N) PROVE G[s] \in Nat
    <3>1. Cardinality(s) \in Nat
      BY <2>0, FS_CardinalityType
    <3>2. QED
      BY <2>3, <3>1
  <2>5. QED
    BY <2>4
<1>8. FileBase(cue, n) \in Nat /\ FileBase(cue, n + 1) \in Nat
  <2> HIDE DEF base
  <2> QED BY <1>6, <1>7
<1>9. ASSUME n \notin file PROVE FileBase(cue, n + 1) = FileBase(cue, n)
  <2>1. \A q \in file : q < n + 1 <=> q < n
    BY <1>13, <1>9
  <2>2. before(n + 1) = before(n)
    BY <1>13, <1>15, <2>1
  <2> HIDE DEF base
  <2>3. base(n + 1) = base(n)
    BY <2>2 DEF base
  <2>4. QED
    BY <1>6, <2>3
<1>10. ASSUME NEW m \in Nat \ {0} PROVE \E f \in 1 .. m : Current(cue, m, f)
  <2> DEFINE T == {q \in file : q <= m}
  <2>1. T \subseteq 0 .. m /\ 1 \in T
    BY <1>13
  <2> HIDE DEF T
  <2>2. Max(T) \in T /\ \A q \in T : Max(T) >= q
    BY <2>1, MaxIs
  <2>3. PICK f \in T : \A q \in T : f >= q
    BY <2>2
  <2>4. f \in 1 .. m /\ f \in file /\ \A q \in file : q <= m => f >= q
    BY <1>13, <2>1, <2>3 DEF T
  <2>5. \A q \in file : ~(f < q /\ q <= m)
    BY <1>1, <2>4
  <2>6. QED
    BY <2>4, <2>5 DEF Current, file
<1>11. ASSUME n \in file, NEW f, Current(cue, n - 1, f)
       PROVE  FileBase(cue, n + 1) = FileBase(cue, n) + cue[f].size
  <2>1. /\ f \in file /\ f \in Nat /\ f < n /\ \A q \in file : q < n => q <= f
    BY <1>13, <1>15, <1>11 DEF Current, file
  <2>2. f \in before(n) /\ \A q \in before(n) : q <= f
    BY <1>15, <2>1
  <2>3. before(n + 1) = before(n) \cup {n} /\ n \notin before(n)
    <3>1. \A q \in file : q < n + 1 <=> q < n \/ q = n
      BY <1>13, <1>15
    <3>2. n \notin before(n)
      BY <1>13, <1>15
    <3>3. QED
      BY <1>11, <1>15, <3>1, <3>2
  <2>4. Max(before(n)) = f
    <3>1. before(n) \subseteq 0 .. n
      BY <1>13, <1>15
    <3>2. Max(before(n)) \in before(n) /\ \A q \in before(n) : Max(before(n)) >= q
      BY <1>13, <1>15, <2>2, <3>1, MaxIs
    <3>3. QED
      BY <1>13, <1>15, <2>2, <3>2
  <2>5. Max(before(n + 1)) = n
    <3>1. before(n + 1) \subseteq 0 .. n /\ n \in before(n + 1)
      BY <1>13, <1>15, <2>3
    <3>2. Max(before(n + 1)) \in before(n + 1) /\ \A q \in before(n + 1) : Max(before(n + 1)) >= q
      BY <1>13, <1>15, <3>1, MaxIs
    <3>3. QED
      BY <1>13, <1>15, <3>1, <3>2
  <2>6. base(n + 1) = before(n) /\ base(n) = before(n) \ {f}
    BY <2>3, <2>4, <2>5
  <2>7. before(n) \in SUBSET (1 .. N)
    BY <1>1
  <2>8. G[before(n)] = g[f] + G[before(n) \ {f}]
    BY <1>5, <2>2, <2>7 DEF Adds
  <2>9. FileBase(cue, n + 1) = g[f] + FileBase(cue, n) /\ g[f] = cue[f].size
    <3>1. FileBase(cue, n + 1) = G[before(n)] /\ FileBase(cue, n) = G[before(n) \ {f}]
      BY <1>6, <2>6
    <3>2. QED
      BY <1>4, <2>1, <2>8, <3>1
  <2>10. g[f] \in Nat
    BY <1>2, <1>4, <2>1
  <2>11. QED
    BY <1>8, <2>9, <2>10
<1>12. QED
  BY <1>1, <1>8, <1>9, <1>10, <1>11 DEF file

(* No INDEX 01 after command p, up to command n.                           *)
Waits(cue, n, p) == \A q \in Positions(cue, "INDEX1") : ~(p < q /\ q <= n)

(* Sheets whose tracks are numbered upwards, with one INDEX 01 each, at an *)
(* address that has a minute; every file has a track, and after the first  *)
(* file only one; the INDEX 00 of a file's first track is at its beginning.*)
ListableCue(cue) ==
  LET file == Positions(cue, "FILE")
      track == Positions(cue, "TRACK")
      index1 == Positions(cue, "INDEX1")
  IN /\ 1 \in file
     /\ \A p, q \in track : p < q => cue[p].number < cue[q].number
     /\ \A p \in track : cue[p].number <= MaxTracks /\ \E q \in index1 : p < q
     /\ \A q \in index1 :
          /\ FileBase(cue, q) + cue[q].at < MsfEnd
          /\ \E p \in track :
               /\ p < q /\ Waits(cue, q - 1, p)
               /\ \A r \in Positions(cue, "INDEX0"), f \in file :
                    p < r /\ r < q /\ f < q /\ Waits(cue, q - 1, f) => cue[r].at = 0
          /\ (\E f \in file : 1 < f /\ f < q) =>
               \E f \in file : f < q /\ Waits(cue, q - 1, f)
     /\ \A f, g \in file : f < g => ~Waits(cue, g - 1, f)

(* What the first n commands of such a sheet have made of its tracks: one  *)
(* that has its INDEX 01 has an entry; one without has the entry after the *)
(* last, and so has a file without a track.  The table ends where the file *)
(* begins or, once it has a track, where it ends.                          *)
Entered(s, cue, n) ==
  LET track == {p \in Positions(cue, "TRACK") : p <= n}
      row(t) == s.toc.tracks[t - 1]
      next == s.toc.tracks[s.toc.last]
  IN /\ s.state = "FULL" => s.toc.last >= MaxTracks
     /\ s.state = "READING" =>
          \A f \in Positions(cue, "FILE") :
            Current(cue, n, f) =>
              /\ Waits(cue, n, f) =>
                   /\ opened(next.f) /\ next.f.size = cue[f].size
                   /\ s.toc.end = FileBase(cue, n + 1)
              /\ ~Waits(cue, n, f) =>
                   ~opened(next.f) /\ s.toc.end = FileBase(cue, n + 1) + cue[f].size
     /\ \A p \in track, q \in Positions(cue, "INDEX1") :
          p < q /\ q <= n /\ Waits(cue, q - 1, p) =>
            /\ cue[p].number \in 1 .. s.toc.last
            /\ row(cue[p].number).type = cue[p].type
            /\ row(cue[p].number).start = FileBase(cue, q) + cue[q].at
     /\ \A t \in 1 .. s.toc.last : \E p \in track : cue[p].number = t /\ ~Waits(cue, n, p)
     /\ \A p \in track :
          Waits(cue, n, p) =>
            /\ s.state = "READING" /\ cue[p].number = s.toc.last + 1
            /\ next.type = cue[p].type
            /\ s.index0 = 0 \/ \E r \in Positions(cue, "INDEX0") :
                                 p < r /\ r <= n /\ s.index0 = cue[r].at

(* A command that leaves the entries as they are: no file, no track.       *)
LEMMA EnteredSame ==
  ASSUME NEW cue \in Seq(CueCommands), 1 \in Positions(cue, "FILE"),
         NEW s, NEW r, NEW n \in Nat, n + 1 \in 1 .. Len(cue), Entered(s, cue, n),
         n + 1 \notin Positions(cue, "TRACK"), n + 1 \notin Positions(cue, "INDEX1"),
         n + 1 \notin Positions(cue, "FILE") \/ s.state # "READING",
         r.toc = s.toc, r.state = s.state,
         \/ r.index0 = s.index0
         \/ n + 1 \in Positions(cue, "INDEX0") /\ r.index0 = cue[n + 1].at
  PROVE  Entered(r, cue, n + 1)
<1> DEFINE track == Positions(cue, "TRACK")
           index0 == Positions(cue, "INDEX0")
           index1 == Positions(cue, "INDEX1")
           file == Positions(cue, "FILE")
<1>0. /\ track \subseteq Nat /\ index1 \subseteq Nat /\ file \subseteq Nat /\ index0 \subseteq Nat
      /\ \A p \in track : p \in Nat
      /\ \A p \in file : p \in Nat
      /\ \A p \in index0 : p \in Nat
      /\ \A p \in index1 : p \in Nat
  BY DEF Positions
<1>1. {p \in track : p <= n + 1} = {p \in track : p <= n}
  <2>1. \A p \in track : p <= n + 1 <=> p <= n
    BY <1>0
  <2>2. QED
    BY <2>1
<1>2. \A q \in index1 : q <= n + 1 <=> q <= n
  BY <1>0
<1>3. \A p : Waits(cue, n + 1, p) <=> Waits(cue, n, p)
  BY <1>2 DEF Waits
<1>4. ASSUME s.state = "READING", NEW f \in file
      PROVE  /\ Current(cue, n + 1, f) <=> Current(cue, n, f)
             /\ FileBase(cue, (n + 1) + 1) = FileBase(cue, n + 1)
  <2>1. n + 1 \notin file
    BY <1>4
  <2>2. \A p \in file : p <= n + 1 <=> p <= n
    BY <1>0, <2>1
  <2>3. FileBase(cue, (n + 1) + 1) = FileBase(cue, n + 1)
    BY <2>1, Bases
  <2>4. QED
    BY <2>2, <2>3 DEF Current
<1>5. ASSUME NEW p \in track, p <= n,
             s.index0 = 0 \/ \E i \in index0 : p < i /\ i <= n /\ s.index0 = cue[i].at
      PROVE  r.index0 = 0 \/ \E i \in index0 : p < i /\ i <= n + 1 /\ r.index0 = cue[i].at
  <2>1. CASE r.index0 = s.index0
    <3>1. \A i \in index0 : i <= n => i <= n + 1
      BY <1>0
    <3>2. QED
      BY <1>5, <2>1, <3>1
  <2>2. CASE n + 1 \in index0 /\ r.index0 = cue[n + 1].at
    <3>1. p < n + 1 /\ n + 1 <= n + 1
      BY <1>0, <1>5
    <3>2. QED
      BY <2>2, <3>1
  <2>3. QED
    BY <2>1, <2>2
<1>6. /\ s.state = "FULL" => s.toc.last >= MaxTracks
      /\ s.state = "READING" =>
           \A f \in file :
             Current(cue, n, f) =>
               /\ Waits(cue, n, f) =>
                    /\ opened(s.toc.tracks[s.toc.last].f)
                    /\ s.toc.tracks[s.toc.last].f.size = cue[f].size
                    /\ s.toc.end = FileBase(cue, n + 1)
               /\ ~Waits(cue, n, f) =>
                    /\ ~opened(s.toc.tracks[s.toc.last].f)
                    /\ s.toc.end = FileBase(cue, n + 1) + cue[f].size
  BY DEF Entered
<1>7. /\ \A p \in {p \in track : p <= n}, q \in index1 :
           p < q /\ q <= n /\ Waits(cue, q - 1, p) =>
             /\ cue[p].number \in 1 .. s.toc.last
             /\ s.toc.tracks[cue[p].number - 1].type = cue[p].type
             /\ s.toc.tracks[cue[p].number - 1].start = FileBase(cue, q) + cue[q].at
      /\ \A t \in 1 .. s.toc.last : \E p \in {p \in track : p <= n} :
           cue[p].number = t /\ ~Waits(cue, n, p)
  BY DEF Entered
<1>8. \A p \in {p \in track : p <= n} :
        Waits(cue, n, p) =>
          /\ s.state = "READING" /\ cue[p].number = s.toc.last + 1
          /\ s.toc.tracks[s.toc.last].type = cue[p].type
          /\ s.index0 = 0 \/ \E i \in index0 : p < i /\ i <= n /\ s.index0 = cue[i].at
  BY DEF Entered
<1>9. \A p \in {p \in track : p <= n} :
        Waits(cue, n, p) =>
          /\ s.state = "READING" /\ cue[p].number = s.toc.last + 1
          /\ s.toc.tracks[s.toc.last].type = cue[p].type
          /\ r.index0 = 0 \/ \E i \in index0 : p < i /\ i <= n + 1 /\ r.index0 = cue[i].at
  BY <1>5, <1>8
<1>10. QED
  BY <1>1, <1>2, <1>3, <1>4, <1>6, <1>7, <1>9 DEF Entered

(* The first track of a file begins in it.                                 *)
LEMMA OwnStart ==
  ASSUME NEW s, s.toc \in Tables, NEW base \in Nat, s.toc.end = base, s.index0 = 0,
         NEW index1 \in Nat
  PROVE  CueOwnFile(s.toc, s.index0, index1).tracks[s.toc.last].start = base + index1
<1>1. s.toc.end + s.index0 + index1 = base + index1
  OBVIOUS
<1>2. LET n == s.toc.last
          r == CueOwnFile(s.toc, s.index0, index1)
      IN r.tracks[n].start = s.toc.end + s.index0 + index1
  BY OwnRows
<1>3. QED
  BY <1>1, <1>2

(* Every later command.                                                    *)
LEMMA EnteredStep ==
  ASSUME NEW cue \in Seq(CueCommands), ListableCue(cue), NEW s, CueOK(s),
         NEW n \in Nat \ {0}, n + 1 <= Len(cue), s.state # "FAILED", Entered(s, cue, n),
         CueCommand(s, cue[n + 1]).state # "FAILED"
  PROVE  Entered(CueCommand(s, cue[n + 1]), cue, n + 1)
<1> DEFINE c == cue[n + 1]
           k == s.toc.last
           row == s.toc.tracks[k]
           r == CueCommand(s, c)
           file == Positions(cue, "FILE")
           track == Positions(cue, "TRACK")
           index0 == Positions(cue, "INDEX0")
           index1 == Positions(cue, "INDEX1")
           base == FileBase(cue, n + 1)
           base1 == FileBase(cue, (n + 1) + 1)
<1>1. /\ n + 1 \in DOMAIN cue /\ DOMAIN cue = 1 .. Len(cue) /\ c \in CueCommands
      /\ Len(cue) \in Nat /\ index1 \subseteq Nat \ {0} /\ track \subseteq Nat \ {0}
      /\ file \subseteq Nat \ {0} /\ index0 \subseteq Nat \ {0}
      /\ \A p \in track : cue[p] \in CueCommands /\ cue[p].cmd = "TRACK"
      /\ \A f \in file : cue[f] \in CueCommands /\ cue[f].cmd = "FILE"
  BY DEF Positions
<1>2. /\ \A p \in track : cue[p].number \in Nat
      /\ \A f \in file : cue[f].size \in Nat
  BY <1>1 DEF CueCommands
<1>3. /\ s.toc \in Tables /\ k \in 0 .. MaxTracks /\ k \in Nat /\ MaxTracks \in Nat
      /\ row \in TrackSet /\ s.index0 \in Nat
  BY CdImageAssumption DEF CueOK, Readers, Tables
<1>4. /\ s.state = "FULL" => k >= MaxTracks
      /\ \A p \in track, q \in index1 :
           p <= n /\ p < q /\ q <= n /\ Waits(cue, q - 1, p) =>
             /\ cue[p].number \in 1 .. k
             /\ s.toc.tracks[cue[p].number - 1].type = cue[p].type
             /\ s.toc.tracks[cue[p].number - 1].start = FileBase(cue, q) + cue[q].at
      /\ \A t \in 1 .. k : \E p \in track :
           p <= n /\ cue[p].number = t /\ ~Waits(cue, n, p)
      /\ \A p \in track :
           p <= n /\ Waits(cue, n, p) =>
             /\ s.state = "READING" /\ cue[p].number = k + 1 /\ row.type = cue[p].type
             /\ s.index0 = 0 \/ \E i \in index0 : p < i /\ i <= n /\ s.index0 = cue[i].at
  BY DEF Entered
<1>5. /\ \A p, q \in track : p < q => cue[p].number < cue[q].number
      /\ \A p \in track : cue[p].number <= MaxTracks
      /\ \A f, g \in file : f < g => ~Waits(cue, g - 1, f)
      /\ 1 \in file
  BY DEF ListableCue
<1>6. ASSUME NEW q \in index1
      PROVE  /\ \E p \in track :
                  /\ p < q /\ Waits(cue, q - 1, p)
                  /\ \A i \in index0, f \in file :
                       p < i /\ i < q /\ f < q /\ Waits(cue, q - 1, f) => cue[i].at = 0
             /\ (\E f \in file : 1 < f /\ f < q) =>
                  \E f \in file : f < q /\ Waits(cue, q - 1, f)
  BY DEF ListableCue
<1>7. c.cmd \in {"FILE", "TRACK", "INDEX0", "INDEX1"}
  BY <1>1 DEF CueCommands
<1>8. base \in Nat /\ \E f \in 1 .. n : Current(cue, n, f)
  <2>1. n \in 1 .. Len(cue) /\ n + 1 \in 1 .. Len(cue)
    BY <1>1
  <2>2. base \in Nat
    BY <1>5, <2>1, Bases
  <2>3. \E f \in 1 .. n : Current(cue, n, f)
    BY <1>5, <2>1, Bases
  <2>4. QED
    BY <2>2, <2>3
<1>9. PICK f0 \in 1 .. n : Current(cue, n, f0)
  BY <1>8
<1>10. s.state = "READING" =>
        /\ Waits(cue, n, f0) => /\ opened(row.f) /\ row.f.size = cue[f0].size
                                /\ s.toc.end = base
        /\ ~Waits(cue, n, f0) => ~opened(row.f) /\ s.toc.end = base + cue[f0].size
  <2>1. f0 \in file
    BY <1>9 DEF Current
  <2>2. QED
    BY <1>9, <2>1 DEF Entered
<1>11. /\ f0 \in file /\ f0 \in Nat /\ f0 <= n /\ \A f \in file : f <= n => f <= f0
       /\ cue[f0].size \in Nat
  BY <1>1, <1>2, <1>9 DEF Current
<1>12. /\ n + 1 \notin file => base1 = base
       /\ n + 1 \in file => base1 = base + cue[f0].size
  <2>1. n + 1 \in 1 .. Len(cue) /\ (n + 1) - 1 = n
    BY <1>1
  <2>2. n + 1 \notin file => base1 = base
    BY <1>5, <2>1, Bases
  <2>3. n + 1 \in file =>
          \A f : Current(cue, (n + 1) - 1, f) =>
            FileBase(cue, (n + 1) + 1) = FileBase(cue, n + 1) + cue[f].size
    BY <1>5, <2>1, Bases
  <2>4. QED
    BY <1>9, <2>1, <2>2, <2>3
<1> HIDE DEF base, base1
<1>13. ASSUME n + 1 \notin file, NEW f \in file
       PROVE  Current(cue, n + 1, f) => f = f0
  <2>1. ASSUME Current(cue, n + 1, f) PROVE f = f0
    <3>1. f \in Nat /\ f <= n + 1 /\ ~(f < f0 /\ f0 <= n + 1)
      BY <1>1, <1>11, <2>1 DEF Current
    <3>2. f <= n /\ ~(f < f0)
      BY <1>11, <1>13, <3>1
    <3>3. f <= f0
      BY <1>11, <3>2
    <3>4. QED
      BY <1>11, <3>1, <3>2, <3>3
  <2>2. QED
    BY <2>1
<1>14. CASE c.cmd = "INDEX0" \/ (c.cmd = "FILE" /\ s.state # "READING")
  <2>1. /\ r.toc = s.toc /\ r.state = s.state
        /\ r.index0 = s.index0 \/ (n + 1 \in index0 /\ r.index0 = c.at)
    <3>1. CASE s.state # "READING"
      BY <3>1 DEF CueCommand
    <3>2. CASE s.state = "READING"
      <4>1. n + 1 \in index0 /\ c.cmd = "INDEX0"
        BY <1>1, <1>14, <3>2 DEF Positions
      <4>2. r = [s EXCEPT !.index0 = c.at]
        BY <3>2, <4>1 DEF CueCommand
      <4>3. QED
        BY <4>1, <4>2 DEF CueOK, Readers
    <3>3. QED
      BY <3>1, <3>2
  <2>2. /\ n + 1 \notin track /\ n + 1 \notin index1
        /\ n + 1 \notin file \/ s.state # "READING"
    BY <1>14 DEF Positions
  <2>3. n + 1 \in 1 .. Len(cue) /\ n \in Nat
    BY <1>1
  <2> HIDE DEF r
  <2>4. QED
    BY <1>5, <2>1, <2>2, <2>3, EnteredSame DEF r
<1>15. CASE c.cmd = "FILE" /\ s.state = "READING"
  <2> DEFINE f == IF c.found /\ c.binary
                  THEN [file |-> c.file, size |-> c.size, pos |-> 0] ELSE NoFile
             offset == IF c.found THEN 0 ELSE row.offset
             t == [row EXCEPT !.f = f, !.offset = offset]
             state == IF opened(f) THEN "READING" ELSE "FAILED"
  <2>1. n + 1 \in file /\ n + 1 \notin track /\ n + 1 \notin index1
    BY <1>1, <1>15 DEF Positions
  <2>2. r = Entry(s, t, s.index0, state)
    BY <1>15 DEF CueCommand, CueFile
  <2>3. f \in FileSet
    BY <1>1, <1>15 DEF CueCommands, FileSet, NoFile, Names
  <2>4. offset \in Int /\ (opened(f) => f.size = c.size)
    BY <1>3 DEF TrackSet, opened, NoFile
  <2> HIDE DEF f, offset, r, row, c
  <2>5. t \in TrackSet /\ t.f = f /\ t.type = row.type
    BY <1>3, <2>3, <2>4 DEF TrackSet
  <2> HIDE DEF t
  <2>6. /\ r.toc.last = k /\ r.state = state /\ r.toc.tracks[k] = t /\ r.index0 = s.index0
        /\ r.toc.end = s.toc.end
        /\ \A i \in 0 .. k - 1 : r.toc.tracks[i] = s.toc.tracks[i]
    BY <2>2, <2>5, EntryRows DEF row
  <2>7. r.state = "READING" /\ opened(t.f) /\ t.f.size = c.size
    <3>1. r.state # "FAILED"
      BY DEF r, c
    <3>2. QED
      BY <2>4, <2>5, <2>6, <3>1
  <2>8. \A q \in index1 : q <= n + 1 <=> q <= n
    BY <1>1, <2>1
  <2>9. \A p : Waits(cue, n + 1, p) <=> Waits(cue, n, p)
    BY <2>8 DEF Waits
  <2>10. \A p \in track : p <= n + 1 <=> p <= n
    BY <1>1, <2>1
  <2>11. ASSUME NEW g \in file, Current(cue, n + 1, g)
         PROVE  /\ g = n + 1 /\ Waits(cue, n + 1, g)
                /\ r.toc.end = base1
    <3>1. g = n + 1
      <4>1. g \in Nat /\ g <= n + 1 /\ ~(g < n + 1 /\ n + 1 <= n + 1)
        BY <1>1, <2>1, <2>11 DEF Current
      <4>2. QED
        BY <4>1
    <3>2. Waits(cue, n + 1, n + 1)
      <4>1. \A q \in index1 : ~(n + 1 < q /\ q <= n + 1)
        BY <1>1
      <4>2. QED
        BY <4>1 DEF Waits
    <3>3. ~Waits(cue, n, f0)
      <4>1. f0 < n + 1 /\ (n + 1) - 1 = n
        BY <1>11
      <4>2. QED
        BY <1>5, <1>11, <2>1, <4>1
    <3>4. s.toc.end = base + cue[f0].size
      BY <1>10, <1>15, <3>3
    <3>5. QED
      BY <1>12, <2>1, <2>6, <3>1, <3>2, <3>4
  <2>12. ASSUME NEW p \in track, NEW q \in index1, p < q, q <= n + 1, Waits(cue, q - 1, p)
         PROVE  /\ cue[p].number \in 1 .. k
                /\ r.toc.tracks[cue[p].number - 1].type = cue[p].type
                /\ r.toc.tracks[cue[p].number - 1].start = FileBase(cue, q) + cue[q].at
    <3>1. q <= n /\ p <= n
      BY <1>1, <2>8, <2>12
    <3>2. /\ cue[p].number \in 1 .. k
          /\ s.toc.tracks[cue[p].number - 1].type = cue[p].type
          /\ s.toc.tracks[cue[p].number - 1].start = FileBase(cue, q) + cue[q].at
      BY <1>4, <2>12, <3>1
    <3>3. cue[p].number - 1 \in 0 .. k - 1
      <4>1. /\ cue[p].number \in Nat /\ cue[p].number >= 1
            /\ cue[p].number <= k /\ k \in Nat
        BY <1>2, <1>3, <3>2
      <4> HIDE DEF k
      <4>2. QED
        BY <4>1
    <3>4. QED
      BY <2>6, <3>2, <3>3
  <2>13. ASSUME NEW j \in 1 .. k
         PROVE  \E p \in track : p <= n + 1 /\ cue[p].number = j /\ ~Waits(cue, n + 1, p)
    BY <1>4, <2>9, <2>10
  <2>14. ASSUME NEW p \in track, p <= n + 1, Waits(cue, n + 1, p)
         PROVE  /\ cue[p].number = k + 1 /\ r.toc.tracks[k].type = cue[p].type
                /\ r.index0 = 0 \/ \E i \in index0 : p < i /\ i <= n + 1 /\ r.index0 = cue[i].at
    <3>1. /\ cue[p].number = k + 1 /\ row.type = cue[p].type
          /\ s.index0 = 0 \/ \E i \in index0 : p < i /\ i <= n /\ s.index0 = cue[i].at
      BY <1>4, <2>9, <2>10, <2>14 DEF row
    <3>2. \A i \in index0 : i <= n => i <= n + 1
      BY <1>1
    <3>3. QED
      BY <2>5, <2>6, <3>1, <3>2
  <2>15. QED
    <3> HIDE DEF k
    <3>1. r.toc.last = k /\ r.toc.tracks[r.toc.last] = t
      BY <2>6
    <3>2. \A g \in file :
            Current(cue, n + 1, g) =>
              /\ Waits(cue, n + 1, g) =>
                   /\ opened(t.f) /\ t.f.size = cue[g].size
                   /\ r.toc.end = FileBase(cue, (n + 1) + 1)
              /\ ~Waits(cue, n + 1, g) =>
                   ~opened(t.f) /\ r.toc.end = FileBase(cue, (n + 1) + 1) + cue[g].size
      BY <2>7, <2>11 DEF base1, c
    <3>3. Entered(r, cue, n + 1)
      BY <2>6, <2>7, <2>12, <2>13, <2>14, <3>1, <3>2 DEF Entered
    <3>4. QED
      BY <3>3 DEF r, c
<1>16. CASE c.cmd = "TRACK"
  <2>1. n + 1 \in track /\ n + 1 \notin index1 /\ n + 1 \notin file
    BY <1>1, <1>16 DEF Positions
  <2>2. ASSUME NEW p \in track, p <= n PROVE ~Waits(cue, n, p) \/ cue[n + 1].number # k + 1
    <3>1. cue[p].number < cue[n + 1].number
      BY <1>1, <1>5, <2>1, <2>2
    <3>2. QED
      BY <1>2, <1>3, <1>4, <2>1, <2>2, <3>1
  <2>3. s.state = "READING"
    <3>1. SUFFICES ASSUME s.state = "FULL" PROVE FALSE
      BY DEF CueOK, Readers
    <3>2. MaxTracks \in 1 .. k
      BY <1>3, <1>4, <3>1, CdImageAssumption
    <3>3. PICK p \in track : p <= n /\ cue[p].number = MaxTracks
      BY <1>4, <3>2
    <3>4. MaxTracks < cue[n + 1].number
      BY <1>1, <1>5, <2>1, <3>3
    <3>5. QED
      BY <1>2, <1>3, <1>5, <2>1, <3>4
  <2> DEFINE t == [row EXCEPT !.type = c.type]
  <2>4. c.number = k + 1 /\ c.type # "OTHER"
    <3>1. SUFFICES ASSUME ~(c.number = k + 1 /\ c.type # "OTHER") PROVE FALSE
      OBVIOUS
    <3>2. r = Entry(s, [row EXCEPT !.f = NoFile], 0, "FAILED")
      BY <1>16, <2>3, <3>1 DEF CueCommand, CueTrack
    <3> HIDE DEF row
    <3>3. [row EXCEPT !.f = NoFile] \in TrackSet
      <4>1. NoFile \in FileSet
        BY DEF FileSet, NoFile
      <4>2. QED
        BY <1>3, <4>1 DEF TrackSet
    <3> HIDE DEF r
    <3>4. r.state = "FAILED"
      BY <3>2, <3>3, EntryRows
    <3>5. QED
      BY <3>4 DEF r
  <2>5. r = Entry(s, t, 0, "READING")
    BY <1>16, <2>3, <2>4 DEF CueCommand, CueTrack
  <2>6. t \in TrackSet /\ t.f = row.f /\ t.type = c.type
    <3>1. c.type \in TrackTypes
      BY <1>1, <1>16, <2>4 DEF CueCommands
    <3>2. QED
      BY <1>3, <3>1 DEF TrackSet
  <2> HIDE DEF r, t, row
  <2>7. /\ r.toc.last = k /\ r.state = "READING" /\ r.toc.tracks[k] = t /\ r.index0 = 0
        /\ r.toc.end = s.toc.end
        /\ \A i \in 0 .. k - 1 : r.toc.tracks[i] = s.toc.tracks[i]
    BY <2>5, <2>6, EntryRows
  <2>8. \A q \in index1 : q <= n + 1 <=> q <= n
    BY <1>1, <2>1
  <2>9. \A p : Waits(cue, n + 1, p) <=> Waits(cue, n, p)
    BY <2>8 DEF Waits
  <2>10. \A p \in track : p <= n + 1 <=> p <= n \/ p = n + 1
    BY <1>1
  <2>11. ASSUME NEW g \in file, Current(cue, n + 1, g)
         PROVE  /\ Waits(cue, n + 1, g) => /\ opened(t.f) /\ t.f.size = cue[g].size
                                           /\ r.toc.end = base1
                /\ ~Waits(cue, n + 1, g) =>
                     ~opened(t.f) /\ r.toc.end = base1 + cue[g].size
    <3>1. g = f0
      BY <1>13, <2>1, <2>11
    <3>2. QED
      BY <1>10, <1>12, <2>1, <2>3, <2>6, <2>7, <2>9, <3>1
  <2>12. ASSUME NEW p \in track, NEW q \in index1, p < q, q <= n + 1, Waits(cue, q - 1, p)
         PROVE  /\ cue[p].number \in 1 .. k
                /\ r.toc.tracks[cue[p].number - 1].type = cue[p].type
                /\ r.toc.tracks[cue[p].number - 1].start = FileBase(cue, q) + cue[q].at
    <3>1. q <= n /\ p <= n
      BY <1>1, <2>8, <2>12
    <3>2. /\ cue[p].number \in 1 .. k
          /\ s.toc.tracks[cue[p].number - 1].type = cue[p].type
          /\ s.toc.tracks[cue[p].number - 1].start = FileBase(cue, q) + cue[q].at
      BY <1>4, <2>12, <3>1
    <3>3. cue[p].number - 1 \in 0 .. k - 1
      <4>1. /\ cue[p].number \in Nat /\ cue[p].number >= 1
            /\ cue[p].number <= k /\ k \in Nat
        BY <1>2, <1>3, <3>2
      <4> HIDE DEF k
      <4>2. QED
        BY <4>1
    <3>4. QED
      BY <2>7, <3>2, <3>3
  <2>13. ASSUME NEW j \in 1 .. k
         PROVE  \E p \in track : p <= n + 1 /\ cue[p].number = j /\ ~Waits(cue, n + 1, p)
    BY <1>4, <2>9, <2>10
  <2>14. ASSUME NEW p \in track, p <= n + 1, Waits(cue, n + 1, p)
         PROVE  cue[p].number = k + 1 /\ r.toc.tracks[k].type = cue[p].type
    <3>1. p = n + 1
      BY <2>2, <2>4, <2>9, <2>10, <2>14
    <3>2. QED
      BY <2>4, <2>6, <2>7, <3>1
  <2>15. QED
    <3> HIDE DEF c, k
    <3>1. r.toc.last = k /\ r.toc.tracks[r.toc.last] = t
      BY <2>7
    <3>2. \A g \in file :
            Current(cue, n + 1, g) =>
              /\ Waits(cue, n + 1, g) =>
                   /\ opened(t.f) /\ t.f.size = cue[g].size
                   /\ r.toc.end = FileBase(cue, (n + 1) + 1)
              /\ ~Waits(cue, n + 1, g) =>
                   ~opened(t.f) /\ r.toc.end = FileBase(cue, (n + 1) + 1) + cue[g].size
      BY <2>11 DEF base1
    <3>3. Entered(r, cue, n + 1)
      BY <2>7, <2>12, <2>13, <2>14, <3>1, <3>2 DEF Entered
    <3>4. QED
      BY <3>3 DEF r, c
<1>17. CASE c.cmd = "INDEX1"
  <2>1. n + 1 \in index1 /\ n + 1 \notin track /\ n + 1 \notin file /\ (n + 1) - 1 = n
    BY <1>1, <1>17 DEF Positions
  <2>2. PICK p0 \in track :
          /\ p0 < n + 1 /\ Waits(cue, n, p0)
          /\ \A i \in index0, f \in file :
               p0 < i /\ i < n + 1 /\ f < n + 1 /\ Waits(cue, n, f) => cue[i].at = 0
    BY <1>6, <2>1
  <2>3. p0 <= n
    BY <1>1, <2>2
  <2>4. /\ s.state = "READING" /\ cue[p0].number = k + 1
        /\ s.index0 = 0 \/ \E i \in index0 : p0 < i /\ i <= n /\ s.index0 = cue[i].at
    BY <1>4, <2>2, <2>3
  <2> DEFINE own == opened(row.f)
             table == r.toc
  <2>5. c.at \in Nat
    BY <1>1, <1>17 DEF CueCommands
  <2>6. r = CueIndex1(s, c.at)
    BY <1>17, <2>4 DEF CueCommand
  <2>7. /\ own => table = CueOwnFile(s.toc, s.index0, c.at)
        /\ ~own => table = CueFollows(s.toc, s.index0, c.at)
        /\ r.state = IF table.last >= MaxTracks THEN "FULL" ELSE "READING"
    <3>1. CueIndex1(s, c.at).toc = IF own THEN CueOwnFile(s.toc, s.index0, c.at)
                                   ELSE CueFollows(s.toc, s.index0, c.at)
      BY DEF CueIndex1, CueOK, Readers
    <3>2. CueIndex1(s, c.at).state =
            IF CueIndex1(s, c.at).toc.last >= MaxTracks THEN "FULL" ELSE "READING"
      BY <2>4, <3>1 DEF CueIndex1, CueOK, Readers
    <3>3. QED
      BY <2>6, <3>1, <3>2
  <2>8. ~opened(table.tracks[table.last].f)
    <3>1. ~opened(CueIndex1(s, c.at).toc.tracks[CueIndex1(s, c.at).toc.last].f)
      BY <2>4, <2>5, CueIndex1OK
    <3> HIDE DEF r
    <3>2. QED
      BY <2>6, <3>1
  <2>9. own => /\ Waits(cue, n, f0) /\ s.toc.end = base /\ row.f.size = cue[f0].size
               /\ s.index0 = 0
    <3>1. own => Waits(cue, n, f0) /\ s.toc.end = base /\ row.f.size = cue[f0].size
      BY <1>10, <2>4
    <3>2. ASSUME Waits(cue, n, f0) PROVE s.index0 = 0
      <4>1. f0 < n + 1
        BY <1>11
      <4>2. ASSUME NEW i \in index0, p0 < i, i <= n PROVE cue[i].at = 0
        <5>1. i < n + 1
          BY <1>1, <4>2
        <5>2. QED
          BY <1>11, <2>2, <3>2, <4>1, <4>2, <5>1
      <4>3. QED
        BY <2>4, <4>2
    <3>3. QED
      BY <3>1, <3>2
  <2>10. ~own => k > 0 /\ base = 0 /\ ~Waits(cue, n, f0) /\ s.toc.end = base + cue[f0].size
    <3>1. SUFFICES ASSUME ~own
                   PROVE  k > 0 /\ base = 0 /\ ~Waits(cue, n, f0)
                          /\ s.toc.end = base + cue[f0].size
      OBVIOUS
    <3>2. ~Waits(cue, n, f0) /\ s.toc.end = base + cue[f0].size
      BY <1>10, <2>4, <3>1
    <3>3. PICK q \in index1 : f0 < q /\ q <= n
      BY <3>2 DEF Waits
    <3>4. k > 0
      <4>1. PICK p \in track : p < q /\ Waits(cue, q - 1, p)
        BY <1>6
      <4>2. p <= n
        BY <1>1, <3>3, <4>1
      <4>3. cue[p].number \in 1 .. k
        BY <1>4, <3>3, <4>1, <4>2
      <4>4. QED
        BY <1>3, <4>3
    <3>5. ASSUME NEW f \in file, 1 < f, f < n + 1 PROVE FALSE
      <4>1. PICK g \in file : g < n + 1 /\ Waits(cue, n, g)
        BY <1>6, <2>1, <3>5
      <4>2. g <= n /\ g \in Nat
        BY <1>1, <4>1
      <4>3. g <= f0 /\ g # f0
        BY <1>11, <3>2, <4>1, <4>2
      <4>4. g < f0
        BY <1>11, <4>2, <4>3
      <4>5. ~Waits(cue, f0 - 1, g)
        BY <1>5, <1>11, <4>4
      <4>6. PICK i \in index1 : g < i /\ i <= f0 - 1
        BY <4>5 DEF Waits
      <4>7. i <= n
        BY <1>1, <1>11, <4>6
      <4>8. QED
        BY <4>1, <4>6, <4>7 DEF Waits
    <3>6. base = 0
      <4>1. \A f \in file : f < n + 1 => f = 1
        BY <1>1, <3>5
      <4>2. FilesBefore(cue, n + 1) = {1}
        <5>1. 1 < n + 1
          OBVIOUS
        <5>2. QED
          BY <1>5, <4>1, <5>1 DEF FilesBefore
      <4>3. Max({1}) = 1
        BY DEF Max
      <4>4. FilesBefore(cue, n + 1) \ {Max(FilesBefore(cue, n + 1))} = {}
        BY <4>2, <4>3
      <4>5. QED
        BY <4>4, NothingSums DEF base
    <3>7. QED
      BY <3>2, <3>4, <3>6
  <2>11. own => /\ table.last = k + 1 /\ table.tracks[k].start = base + c.at
                /\ table.tracks[k].type = row.type
                /\ table.end = base + cue[f0].size
                /\ \A i \in 0 .. k - 1 : table.tracks[i] = s.toc.tracks[i]
    <3> HIDE DEF r, c
    <3>0. SUFFICES ASSUME own
                   PROVE  /\ table.last = k + 1 /\ table.tracks[k].start = base + c.at
                          /\ table.tracks[k].type = row.type
                          /\ table.end = base + cue[f0].size
                          /\ \A i \in 0 .. k - 1 : table.tracks[i] = s.toc.tracks[i]
      OBVIOUS
    <3> DEFINE u == CueOwnFile(s.toc, s.index0, c.at)
    <3>1. u.last = s.toc.last + 1
      BY <1>3, OwnRows
    <3>2. CueOwnFile(s.toc, s.index0, c.at).tracks[s.toc.last].start = base + c.at
      BY <1>3, <1>8, <2>5, <2>9, <3>0, OwnStart
    <3>3. u.tracks[s.toc.last].type = s.toc.tracks[s.toc.last].type
      BY <1>3, OwnRows
    <3>4. \A i \in 0 .. s.toc.last - 1 : u.tracks[i] = s.toc.tracks[i]
      BY <1>3, OwnKeeps
    <3>5. u.tracks[s.toc.last].start = base + c.at
      BY <3>2
    <3>6. u.end = s.toc.end + s.toc.tracks[s.toc.last].f.size
      BY <1>3, OwnRows
    <3>7. u.end = base + cue[f0].size
      BY <2>9, <3>0, <3>6
    <3> HIDE DEF u
    <3>8. table = u
      BY <2>7, <3>0 DEF u
    <3>9. QED
      BY <3>1, <3>3, <3>4, <3>5, <3>7, <3>8
  <2>12. ~own => /\ table.last = k + 1 /\ table.tracks[k].start = c.at
                 /\ table.tracks[k].type = row.type
                 /\ table.end = s.toc.end
                 /\ table.tracks[k - 1] = [s.toc.tracks[k - 1] EXCEPT
                                            !.end = (IF s.index0 = 0 THEN c.at ELSE s.index0) - 1]
                 /\ \A i \in 0 .. k - 2 : table.tracks[i] = s.toc.tracks[i]
    <3> HIDE DEF r, c
    <3>0. SUFFICES ASSUME ~own PROVE
                 /\ table.last = k + 1 /\ table.tracks[k].start = c.at
                 /\ table.tracks[k].type = row.type
                 /\ table.end = s.toc.end
                 /\ table.tracks[k - 1] = [s.toc.tracks[k - 1] EXCEPT
                                            !.end = (IF s.index0 = 0 THEN c.at ELSE s.index0) - 1]
                 /\ \A i \in 0 .. k - 2 : table.tracks[i] = s.toc.tracks[i]
      OBVIOUS
    <3> DEFINE u == CueFollows(s.toc, s.index0, c.at)
    <3>1. s.toc.last > 0
      BY <2>10, <3>0
    <3>2. u.last = s.toc.last + 1 /\ u.end = s.toc.end
      BY <1>3, <3>1, FollowsRows
    <3>3. u.tracks[s.toc.last].start = c.at
      BY <1>3, <3>1, FollowsStart
    <3>4. u.tracks[s.toc.last].type = s.toc.tracks[s.toc.last].type
      BY <1>3, <3>1, FollowsRows
    <3>5. u.tracks[s.toc.last - 1] = [s.toc.tracks[s.toc.last - 1] EXCEPT
                                       !.end = (IF s.index0 = 0 THEN c.at ELSE s.index0) - 1]
      BY <1>3, <3>1, FollowsRows
    <3>6. \A i \in 0 .. s.toc.last - 2 : u.tracks[i] = s.toc.tracks[i]
      BY <1>3, FollowsKeeps
    <3> HIDE DEF u
    <3>7. table = u
      BY <2>7, <3>0 DEF u
    <3>8. QED
      BY <3>2, <3>3, <3>4, <3>5, <3>6, <3>7
  <2> HIDE DEF own, table, r, row
  <2>13. /\ table.last = k + 1 /\ table.tracks[k].start = base + c.at
         /\ table.tracks[k].type = row.type /\ table.end = base1 + cue[f0].size
    <3>1. CASE own
      BY <1>12, <2>1, <2>11, <3>1
    <3>2. CASE ~own
      <4>1. base + c.at = c.at /\ s.toc.end = base1 + cue[f0].size
        BY <1>12, <2>1, <2>5, <2>10, <3>2
      <4>2. QED
        BY <2>12, <3>2, <4>1
    <3>3. QED
      BY <3>1, <3>2
  <2>14. ASSUME NEW i \in 0 .. k - 1
         PROVE  /\ table.tracks[i].start = s.toc.tracks[i].start
                /\ table.tracks[i].type = s.toc.tracks[i].type
    <3>1. CASE own
      BY <2>11, <3>1
    <3>2. CASE ~own /\ i = k - 1
      <4>1. k - 1 \in 0 .. MaxTracks
        BY <1>3, <2>10, <3>2
      <4>2. s.toc.tracks[k - 1] \in TrackSet
        BY <1>3, <4>1 DEF Tables
      <4>3. QED
        BY <2>12, <3>2, <4>2 DEF TrackSet
    <3>3. CASE ~own /\ i # k - 1
      <4> HIDE DEF k
      <4>1. i \in 0 .. k - 2
        BY <1>3, <3>3
      <4>2. QED
        BY <2>12, <3>3, <4>1
    <3>4. QED
      BY <3>1, <3>2, <3>3
  <2>15. \A p \in track : p <= n + 1 <=> p <= n
    BY <1>1, <2>1
  <2>16. \A p \in Nat : p <= n => ~Waits(cue, n + 1, p)
    <3>1. ASSUME NEW p \in Nat, p <= n PROVE p < n + 1 /\ n + 1 <= n + 1
      BY <1>1, <3>1
    <3>2. QED
      BY <2>1, <3>1 DEF Waits
  <2>17. ASSUME NEW p \in track, NEW q \in index1, p < q, q <= n + 1, Waits(cue, q - 1, p)
         PROVE  /\ cue[p].number \in 1 .. k + 1
                /\ table.tracks[cue[p].number - 1].type = cue[p].type
                /\ table.tracks[cue[p].number - 1].start = FileBase(cue, q) + cue[q].at
    <3>1. p <= n
      BY <1>1, <2>17
    <3>2. CASE q = n + 1
      <4>1. q - 1 = n
        BY <3>2
      <4>2. cue[p].number = k + 1 /\ row.type = cue[p].type
        BY <1>4, <2>17, <3>1, <4>1 DEF row
      <4>3. cue[p].number \in 1 .. k + 1 /\ cue[p].number - 1 = k
        <5> HIDE DEF k
        <5>1. QED
          BY <1>2, <1>3, <4>2
      <4>4. QED
        BY <2>13, <3>2, <4>2, <4>3 DEF base
    <3>3. CASE q # n + 1
      <4>1. q <= n
        BY <1>1, <2>17, <3>3
      <4>2. /\ cue[p].number \in 1 .. k
            /\ s.toc.tracks[cue[p].number - 1].type = cue[p].type
            /\ s.toc.tracks[cue[p].number - 1].start = FileBase(cue, q) + cue[q].at
        BY <1>4, <2>17, <3>1, <4>1
      <4>3. cue[p].number - 1 \in 0 .. k - 1 /\ cue[p].number \in 1 .. k + 1
        <5> HIDE DEF k
        <5>1. cue[p].number \in Nat /\ cue[p].number >= 1 /\ cue[p].number <= k /\ k \in Nat
          BY <1>2, <1>3, <4>2
        <5>2. QED
          BY <5>1
      <4>4. QED
        BY <2>14, <4>2, <4>3
    <3>4. QED
      BY <3>2, <3>3
  <2>18. ASSUME NEW t \in 1 .. k + 1
         PROVE  \E p \in track : p <= n + 1 /\ cue[p].number = t /\ ~Waits(cue, n + 1, p)
    <3>1. CASE t = k + 1
      BY <1>1, <2>3, <2>4, <2>15, <2>16, <3>1
    <3>2. CASE t # k + 1
      <4> HIDE DEF k
      <4>1. t \in 1 .. k
        BY <1>3, <3>2
      <4>2. QED
        BY <1>1, <1>4, <2>15, <2>16, <4>1
    <3>3. QED
      BY <3>1, <3>2
  <2>19. r.state = "FULL" => table.last >= MaxTracks
    BY <2>7
  <2>20. \A p \in track : p <= n + 1 => ~Waits(cue, n + 1, p)
    BY <1>1, <2>15, <2>16
  <2>21. \A g \in file :
           Current(cue, n + 1, g) => ~Waits(cue, n + 1, g) /\ cue[g].size = cue[f0].size
    <3>1. ASSUME NEW g \in file, Current(cue, n + 1, g) PROVE g = f0
      BY <1>13, <2>1, <3>1
    <3>2. QED
      BY <1>11, <2>16, <3>1
  <2>22. QED
    <3> HIDE DEF c, k
    <3>1. \A g \in file :
            Current(cue, n + 1, g) =>
              /\ Waits(cue, n + 1, g) =>
                   /\ opened(table.tracks[table.last].f)
                   /\ table.tracks[table.last].f.size = cue[g].size
                   /\ table.end = FileBase(cue, (n + 1) + 1)
              /\ ~Waits(cue, n + 1, g) =>
                   /\ ~opened(table.tracks[table.last].f)
                   /\ table.end = FileBase(cue, (n + 1) + 1) + cue[g].size
      BY <2>8, <2>13, <2>21 DEF base1
    <3>2. Entered(r, cue, n + 1)
      BY <2>13, <2>17, <2>18, <2>19, <2>20, <3>1 DEF Entered, table
    <3>3. QED
      BY <3>2 DEF r, c
<1>18. QED
  BY <1>7, <1>14, <1>15, <1>16, <1>17

(* Its first command leaves no track entered.                              *)
LEMMA EnteredFirst ==
  ASSUME NEW cue \in Seq(CueCommands), 1 \in Positions(cue, "FILE"),
         CueCommand(CueStart, cue[1]).state # "FAILED"
  PROVE  Entered(CueCommand(CueStart, cue[1]), cue, 1)
<1> DEFINE c == cue[1]
           r == CueCommand(CueStart, c)
           f == IF c.found /\ c.binary
                THEN [file |-> c.file, size |-> c.size, pos |-> 0] ELSE NoFile
           offset == IF c.found THEN 0 ELSE NoTrack.offset
           t == [NoTrack EXCEPT !.f = f, !.offset = offset]
           state == IF opened(f) THEN "READING" ELSE "FAILED"
<1>1. /\ 1 \in DOMAIN cue /\ c.cmd = "FILE" /\ c \in CueCommands
      /\ DOMAIN cue = 1 .. Len(cue) /\ Len(cue) \in Nat
  BY DEF Positions
<1>2. /\ CueOK(CueStart) /\ CueStart.toc = EmptyToc /\ CueStart.index0 = 0
      /\ CueStart.state = "READING" /\ EmptyToc.last = 0 /\ EmptyToc.end = 0
      /\ EmptyToc.tracks[0] = NoTrack
  BY CueStartOK, CdImageAssumption DEF CueStart, EmptyToc
<1>3. c.file \in Names /\ c.size \in Nat /\ NoTrack.offset = 0
  BY <1>1 DEF CueCommands, NoTrack
<1>4. f \in FileSet /\ (opened(f) => f.size = c.size)
  BY <1>3 DEF FileSet, NoFile, Names, opened
<1>5. t \in TrackSet /\ t.f = f
  <2>1. NoTrack \in TrackSet
    BY DEF NoTrack, NoFile, TrackSet, FileSet, TrackTypes
  <2>2. offset \in Int
    BY <1>3
  <2> HIDE DEF f, offset
  <2>3. QED
    BY <1>4, <2>1, <2>2 DEF TrackSet
<1>6. r = Entry(CueStart, t, 0, state)
  BY <1>1, <1>2 DEF CueCommand, CueFile
<1> HIDE DEF r, t, f
<1>7. r.toc.last = 0 /\ r.toc.end = 0 /\ r.state = state /\ r.toc.tracks[0] = t
  BY <1>2, <1>5, <1>6, EntryRows
<1>8. r.state = "READING" /\ opened(f)
  <2>1. r.state # "FAILED"
    BY DEF r
  <2>2. QED
    BY <1>7, <2>1
<1>9. /\ \A p \in Positions(cue, "TRACK") : ~(p <= 1)
      /\ \A q \in Positions(cue, "INDEX1") : ~(q <= 1)
      /\ \A g \in Positions(cue, "FILE") : g \in Nat \ {0}
  <2>1. ASSUME NEW p \in DOMAIN cue, p <= 1 PROVE p = 1
    BY <1>1, <2>1
  <2>2. QED
    BY <1>1, <2>1 DEF Positions
<1>10. \A p : Waits(cue, 1, p)
  BY <1>9 DEF Waits
<1>11. FileBase(cue, 1 + 1) = 0
  <2>1. \A g \in Positions(cue, "FILE") : g < 1 + 1 <=> g = 1
    BY <1>9
  <2>2. FilesBefore(cue, 1 + 1) = {1}
    BY <2>1 DEF FilesBefore
  <2>3. Max({1}) = 1
    BY DEF Max
  <2>4. FilesBefore(cue, 1 + 1) \ {Max(FilesBefore(cue, 1 + 1))} = {}
    BY <2>2, <2>3
  <2>5. QED
    BY <2>4, NothingSums
<1>12. ASSUME NEW g \in Positions(cue, "FILE"), Current(cue, 1, g) PROVE g = 1
  BY <1>9, <1>12 DEF Current
<1>13. \A g \in Positions(cue, "FILE") :
         Current(cue, 1, g) =>
           /\ opened(r.toc.tracks[r.toc.last].f)
           /\ r.toc.tracks[r.toc.last].f.size = cue[g].size
           /\ r.toc.end = FileBase(cue, 1 + 1)
  BY <1>4, <1>5, <1>7, <1>8, <1>11, <1>12
<1>14. Entered(r, cue, 1)
  <2>1. 1 .. 0 = {}
    OBVIOUS
  <2>2. QED
    BY <1>7, <1>8, <1>9, <1>10, <1>13, <2>1 DEF Entered
<1>15. QED
  BY <1>14 DEF r

(* What its commands make of the tracks.                                   *)
LEMMA AllEntered ==
  ASSUME NEW image, image.cue \in Seq(CueCommands), ListableCue(image.cue),
         load_cue(image).state # "FAILED"
  PROVE  Entered(load_cue(image), image.cue, Len(image.cue))
<1> DEFINE cue == image.cue
           after(n) == CueIter(cue)[1 .. n]
           Good(n) == /\ CueOK(after(n))
                      /\ after(n).state # "FAILED" => Entered(after(n), cue, n)
           S == {n \in Nat : n + 1 <= Len(cue) => Good(n + 1)}
<1>0. 1 \in Positions(cue, "FILE")
  BY DEF ListableCue
<1>1. /\ Len(cue) \in Nat /\ DOMAIN cue = 1 .. Len(cue) /\ 1 \in 0 .. Len(cue)
      /\ Len(cue) > 0 /\ cue \in Seq(CueCommands)
      /\ \A n \in 1 .. Len(cue) : cue[n] \in CueCommands
  <2>1. 1 \in DOMAIN cue
    BY <1>0 DEF Positions
  <2>2. QED
    BY <2>1
<1>2. 0 \in S
  <2>1. after(1) = CueCommand(CueStart, cue[1])
    <3>1. 1 .. 1 - 1 = {} /\ 1 > 0
      OBVIOUS
    <3>2. CueIter(cue)[1 .. 1] = CueCommand(CueIter(cue)[1 .. 1 - 1], cue[1])
      BY <1>1, <3>1, CueFold
    <3>3. CueIter(cue)[{}] = CueStart
      BY <1>1, CueFold
    <3>4. QED
      BY <3>1, <3>2, <3>3
  <2> HIDE DEF after, cue
  <2>2. CueOK(after(1))
    <3>1. cue[1] \in CueCommands
      BY <1>1
    <3>2. QED
      BY <2>1, <3>1, CueStartOK, CueCommandOK
  <2>4. after(1).state # "FAILED" => Entered(after(1), cue, 1)
    BY <1>0, <1>1, <2>1, EnteredFirst
  <2>5. 0 + 1 = 1
    OBVIOUS
  <2> HIDE DEF Good
  <2>6. Good(0 + 1)
    BY <2>2, <2>4, <2>5 DEF Good
  <2>7. QED
    BY <2>6
<1>3. ASSUME NEW k \in Nat, k \in S PROVE k + 1 \in S
  <2> DEFINE n == k + 1
  <2>1. SUFFICES ASSUME n + 1 <= Len(cue) PROVE Good(n + 1)
    OBVIOUS
  <2>2. /\ n \in Nat \ {0} /\ n + 1 \in 0 .. Len(cue) /\ n + 1 > 0 /\ (n + 1) - 1 = n
        /\ n <= Len(cue)
    BY <1>1, <2>1
  <2>3. Good(n)
    BY <1>3, <2>2
  <2> HIDE DEF n
  <2>4. after(n + 1) = CueCommand(after(n), cue[n + 1])
    BY <1>1, <2>2, CueFold
  <2>5. cue[n + 1] \in CueCommands
    BY <1>1, <2>2
  <2>6. /\ CueOK(after(n))
        /\ after(n).state # "FAILED" => Entered(after(n), cue, n)
    BY <2>3
  <2>7. n + 1 <= Len(cue) /\ ListableCue(cue)
    BY <2>1
  <2> HIDE DEF after, cue
  <2>8. CueOK(after(n + 1))
    BY <2>4, <2>5, <2>6, CueCommandOK
  <2>9. CASE after(n).state = "FAILED"
    <3>1. after(n + 1).state = "FAILED"
      BY <2>4, <2>9 DEF CueCommand
    <3>2. QED
      BY <2>8, <3>1
  <2>10. CASE after(n).state # "FAILED"
    <3>2. after(n + 1).state # "FAILED" => Entered(after(n + 1), cue, n + 1)
      BY <1>1, <2>2, <2>4, <2>6, <2>7, <2>10, EnteredStep
    <3>3. QED
      BY <2>8, <3>2
  <2>11. QED
    BY <2>9, <2>10
<1>4. Good(Len(cue))
  <2>1. Len(cue) - 1 \in S
    <3>1. Len(cue) - 1 \in Nat
      BY <1>1
    <3> HIDE DEF S
    <3>2. QED
      BY <1>2, <1>3, <3>1, Induction
  <2>2. (Len(cue) - 1) + 1 = Len(cue) /\ Len(cue) <= Len(cue)
    BY <1>1
  <2> HIDE DEF Good
  <2>3. QED
    BY <2>1, <2>2
<1>5. load_cue(image) = after(Len(cue))
  BY <1>1, CueUnfold
<1> HIDE DEF after
<1>6. QED
  BY <1>4, <1>5

(* The table lists the tracks of the sheet.                                *)
LEMMA CueListed ==
  ASSUME NEW image, image.cue \in Seq(CueCommands), ListableCue(image.cue),
         load_cue(image).state # "FAILED"
  PROVE  LET table == load_cue(image).toc
         IN TrackList(table) = CueTracks(image.cue) /\ Timed(table)
<1> DEFINE cue == image.cue
           table == load_cue(image).toc
           k == table.last
           track == Positions(cue, "TRACK")
           index1 == Positions(cue, "INDEX1")
           later(p) == {q \in index1 : q > p}
           first(p) == Min(later(p))
           told(p) == [number |-> cue[p].number, audio |-> cue[p].type = "AUDIO",
                       start |-> FileBase(cue, first(p)) + cue[first(p)].at]
           row(t) == [number |-> t, audio |-> table.tracks[t - 1].type = "AUDIO",
                      start |-> table.tracks[t - 1].start]
<1>1. /\ Len(cue) \in Nat /\ DOMAIN cue = 1 .. Len(cue)
      /\ track \subseteq 1 .. Len(cue) /\ index1 \subseteq 1 .. Len(cue)
      /\ \A p \in 1 .. Len(cue) : cue[p] \in CueCommands
  BY DEF Positions
<1>2. /\ \A p \in track : \E q \in index1 : p < q
      /\ \A q \in index1 : FileBase(cue, q) + cue[q].at < MsfEnd
      /\ 1 \in Positions(cue, "FILE")
  BY DEF ListableCue
<1>3. Entered(load_cue(image), cue, Len(cue))
  BY AllEntered
<1>4. /\ \A p \in track, q \in index1 :
           p < q /\ Waits(cue, q - 1, p) =>
             /\ cue[p].number \in 1 .. k
             /\ table.tracks[cue[p].number - 1].type = cue[p].type
             /\ table.tracks[cue[p].number - 1].start = FileBase(cue, q) + cue[q].at
      /\ \A t \in 1 .. k : \E p \in track : cue[p].number = t
  <2>1. /\ \A p \in track : p <= Len(cue)
        /\ \A q \in index1 : q <= Len(cue)
    BY <1>1
  <2>2. /\ \A p \in {p \in track : p <= Len(cue)}, q \in index1 :
             p < q /\ q <= Len(cue) /\ Waits(cue, q - 1, p) =>
               /\ cue[p].number \in 1 .. k
               /\ table.tracks[cue[p].number - 1].type = cue[p].type
               /\ table.tracks[cue[p].number - 1].start = FileBase(cue, q) + cue[q].at
        /\ \A t \in 1 .. k : \E p \in {p \in track : p <= Len(cue)} : cue[p].number = t
    BY <1>3 DEF Entered
  <2>3. {p \in track : p <= Len(cue)} = track
    BY <2>1
  <2>4. QED
    BY <2>1, <2>2, <2>3
<1> HIDE DEF table, cue
<1>5. ASSUME NEW p \in track
      PROVE  /\ first(p) \in index1 /\ p < first(p) /\ Waits(cue, first(p) - 1, p)
             /\ FileBase(cue, first(p)) + cue[first(p)].at \in Nat
             /\ FileBase(cue, first(p)) + cue[first(p)].at < MsfEnd
  <2>1. later(p) \subseteq Nat /\ later(p) # {}
    BY <1>1, <1>2
  <2>2. first(p) \in later(p) /\ \A q \in later(p) : first(p) <= q
    <3> HIDE DEF later
    <3>1. QED
      BY <2>1, MinIs
  <2>3. first(p) \in index1 /\ p < first(p)
    BY <1>1, <2>2
  <2>4. first(p) \in Nat /\ first(p) \in 1 .. Len(cue)
    BY <1>1, <2>3
  <2>5. \A q \in index1 : p < q => first(p) <= q
    BY <1>1, <2>2
  <2> HIDE DEF first
  <2>6. Waits(cue, first(p) - 1, p)
    <3>1. ASSUME NEW q \in index1, p < q, q <= first(p) - 1 PROVE FALSE
      BY <1>1, <2>4, <2>5, <3>1
    <3>2. QED
      BY <3>1 DEF Waits
  <2>7. cue[first(p)].at \in Nat
    <3>1. cue[first(p)] \in CueCommands /\ cue[first(p)].cmd = "INDEX1"
      BY <1>1, <2>3, <2>4 DEF Positions
    <3>2. QED
      BY <3>1 DEF CueCommands
  <2>8. FileBase(cue, first(p)) \in Nat
    BY <1>2, <2>4, Bases DEF cue
  <2>9. QED
    BY <1>2, <2>3, <2>6, <2>7, <2>8
<1> HIDE DEF first
<1>6. ASSUME NEW p \in track
      PROVE  /\ cue[p].number \in 1 .. k
             /\ table.tracks[cue[p].number - 1].type = cue[p].type
             /\ table.tracks[cue[p].number - 1].start = FileBase(cue, first(p)) + cue[first(p)].at
  BY <1>4, <1>5
<1>7. ASSUME NEW p \in track PROVE told(p) = row(cue[p].number)
  BY <1>6
<1>8. CueTracks(cue) = {told(p) : p \in track}
  BY DEF CueTracks, first
<1>9. TrackList(table) = {row(t) : t \in 1 .. k}
  BY DEF TrackList
<1>10. {told(p) : p \in track} = {row(t) : t \in 1 .. k}
  <2> HIDE DEF told, row, track, k
  <2>1. \A p \in track : \E t \in 1 .. k : told(p) = row(t)
    BY <1>6, <1>7
  <2>2. \A t \in 1 .. k : \E p \in track : told(p) = row(t)
    BY <1>4, <1>7
  <2>3. QED
    BY <2>1, <2>2
<1>11. Timed(table)
  <2>1. ASSUME NEW t \in 1 .. k
        PROVE  table.tracks[t - 1].start \in Nat /\ table.tracks[t - 1].start < MsfEnd
    <3>1. PICK p \in track : cue[p].number = t
      BY <1>4
    <3>2. QED
      BY <1>5, <1>6, <3>1
  <2>2. QED
    BY <2>1 DEF Timed
<1>12. QED
  BY <1>8, <1>9, <1>10, <1>11 DEF table, cue

-----------------------------------------------------------------------------
(* What the table of contents says.                                        *)

(* Images whose tables are proved to list their tracks.                    *)
Listable(image) ==
  \/ image.kind = "chd" /\ ListableChd(image.chd)
  \/ image.kind = "cue" /\ ListableCue(image.cue)

(* The table and the reply that is ready, of such an image.                *)
TableListed ==
  /\ disc # NoDisc => toc_buffer = prepare_toc_buffer(toc)
  /\ Listable(disc) => TrackList(toc) = DiscTracks /\ Timed(toc)

(* A call for the table of contents fills the first slot with it, then     *)
(* others with what it may.                                                *)
CallListed ==
  Alive /\ disc # NoDisc /\ asked[2] > 0 /\ asked[1] < 0 =>
    /\ call.loop = "OUTER" /\ call.slot = 1 => call.lba = asked[1]
    /\ call.loop = "INNER" => call.slot > 1
    /\ call.loop = "IDLE" \/ call.slot > 1 =>
         buffer[1] = toc_data(toc_buffer, asked[1] - TOC_LBA)

ListInv == TableListed /\ CallListed

LEMMA InitList == Init => ListInv
<1> SUFFICES ASSUME Init PROVE ListInv
  OBVIOUS
<1>1. asked = <<0, 0>> /\ disc = NoDisc /\ disc.kind = "none"
  BY NoDiscKind DEF Init
<1>2. ~(asked[2] > 0) /\ ~Listable(disc)
  BY <1>1 DEF Listable
<1>3. QED
  BY <1>1, <1>2 DEF ListInv, TableListed, CallListed

LEMMA MountList == ASSUME HostInv, ListInv, pcfx_mount_cd PROVE ListInv'
<1>1. asked' = <<0, 0>>
  BY DEF pcfx_mount_cd
<1>2. CallListed'
  <2>1. ~(asked'[2] > 0)
    BY <1>1
  <2>2. QED
    BY <2>1 DEF CallListed
<1>3. TableListed'
  <2>1. CASE Unmounted
    <3>1. disc' = NoDisc /\ disc'.kind # "chd" /\ disc'.kind # "cue"
      BY <2>1, NoDiscKind DEF Unmounted
    <3>2. QED
      BY <3>1 DEF TableListed, Listable
  <2>2. ASSUME NEW image \in shelf, MountCue(image), ~Unmounted PROVE TableListed'
    <3>1. image.kind = "cue" /\ shelf \in Shelves
      BY <2>2 DEF MountCue, HostInv, MountOK
    <3>2. image.cue \in Seq(CueCommands)
      BY <3>1, ImageAssumption
    <3>3. /\ load_cue(image).state # "FAILED" /\ disc' = image /\ toc' = load_cue(image).toc
          /\ toc_buffer' = prepare_toc_buffer(toc')
      BY <2>2 DEF MountCue, Mounted
    <3>4. Listable(disc)' => TrackList(toc') = DiscTracks' /\ Timed(toc')
      <4>1. SUFFICES ASSUME ListableCue(image.cue)
                     PROVE  TrackList(toc') = CueTracks(image.cue) /\ Timed(toc')
        BY <3>1, <3>3 DEF Listable, DiscTracks
      <4>2. QED
        BY <3>2, <3>3, <4>1, CueListed
    <3>5. QED
      BY <3>3, <3>4 DEF TableListed
  <2>3. ASSUME NEW image \in shelf, MountChd(image), ~Unmounted PROVE TableListed'
    <3>1. image.kind = "chd" /\ shelf \in Shelves
      BY <2>3 DEF MountChd, HostInv, MountOK
    <3>2. /\ image.chd \in Seq(ChdRecords) /\ image.name \in Names
          /\ image.sph \in Nat \ {0}
      BY <3>1, ImageAssumption
    <3>3. CASE UNCHANGED mountvars
      <4>1. toc' = toc /\ toc_buffer' = toc_buffer /\ disc' = disc
        BY <3>3 DEF mountvars
      <4>2. DiscTracks' = DiscTracks
        BY <4>1 DEF DiscTracks
      <4>3. QED
        BY <4>1, <4>2 DEF ListInv, TableListed
    <3>4. CASE ~(UNCHANGED mountvars)
      <4>1. /\ disc' = image /\ toc' = load_chd(image)
            /\ toc_buffer' = prepare_toc_buffer(toc')
        BY <2>3, <3>4 DEF MountChd, Mounted
      <4>2. Listable(disc)' => TrackList(toc') = DiscTracks' /\ Timed(toc')
        <5>1. SUFFICES ASSUME ListableChd(image.chd)
                       PROVE  TrackList(toc') = ChdTracks(image.chd) /\ Timed(toc')
          BY <3>1, <4>1 DEF Listable, DiscTracks
        <5>2. Len(image.chd) <= MaxTracks
          BY <5>1 DEF ListableChd
        <5>3. Layout(toc', image.chd, Len(image.chd), 1)
          BY <3>2, <4>1, <5>2, ChdLaid
        <5>4. QED
          BY <3>2, <5>1, <5>3, ChdListed
      <4>3. QED
        BY <4>1, <4>2 DEF TableListed
    <3>5. QED
      BY <3>3, <3>4
  <2>4. QED
    BY <2>1, <2>2, <2>3 DEF pcfx_mount_cd, MountNothing
<1>4. QED
  BY <1>2, <1>3 DEF ListInv

(* A read leaves what the table lists as it is.                            *)
LEMMA StillListed ==
  ASSUME HostInv, TableListed, Still(toc, toc'), toc_buffer' = toc_buffer, disc' = disc
  PROVE  TableListed'
<1>1. /\ toc \in Tables /\ toc.last \in 0 .. MaxTracks /\ MaxTracks \in Nat
      /\ toc'.last = toc.last
  BY CdImageAssumption DEF HostInv, MountOK, Tables, Still
<1>2. ASSUME NEW t \in 1 .. toc.last
      PROVE  /\ toc'.tracks[t - 1].start = toc.tracks[t - 1].start
             /\ toc'.tracks[t - 1].type = toc.tracks[t - 1].type
  <2>1. t - 1 \in 0 .. MaxTracks
    BY <1>1
  <2>2. QED
    BY <2>1 DEF Still
<1>3. prepare_toc_buffer(toc') = prepare_toc_buffer(toc)
  BY <1>1, <1>2 DEF prepare_toc_buffer
<1>4. TrackList(toc') = TrackList(toc) /\ (Timed(toc) => Timed(toc'))
  BY <1>1, <1>2 DEF TrackList, Timed
<1>5. DiscTracks' = DiscTracks
  BY DEF DiscTracks
<1>6. QED
  BY <1>3, <1>4, <1>5 DEF TableListed

LEMMA CallLists ==
  ASSUME HostInv, ListInv, NEW r \in Requests, pcfx_read_cd(r[1], r[2])
  PROVE  ListInv'
<1>1. /\ call' = Outer(r[1], r[2], 1) /\ asked' = <<r[1], r[2]>>
      /\ disc' = disc /\ toc' = toc /\ toc_buffer' = toc_buffer
  BY DEF pcfx_read_cd
<1>2. r[1] \in Int /\ r[2] \in Nat \ {0}
  BY CdHostAssumption
<1>3. call' = [loop |-> "OUTER", lba |-> r[1], cnt |-> r[2], slot |-> 1, i |-> 0]
  BY <1>1, <1>2 DEF Outer
<1>4. TableListed'
  <2>1. Still(toc, toc')
    BY <1>1 DEF Still
  <2>2. QED
    BY <1>1, <2>1, StillListed DEF ListInv
<1>5. CallListed'
  BY <1>1, <1>3 DEF CallListed
<1>6. QED
  BY <1>4, <1>5 DEF ListInv

LEMMA TocLists == ASSUME HostInv, ReadInv, ListInv, ReadToc PROVE ListInv'
<1>1. /\ call.loop = "OUTER" /\ asked' = asked /\ disc' = disc /\ toc' = toc
      /\ toc_buffer' = toc_buffer /\ hunkmem' = hunkmem
      /\ call' = Outer(call.lba + 1, call.cnt - 1, call.slot + 1)
      /\ buffer' = [buffer EXCEPT ![call.slot] =
           IF call.lba >= 0 \/ toc_buffer = <<>> THEN Zero
           ELSE toc_data(toc_buffer, call.lba - TOC_LBA)]
  BY DEF ReadToc, Put, mountvars, hunkvars
<1>2. /\ DOMAIN buffer = 1 .. Slots /\ Slots \in Nat /\ call.slot \in Nat /\ call.slot > 0
      /\ call.cnt \in Nat /\ call.cnt > 0 /\ call.slot + call.cnt <= Slots + 1
      /\ call.lba \in Int /\ asked[1] \in Int
  BY <1>1 DEF HostInv, CallOK, ReadInv
<1>3. TableListed'
  <2>1. Still(toc, toc')
    BY <1>1 DEF Still
  <2>2. QED
    BY <1>1, <2>1, StillListed DEF ListInv
<1>4. CallListed'
  <2>1. SUFFICES ASSUME Alive, disc # NoDisc, asked[2] > 0, asked[1] < 0
                 PROVE  /\ call'.loop = "OUTER" => call'.slot > 1
                        /\ call'.loop # "INNER"
                        /\ buffer'[1] = toc_data(toc_buffer, asked[1] - TOC_LBA)
    <3>1. (call.slot + 1 = 1) = FALSE /\ ~(call'.slot > 1 /\ call'.slot = 1)
      BY <1>2
    <3>2. QED
      BY <1>1, <2>1, <3>1 DEF CallListed, Alive
  <2>2. /\ call'.loop = "OUTER" => call'.slot > 1
        /\ call'.loop # "INNER"
    BY <1>1, <1>2 DEF Outer, Idle
  <2>3. buffer'[1] = toc_data(toc_buffer, asked[1] - TOC_LBA)
    <3>1. CASE call.slot = 1
      <4>1. call.lba = asked[1]
        BY <1>1, <2>1, <3>1 DEF ListInv, CallListed
      <4>2. toc_buffer # <<>>
        <5>1. toc_buffer = prepare_toc_buffer(toc)
          BY <2>1 DEF ListInv, TableListed
        <5>2. toc.last \in Nat /\ toc.last > 0
          BY <2>1, CdImageAssumption DEF ReadInv, TableRead, HostInv, MountOK, Tables
        <5>3. DOMAIN toc_buffer = 1 .. toc.last
          BY <5>1 DEF prepare_toc_buffer
        <5>4. 1 \in DOMAIN toc_buffer
          BY <5>2, <5>3
        <5>5. QED
          BY <5>4
      <4>3. ~(call.lba >= 0) /\ 1 \in DOMAIN buffer
        BY <1>2, <2>1, <4>1
      <4>4. QED
        BY <1>1, <3>1, <4>1, <4>2, <4>3
    <3>2. CASE call.slot # 1
      <4>1. call.slot > 1 /\ 1 \in DOMAIN buffer
        BY <1>2, <3>2
      <4>2. buffer[1] = toc_data(toc_buffer, asked[1] - TOC_LBA)
        BY <2>1, <4>1 DEF ListInv, CallListed
      <4>3. QED
        BY <1>1, <3>2, <4>1, <4>2
    <3>3. QED
      BY <3>1, <3>2
  <2>4. QED
    BY <2>2, <2>3
<1>5. QED
  BY <1>3, <1>4 DEF ListInv

(* In a track, such a call has its first slot filled already.              *)
LEMMA LaterListed ==
  ASSUME HostInv, ListInv, call.loop # "IDLE",
         Alive /\ disc # NoDisc /\ asked[2] > 0 /\ asked[1] < 0 => call.slot > 1,
         asked' = asked, disc' = disc, toc_buffer' = toc_buffer, hunkmem' = hunkmem,
         \A k \in 1 .. Slots : k # call.slot => buffer'[k] = buffer[k],
         call'.loop = "IDLE" \/ call'.slot >= call.slot,
         call'.loop = "IDLE" \/ call'.slot \in Nat
  PROVE  CallListed'
<1>1. /\ Slots \in Nat /\ call.slot \in Nat /\ call.slot > 0 /\ call.cnt > 0 /\ call.cnt \in Nat
      /\ call.slot + call.cnt <= Slots + 1
  BY DEF HostInv, CallOK
<1>2. SUFFICES ASSUME Alive, disc # NoDisc, asked[2] > 0, asked[1] < 0
               PROVE  /\ call'.loop = "IDLE" \/ call'.slot > 1
                      /\ buffer'[1] = toc_data(toc_buffer, asked[1] - TOC_LBA)
  <2>1. call'.slot > 1 => call'.slot # 1
    OBVIOUS
  <2>2. QED
    BY <1>2, <2>1 DEF CallListed, Alive
<1>3. call.slot > 1
  BY <1>2
<1>4. call'.loop = "IDLE" \/ call'.slot > 1
  BY <1>1, <1>3
<1>5. 1 \in 1 .. Slots /\ 1 # call.slot
  BY <1>1, <1>3
<1>6. buffer[1] = toc_data(toc_buffer, asked[1] - TOC_LBA)
  BY <1>2, <1>3 DEF ListInv, CallListed
<1>7. QED
  BY <1>4, <1>5, <1>6

(* The slot a call is at after a sector or after none.                     *)
LEMMA OuterSlot ==
  ASSUME NEW lba, NEW cnt, NEW slot
  PROVE  Outer(lba, cnt, slot).loop = "IDLE" \/ Outer(lba, cnt, slot).slot = slot
BY DEF Outer, Idle

LEMMA NextSlot ==
  ASSUME HostInv, call.loop # "IDLE"
  PROVE  \/ NextSector.loop = "IDLE"
         \/ NextSector.slot \in Nat /\ NextSector.slot >= call.slot
<1>1. /\ call \in [loop : {"IDLE", "OUTER", "INNER"}, lba : Int, cnt : Nat, slot : Nat, i : Nat]
  BY DEF HostInv, CallOK
<1>2. CASE call.lba + 1 > toc.tracks[call.i].end
  <2>1. NextSector = Outer(call.lba + 1, call.cnt - 1, call.slot)
    BY <1>2 DEF NextSector
  <2>2. QED
    BY <1>1, <2>1, OuterSlot
<1>3. CASE ~(call.lba + 1 > toc.tracks[call.i].end) /\ call.cnt = 1
  BY <1>3 DEF NextSector, Idle
<1>4. CASE ~(call.lba + 1 > toc.tracks[call.i].end) /\ call.cnt # 1
  <2>1. NextSector = [call EXCEPT !.lba = @ + 1, !.cnt = @ - 1, !.slot = @ + 1]
    BY <1>4 DEF NextSector
  <2>2. NextSector.slot = call.slot + 1
    BY <1>1, <2>1
  <2>3. QED
    BY <1>1, <2>2
<1>5. QED
  BY <1>2, <1>3, <1>4

LEMMA FindLists == ASSUME HostInv, ReadInv, ListInv, FindTrack PROVE ListInv'
<1> DEFINE found == {j \in 0 .. toc.last - 1 : Holds(toc.tracks[j], call.lba)}
<1>1. /\ call.loop = "OUTER" /\ buffer' = [buffer EXCEPT ![call.slot] = Filler]
      /\ asked' = asked /\ disc' = disc /\ hunkmem' = hunkmem /\ toc_buffer' = toc_buffer
      /\ call.lba >= 0
      /\ \/ call' = Outer(call.lba + 1, call.cnt - 1, call.slot)
         \/ call' = [call EXCEPT !.loop = "INNER", !.i = Min(found)]
  BY DEF FindTrack, Put, hunkvars
<1>2. /\ DOMAIN buffer = 1 .. Slots /\ call.slot \in Nat /\ call.slot > 0 /\ call.lba \in Int
      /\ call \in [loop : {"IDLE", "OUTER", "INNER"}, lba : Int, cnt : Nat, slot : Nat, i : Nat]
      /\ asked[1] \in Int
  BY <1>1 DEF HostInv, CallOK, ReadInv
<1>3. Still(toc, toc')
  BY FindStill
<1>4. TableListed'
  BY <1>1, <1>3, StillListed DEF ListInv
<1>5. Alive /\ disc # NoDisc /\ asked[2] > 0 /\ asked[1] < 0 => call.slot > 1
  <2>1. SUFFICES ASSUME Alive, disc # NoDisc, asked[2] > 0, asked[1] < 0, call.slot = 1
                 PROVE  FALSE
    BY <1>2
  <2>2. call.lba = asked[1]
    BY <1>1, <2>1 DEF ListInv, CallListed
  <2>3. QED
    BY <1>1, <1>2, <2>1, <2>2
<1>6. call'.loop = "IDLE" \/ (call'.slot \in Nat /\ call'.slot >= call.slot)
  <2> HIDE DEF found
  <2>1. CASE call' = Outer(call.lba + 1, call.cnt - 1, call.slot)
    BY <1>2, <2>1, OuterSlot
  <2>2. CASE call' = [call EXCEPT !.loop = "INNER", !.i = Min(found)]
    <3>1. call'.slot = call.slot
      BY <1>2, <2>2
    <3>2. QED
      BY <1>2, <3>1
  <2>3. QED
    BY <1>1, <2>1, <2>2
<1>7. \A k \in 1 .. Slots : k # call.slot => buffer'[k] = buffer[k]
  BY <1>1, <1>2
<1>8. CallListed'
  BY <1>1, <1>5, <1>6, <1>7, LaterListed
<1>9. QED
  BY <1>4, <1>8 DEF ListInv

LEMMA SectorLists ==
  ASSUME HostInv, ReadInv, ListInv, ReadFile \/ ReadChd, Still(toc, toc')
  PROVE  ListInv'
<1>1. /\ call.loop = "INNER" /\ call' = NextSector
      /\ asked' = asked /\ disc' = disc /\ toc_buffer' = toc_buffer /\ hunkmem' = hunkmem
      /\ \A k \in 1 .. Slots : k # call.slot => buffer'[k] = buffer[k]
  <2>1. DOMAIN buffer = 1 .. Slots
    BY DEF HostInv
  <2>2. CASE ReadFile
    BY <2>1, <2>2 DEF ReadFile, Put, hunkvars
  <2>3. CASE ReadChd
    BY <2>1, <2>3 DEF ReadChd, ChdReadFails, ChdReadDone, Put, mountvars
  <2>4. QED
    BY <2>2, <2>3
<1>2. TableListed'
  BY <1>1, StillListed DEF ListInv
<1>3. Alive /\ disc # NoDisc /\ asked[2] > 0 /\ asked[1] < 0 => call.slot > 1
  BY <1>1 DEF ListInv, CallListed
<1>4. call'.loop = "IDLE" \/ (call'.slot \in Nat /\ call'.slot >= call.slot)
  BY <1>1, NextSlot
<1>5. CallListed'
  BY <1>1, <1>3, <1>4, LaterListed
<1>6. QED
  BY <1>2, <1>5 DEF ListInv

(* All steps.                                                              *)
LEMMA StepList == HostInv /\ ReadInv /\ ListInv /\ [Next]_vars => ListInv'
<1> SUFFICES ASSUME HostInv, ReadInv, ListInv, [Next]_vars PROVE ListInv'
  OBVIOUS
<1>1. CASE pcfx_mount_cd
  BY <1>1, MountList
<1>2. CASE \E r \in Requests : pcfx_read_cd(r[1], r[2])
  BY <1>2, CallLists
<1>3. CASE ReadToc
  BY <1>3, TocLists
<1>4. CASE FindTrack
  BY <1>4, FindLists
<1>5. CASE ReadFile
  <2>1. Still(toc, toc')
    BY <1>5, FileStill
  <2>2. QED
    BY <1>5, <2>1, SectorLists
<1>6. CASE ReadChd
  <2>1. Still(toc, toc')
    BY <1>6 DEF ReadChd, mountvars, Still
  <2>2. QED
    BY <1>6, <2>1, SectorLists
<1>7. CASE UNCHANGED vars
  <2>1. /\ toc' = toc /\ toc_buffer' = toc_buffer /\ disc' = disc /\ asked' = asked
        /\ hunkmem' = hunkmem /\ call' = call /\ buffer' = buffer
    BY <1>7 DEF vars, mountvars, hunkvars
  <2>2. TableListed'
    BY <2>1 DEF ListInv, TableListed, DiscTracks
  <2>3. CallListed'
    BY <2>1 DEF ListInv, CallListed, Alive
  <2>4. QED
    BY <2>2, <2>3 DEF ListInv
<1>8. QED
  BY <1>1, <1>2, <1>3, <1>4, <1>5, <1>6, <1>7 DEF Next

(* The table of contents a read returns lists the tracks of the disc that  *)
(* is mounted, from the one asked for on, with their types and addresses,  *)
(* and the header their number, whatever was mounted before: of a CHD file *)
(* that fits the table, and of a sheet whose tracks are numbered upwards   *)
(* and have one INDEX 01 each, with one track in every file but the first; *)
(* the addresses of either below the first whose minute no longer fits a   *)
(* byte (load_cue, load_chd, prepare_toc_buffer, toc_data).                *)
THEOREM TocIsExact == Spec => [](Listable(disc) => TocExact)
<1>1. HostInv /\ ReadInv /\ ListInv => (Listable(disc) => TocExact)
  <2> SUFFICES ASSUME HostInv, ReadInv, ListInv, Listable(disc) PROVE TocExact
    OBVIOUS
  <2> DEFINE from == asked[1] - TOC_LBA
             told(reply) ==
               {[number |-> reply.descs[k].track,
                 audio |-> reply.descs[k].control = 16,
                 start |-> LET a == reply.descs[k].msf
                           IN (a.m * 60 + a.s) * 75 + a.f - 150]
                : k \in DOMAIN reply.descs}
             right(reply) ==
               /\ told(reply) = {t \in DiscTracks : t.number >= from}
               /\ reply.length = 2 + 8 * Cardinality(DiscTracks)
               /\ reply.first = 1 /\ reply.last = Cardinality(DiscTracks)
  <2>1. SUFFICES ASSUME Answered, asked[1] < 0 PROVE right(buffer[1])
    BY DEF TocExact
  <2>2. disc # NoDisc
    BY NoDiscKind DEF Listable
  <2>3. buffer[1] = toc_data(prepare_toc_buffer(toc), from)
    BY <2>1, <2>2 DEF ListInv, CallListed, TableListed, Answered
  <2>4. /\ toc \in Tables /\ toc.last > 0 /\ Timed(toc) /\ TrackList(toc) = DiscTracks
        /\ from \in Int
    BY <2>2, CdHostAssumption DEF HostInv, MountOK, ReadInv, TableRead, ListInv, TableListed
  <2> HIDE DEF from
  <2>5. LET tracks == TrackList(toc)
            reply == toc_data(prepare_toc_buffer(toc), from)
            listed == told(reply)
        IN /\ listed = {t \in tracks : t.number >= from}
           /\ reply.length = 2 + 8 * Cardinality(tracks)
           /\ reply.first = 1 /\ reply.last = Cardinality(tracks)
    BY <2>4, Listed
  <2> HIDE DEF told
  <2>6. QED
    BY <2>3, <2>4, <2>5
<1>2. Init => HostInv /\ ReadInv /\ ListInv
  BY InitHost, InitRead, InitList
<1>3. (HostInv /\ ReadInv /\ ListInv) /\ [Next]_vars => (HostInv /\ ReadInv /\ ListInv)'
  BY StepHost, StepRead, StepList
<1>4. QED
  BY <1>1, <1>2, <1>3, PTL DEF Spec
=============================================================================
