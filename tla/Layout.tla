------------------------------- MODULE Layout -------------------------------
(***************************************************************************)
(* The layout of the index file, in bytes (build and validate, index.rs):  *)
(* header, names of directories, directories, ids by parent, names of      *)
(* files, files.                                                           *)
(***************************************************************************)
EXTENDS Integers

\* How many bytes of names and how many entries there are.
Sizes == [dirNames : Nat, dirs : Nat, byParent : Nat, fileNames : Nat, files : Nat]

HeaderSize == 184
DataStart == 192
RecordSize == 12
IdSize == 4

\* Mutant: rounded down.
AlignDown8(n) == (n \div 8) * 8

Align8(n) == ((n + 7) \div 8) * 8

Section(off, len) == [off |-> off, len |-> len]
End(section) == section.off + section.len

\* What the header says of the sections.
Header(n) ==
  LET dirNames  == Section(DataStart, n.dirNames)
      dirs      == Section(Align8(End(dirNames)), n.dirs * RecordSize)
      byParent  == Section(Align8(End(dirs)), n.byParent * IdSize)
      fileNames == Section(Align8(End(byParent)), n.fileNames)
      files     == Section(Align8(End(fileNames)), n.files * RecordSize)
  IN  [dirNames |-> dirNames, dirs |-> dirs, byParent |-> byParent,
       fileNames |-> fileNames, files |-> files]

Length(h) == End(h.files)

\* open and validate, of a file of so many bytes: a header's worth of them (the
\* data begin behind padding), and every section inside.  (The root's path is the first
\* of the directories' names.)
Valid(h, length) ==
  /\ length >= HeaderSize
  /\ End(h.dirNames) <= length /\ End(h.dirs) <= length /\ End(h.byParent) <= length
  /\ End(h.fileNames) <= length /\ End(h.files) <= length

\* The header and the sections follow each other without overlapping, those
\* that are read as numbers begin at a multiple of 8, and the whole file is
\* valid, while no part of it is.
Apart(h) ==
  /\ DataStart <= h.dirNames.off /\ End(h.dirNames) <= h.dirs.off
  /\ End(h.dirs) <= h.byParent.off /\ End(h.byParent) <= h.fileNames.off
  /\ End(h.fileNames) <= h.files.off

Aligned(h) == h.dirs.off % 8 = 0 /\ h.byParent.off % 8 = 0 /\ h.files.off % 8 = 0

Fits(n) ==
  LET h == Header(n)
  IN  /\ Apart(h) /\ Aligned(h)
      /\ Valid(h, Length(h)) /\ \A length \in 0 .. Length(h) - 1 : ~Valid(h, length)
=============================================================================
