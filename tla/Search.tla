------------------------------- MODULE Search -------------------------------
(***************************************************************************)
(* A query and its two executions: over a snapshot (live.rs, the daemon)   *)
(* and over the index file (search.rs, no daemon).  Both are to give the   *)
(* answer that the table of wildcards and paths in search.rs describes,    *)
(* which is Answer here.                                                   *)
(*                                                                         *)
(* Names are texts (module Glob) and snapshots are those of module Live;   *)
(* the root's name is its whole path, and a directory with an empty name   *)
(* is an id that scan.rs left unused.                                      *)
(***************************************************************************)
EXTENDS Live, Glob

CONSTANTS NThreads,    \* available_parallelism
          MaxClimb,    \* how far up a path is followed: 256
          Unlimited    \* a number above every count of hits: usize::MAX

\* A name is a C string, without the byte 0.
ASSUME SearchAssumption ==
  /\ NThreads \in Nat \ {0} /\ MaxClimb \in Nat \ {0} /\ Unlimited \in Nat
  /\ Name \subseteq Seq(Byte \ {0})

\* Options: what a word is compared with, and which entries are asked for;
\* cmd_search refuses whole paths and names at once.
Options == {o \in [whole_path : BOOLEAN, basename : BOOLEAN, type : {"all", "dirs", "files"}] :
              ~(o.whole_path /\ o.basename)}

FirstN(s, n) == SubSeq(s, 1, IF n < Len(s) THEN n ELSE Len(s))

\* Ids in their order.
SortedIds(ids) ==
  LET last == Max({0} \cup ids)
      upto[n \in 0 .. last] ==
        IF n = 0 THEN <<>> ELSE IF n \in ids THEN Append(upto[n - 1], n) ELSE upto[n - 1]
  IN  upto[last]

\* The elements of a sequence at these places.
Chosen(s, places) == [k \in DOMAIN SortedIds(places) |-> s[SortedIds(places)[k]]]

CeilDiv(n, d) == (n + d - 1) \div d

-----------------------------------------------------------------------------
(* Paths.                                                                  *)

Slashed(path) == IF path # <<>> /\ Last(path) = Slash THEN path ELSE Append(path, Slash)

\* dir_path: the names from the root down, no further up than MaxClimb.
DirPath(l, d) ==
  LET Joined(up, name) == (IF up = <<>> THEN <<>> ELSE Slashed(up)) \o name
      paths[k \in 0 .. MaxClimb] == [e \in 0 .. Len(l.dirs) |->
        IF k = 0 \/ e = NoDir THEN <<>> ELSE Joined(paths[k - 1][l.dirs[e].parent], l.dirs[e].name)]
  IN  paths[MaxClimb][d]

FilePath(l, f) == Slashed(DirPath(l, l.files[f].parent)) \o l.files[f].name

\* What scan.rs and live.rs make of names: only the root's, which is its path,
\* has slashes, but none at its end unless it is "/", and every file lies in a
\* directory, not below an id left unused.
WellNamed(l) ==
  /\ \A d \in DOMAIN l.dirs :
       LET name == l.dirs[d].name
       IN  IF d = Root THEN l.dirs[d].parent = NoDir /\ (name = <<Slash>> \/ (name # <<>> /\ Last(name) # Slash))
           ELSE ~Contains(name, Slash)
  /\ \A f \in DOMAIN l.files : l.dirs[l.files[f].parent].name # <<>>

\* path_of, of a directory: a slash whatever it ends with.
DirLine(l, d) == Append(DirPath(l, d), Slash)

-----------------------------------------------------------------------------
(* parse_opts.                                                             *)

\* One keyword: anchor is the literal end of a wildcard pattern, or <<>>.
Term(word) ==
  LET pat == LowerAll(word)
  IN  [pat |-> pat, glob |-> HasGlobChars(pat),
       anchor |-> IF HasGlobChars(pat) THEN TrailingLiteral(pat) ELSE <<>>]

ToPath(term, opts) ==
  ~opts.basename /\ (opts.whole_path \/ term.glob \/ Contains(term.pat, Slash))

ParseOpts(words, opts) ==
  LET all == [i \in DOMAIN words |-> Term(words[i])]
      inPath == {i \in DOMAIN all : ToPath(all[i], opts)}
  IN  [terms |-> Chosen(all, DOMAIN all \ inPath), paths |-> Chosen(all, inPath), type |-> opts.type]

IsEmpty(q)    == q.terms = <<>> /\ q.paths = <<>>
WantsDirs(q)  == q.type # "files"
WantsFiles(q) == q.type # "dirs"

\* A literal that is part of the name of every hit, the longest (the last of
\* these), or <<>>.
Anchor(q) ==
  LET NameAnchor(t) == IF t.glob THEN t.anchor ELSE t.pat
      all == [i \in DOMAIN q.terms |-> NameAnchor(q.terms[i])]
             \o [i \in DOMAIN q.paths |-> q.paths[i].anchor]
      longest == {i \in DOMAIN all : \A j \in DOMAIN all : Len(all[j]) <= Len(all[i])}
  IN  IF longest = {} THEN <<>> ELSE all[Max(longest)]

-----------------------------------------------------------------------------
(* The comparison, as both executions make it.                             *)

TermHits(t, hay) == IF t.glob THEN GlobMatch(t.pat, hay) ELSE ContainsCi(hay, t.pat)

Matches(q, name) == \A i \in DOMAIN q.terms : TermHits(q.terms[i], name)

NamePrefilter(q, name) == \A i \in DOMAIN q.paths : ContainsCi(name, q.paths[i].anchor)

PathOkDir(q, path) == \A i \in DOMAIN q.paths : TermHits(q.paths[i], path)

\* The most that a hit across the last slash reaches back, less one.
Keep(q) ==
  Max({0} \cup {Len(q.paths[i].pat) - 1 : i \in {j \in DOMAIN q.paths : ~q.paths[j].glob}})

\* The texts of which each path term must hit one: the path or, without
\* wildcards, the directory's path and a window over its end and the name.
PathTexts(q, dirPath, name) ==
  LET from == IF Len(dirPath) > Keep(q) THEN Len(dirPath) - Keep(q) ELSE 0
  IN  IF \E i \in DOMAIN q.paths : q.paths[i].glob THEN {Slashed(dirPath) \o name}
      ELSE {dirPath, Append(SubSeq(dirPath, from + 1, Len(dirPath)), Slash) \o name}

\* path_ok_file
PathOkFile(q, dirPath, name) ==
  \A i \in DOMAIN q.paths : \E text \in PathTexts(q, dirPath, name) : TermHits(q.paths[i], text)

\* Without path terms the last two conditions hold, and are not evaluated.
DirHit(l, q, d) ==
  LET name == l.dirs[d].name
  IN  Matches(q, name) /\ NamePrefilter(q, name) /\ PathOkDir(q, DirPath(l, d))

FileHit(l, q, f) ==
  LET name == l.files[f].name
  IN  /\ Matches(q, name) /\ NamePrefilter(q, name)
      /\ PathOkFile(q, DirPath(l, l.files[f].parent), name)

-----------------------------------------------------------------------------
(* The shares of the threads.                                              *)

\* The results of the threads, in order: each gives no more than limit ids,
\* and all that they have counted is the total.
Gather(parts, limit) ==
  [ids   |-> FirstN(FlattenSeq([t \in DOMAIN parts |-> FirstN(parts[t], limit)]), limit),
   total |-> Len(FlattenSeq(parts))]

\* A scan record by record: thread t has the t-th share of 1 .. n.
ShareOf(n, t) == ((t - 1) * CeilDiv(n, NThreads) + 1) .. Min({n, t * CeilDiv(n, NThreads)})

-----------------------------------------------------------------------------
(* search_base_files with an anchor: the lower-case names of all the       *)
(* base's files, one after the other, are searched as one text.            *)

BaseFiles(l) == 1 .. l.baseFiles

Arena(l) == LowerAll(FlattenSeq([f \in BaseFiles(l) |-> l.files[f].name]))

\* What lies before file f in the arena: name_off.
NameOff(l) ==
  LET off[f \in 1 .. l.baseFiles + 1] ==
        IF f = 1 THEN 0 ELSE off[f - 1] + Len(l.files[f - 1].name)
  IN  off

OccursAt(arena, anchor, p) ==
  p + Len(anchor) - 1 <= Len(arena) /\ SubSeq(arena, p, p + Len(anchor) - 1) = anchor

\* Mutant: a thread's share ends where the next one's begins.
FindsInShare(arena, anchor, start, chunk) ==
  LET end == Min({start + chunk, Len(arena)})
      from[p \in start + 1 .. end + Len(anchor)] ==
        IF p + Len(anchor) - 1 > end \/ p > start + chunk THEN {}
        ELSE IF OccursAt(arena, anchor, p) THEN {p} \cup from[p + Len(anchor)] ELSE from[p + 1]
  IN  IF start >= Len(arena) THEN {} ELSE from[start + 1]

\* Mutant: the share is extended by one byte more, and its hits are not
\* compared with its end.
FindsBeyond(arena, anchor, start, chunk) ==
  LET end == Min({start + chunk + Len(anchor), Len(arena)})
      from[p \in start + 1 .. end + Len(anchor)] ==
        IF p + Len(anchor) - 1 > end THEN {}
        ELSE IF OccursAt(arena, anchor, p) THEN {p} \cup from[p + Len(anchor)] ELSE from[p + 1]
  IN  IF start >= Len(arena) THEN {} ELSE from[start + 1]

\* find_iter and take_while: the occurrences that begin in the share, each
\* looked for behind the end of the one before.
Finds(arena, anchor, start, chunk) ==
  LET end == Min({start + chunk + Len(anchor) - 1, Len(arena)})
      from[p \in start + 1 .. end + Len(anchor)] ==
        IF p + Len(anchor) - 1 > end \/ p > start + chunk THEN {}
        ELSE IF OccursAt(arena, anchor, p) THEN {p} \cup from[p + Len(anchor)] ELSE from[p + 1]
  IN  IF start >= Len(arena) THEN {} ELSE from[start + 1]

\* The files that one thread compares: those that hold a whole occurrence.
Anchored(l, anchor, t) ==
  LET off   == NameOff(l)
      chunk == CeilDiv(Len(Arena(l)), NThreads)
      found == Finds(Arena(l), anchor, (t - 1) * chunk, chunk)
  IN  {f \in BaseFiles(l) : \E p \in found : off[f] < p /\ p + Len(anchor) - 1 <= off[f + 1]}

\* Where the anchor occurs in the name of a base file.
PlacesIn(l, anchor, f) ==
  LET off == NameOff(l)
  IN  {p \in off[f] + 1 .. off[f + 1] + 1 - Len(anchor) : OccursAt(Arena(l), anchor, p)}

\* The base files that find_iter may jump over: wherever the anchor occurs in
\* the name, it overlaps an occurrence that begins in the names before.
Hidden(l, anchor) ==
  LET before == {r \in DOMAIN Arena(l) : OccursAt(Arena(l), anchor, r)}
      Jumped(f, p) == \E r \in before : r <= NameOff(l)[f] /\ p < r + Len(anchor)
  IN  {f \in BaseFiles(l) : /\ PlacesIn(l, anchor, f) # {}
                            /\ \A p \in PlacesIn(l, anchor, f) : Jumped(f, p)}

\* A base file's name holds occurrences of the anchor that begin in the shares
\* of two threads.
Spread(l, anchor) ==
  LET Share(p) == (p - 1) \div CeilDiv(Len(Arena(l)), NThreads)
  IN  anchor # <<>> /\ \E f \in BaseFiles(l) :
        \E p, r \in PlacesIn(l, anchor, f) : Share(p) # Share(r)

\* Without an anchor a thread compares its share of the records.
Candidates(l, q, t) ==
  IF Anchor(q) # <<>> THEN Anchored(l, Anchor(q), t) ELSE ShareOf(l.baseFiles, t)

\* Mutant: without an anchor only the paths are compared.
SearchBaseByPath(l, q) ==
  [t \in 1 .. NThreads |-> SortedIds({f \in Candidates(l, q, t) \ l.deadFiles :
     (Anchor(q) = <<>> \/ FileHit(l, q, f))
     /\ PathOkFile(q, DirPath(l, l.files[f].parent), l.files[f].name)})]

\* search_base_files: what each thread counts.
SearchBaseFiles(l, q) ==
  [t \in 1 .. NThreads |-> SortedIds({f \in Candidates(l, q, t) \ l.deadFiles : FileHit(l, q, f)})]

-----------------------------------------------------------------------------
(* The two searches.                                                       *)

NoHits == [dirs |-> <<>>, files |-> <<>>, total |-> 0]

\* Mutant: directories and files have a limit each.
LimitEach(dirs, files, limit) ==
  [dirs |-> FirstN(dirs, limit), files |-> FirstN(files.ids, limit), total |-> Len(dirs) + files.total]

\* Directories take the limit first, files what is left of it.
Limit(dirs, files, limit) ==
  LET shown == FirstN(dirs, limit)
  IN  [dirs  |-> shown, files |-> FirstN(files.ids, limit - Len(shown)),
       total |-> Len(dirs) + files.total]

\* Live.search: the base, then what the delta adds.
LiveSearch(l, q, limit) ==
  LET dirs  == IF ~WantsDirs(q) THEN {}
               ELSE {d \in AliveDirs(l) : l.dirs[d].name # <<>> /\ DirHit(l, q, d)}
      added == {f \in AliveFiles(l) \ BaseFiles(l) : FileHit(l, q, f)}
      files == IF WantsFiles(q) THEN Append(SearchBaseFiles(l, q), SortedIds(added)) ELSE <<>>
  IN  IF IsEmpty(q) THEN NoHits ELSE Limit(SortedIds(dirs), Gather(files, limit), limit)

\* search.rs, of the index file: module Live's snapshot of its tree.
FileSearch(l, q, limit) ==
  LET dirs  == IF ~WantsDirs(q) THEN {}
               ELSE {d \in DOMAIN l.dirs : l.dirs[d].name # <<>> /\ DirHit(l, q, d)}
      files == IF WantsFiles(q)
               THEN [t \in 1 .. NThreads |-> SortedIds({f \in ShareOf(Len(l.files), t) : FileHit(l, q, f)})]
               ELSE <<>>
  IN  IF IsEmpty(q) THEN NoHits ELSE Limit(SortedIds(dirs), Gather(files, limit), limit)

\* The lines of an answer, one for each hit.
Lines(l, hits) ==
  [i \in DOMAIN hits.dirs |-> DirLine(l, hits.dirs[i])]
  \o [i \in DOMAIN hits.files |-> FilePath(l, hits.files[i])]

-----------------------------------------------------------------------------
(* What a query asks for, by the table in search.rs.                       *)

\* One keyword is compared with the path or with the name: a wildcard pattern
\* with all of it, any other with a part.
Satisfied(word, opts, name, path) ==
  LET w    == LowerAll(word)
      wild == HasGlobChars(w)
      text == LowerAll(IF opts.whole_path \/ (~opts.basename /\ (wild \/ Contains(w, Slash)))
                       THEN path ELSE name)
  IN  IF wild THEN Fits(w, text)
      ELSE \E i \in 0 .. Len(text) - Len(w) : SubSeq(text, i + 1, i + Len(w)) = w

\* The directories and the files that satisfy every word.
Answer(l, words, opts) ==
  LET All(name, path) == \A i \in DOMAIN words : Satisfied(words[i], opts, name, path)
      dirs  == {d \in AliveDirs(l) : l.dirs[d].name # <<>> /\ All(l.dirs[d].name, DirPath(l, d))}
      files == {f \in AliveFiles(l) : All(l.files[f].name, FilePath(l, f))}
  IN  [dirs  |-> IF words = <<>> \/ opts.type = "files" THEN {} ELSE dirs,
       files |-> IF words = <<>> \/ opts.type = "dirs" THEN {} ELSE files]

\* The same as a search gives it: in the order of ids, directories first.
AnswerHits(l, words, opts, limit) ==
  LET all == Answer(l, words, opts)
  IN  Limit(SortedIds(all.dirs), [ids |-> SortedIds(all.files), total |-> Cardinality(all.files)], limit)
=============================================================================
