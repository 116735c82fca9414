------------------------------- MODULE Client -------------------------------
(***************************************************************************)
(* One `ml` query: cmd_search of main.rs, the protocol on the daemon's     *)
(* socket and the thread that serves a connection (daemon.rs).             *)
(*                                                                         *)
(* The client asks the daemon for its version, then for the answer, and    *)
(* searches the index file by itself where there is no daemon, an old one  *)
(* or no complete reply.  Meanwhile the daemon publishes snapshots (module *)
(* Updater), replaces the file (module Resume), crashes and is started     *)
(* again.  Whatever is on a connection is a text (module Glob).            *)
(***************************************************************************)
EXTENDS Search

CONSTANTS Scenarios,   \* the situations to start from, see Init
          Snapshots,   \* the snapshots that may be published
          Files        \* the index files that may be written, as snapshots

AllSnapshots == Snapshots \cup Files
AllCommands  == UNION {s.commands : s \in Scenarios}

VARIABLES peer,    \* the daemon: none, of this version, or an older one
          live,    \* the snapshot it serves
          file,    \* the index file
          cmd,     \* the command line
          pc,      \* where the client is
          conn,    \* its connection
          out,     \* what it has printed
          views,   \* history: the snapshots served since the query was sent
          moves    \* how often the rest of the world may still change

vars == <<peer, live, file, cmd, pc, conn, out, views, moves>>
world == <<peer, live, file, moves>>

EOT == 4   Tab == 9   Newline == 10   Zero == 48
ProtoVersion == 2

\* A command line: the words of the query, line by line (an argument may hold
\* line breaks; without arguments there is no query), its options, -n, -0, -c.
Command == [lines : Seq(Seq(Seq(Byte))) \ {<<>>}, opts : Options, limit : Nat, null : BOOLEAN, count : BOOLEAN]

Entries(l) == Len(l.dirs) + Len(l.files)

\* The most that the threads can list, each a file once, and the delta.
MostHits(l) == Len(l.dirs) + (NThreads + 1) * Len(l.files)

\* No search reaches the limit of usize::MAX. An index file has no tombstones.
ASSUME ClientAssumption ==
  /\ \A l \in AllSnapshots : InRange(l) /\ WellNamed(l) /\ MostHits(l) <= Unlimited
  /\ \A l \in Files : l.deadDirs = {} /\ l.deadFiles = {}
  /\ \A s \in Scenarios : /\ s.peers \subseteq {"none", "old", "new"} /\ s.commands \subseteq Command
                           /\ s.lives \subseteq AllSnapshots /\ s.files \subseteq Files /\ s.moves \in Nat

Words(c) == FlattenSeq(c.lines)
Sep(c)   == IF c.null THEN 0 ELSE Newline

\* effective_limit, with -n 0 for no limit.
EffectiveLimit(c) == IF c.count THEN 1 ELSE IF c.limit = 0 THEN Unlimited ELSE c.limit

\* The limit in the request, and what the daemon makes of it.
OnWire(limit)  == IF limit = Unlimited THEN 0 ELSE limit
OffWire(limit) == IF limit = 0 THEN Unlimited ELSE limit

\* What the daemon finds: it reads one line of the query.
DaemonHits == [l \in AllSnapshots |-> [c \in AllCommands |->
  LiveSearch(l, ParseOpts(c.lines[1], c.opts), OffWire(OnWire(EffectiveLimit(c))))]]

\* What the client finds in the file.
FileHits == [l \in AllSnapshots |-> [c \in AllCommands |->
  FileSearch(l, ParseOpts(Words(c), c.opts), EffectiveLimit(c))]]

NoSnapshot == BaseOf([dirs |-> <<>>, files |-> <<>>])
NoConn == [state |-> "none", req |-> "none", by |-> "none", snap |-> NoSnapshot, hits |-> NoHits,
           wire |-> <<>>, cut |-> FALSE]
NoOutput == [from |-> "none", text |-> <<>>, total |-> 0]

Init == /\ \E s \in Scenarios : /\ cmd \in s.commands /\ peer \in s.peers
                                /\ live \in s.lives /\ file \in s.files /\ moves = s.moves
        /\ pc = "start" /\ conn = NoConn /\ out = NoOutput /\ views = {}

-----------------------------------------------------------------------------
(* Texts.                                                                  *)

Decimal(n) ==
  LET digits[k \in 0 .. n] == (IF k < 10 THEN <<>> ELSE digits[k \div 10]) \o <<Zero + (k % 10)>>
  IN  digits[n]

\* The number before the first tab, 0 where the code's parse fails.
Number(text) ==
  LET tab == SelectInSeq(text, LAMBDA b : b = Tab)
      end == IF tab = 0 THEN Len(text) ELSE tab - 1
      value[i \in 0 .. end] == IF i = 0 THEN 0 ELSE 10 * value[i - 1] + (text[i] - Zero)
  IN  IF \A i \in 1 .. end : text[i] \in Zero .. Zero + 9 THEN value[end] ELSE 0

Terminated(lines, sep) == FlattenSeq([i \in DOMAIN lines |-> Append(lines[i], sep)])

\* split and filter: the pieces between separators that are not empty.
Pieces(text, sep) ==
  LET End(i) == Min({j \in i .. Len(text) : j = Len(text) \/ text[j + 1] = sep})
      from[i \in 1 .. Len(text) + 1] ==
        IF i > Len(text) THEN <<>>
        ELSE IF text[i] = sep THEN from[i + 1]
        ELSE <<SubSeq(text, i, End(i))>> \o from[End(i) + 1]
  IN  from[1]

-----------------------------------------------------------------------------
(* The daemon's thread for the connection: handle_client.                  *)

\* A reply ends with the mark and the total.
Reply(l, hits, sep) == Append(Terminated(Lines(l, hits), sep), EOT) \o Decimal(hits.total)

\* Mutant: the connection stays open for the next request.
KeepOpen(text) == conn' = [conn EXCEPT !.wire = text]

Send(text) == conn' = [conn EXCEPT !.wire = text, !.state = "closed"]

Serving(req) == conn.state = "sent" /\ conn.req = req /\ conn.by = "new"

AnswerVersion ==
  /\ Serving("V")
  /\ Send(<<EOT>> \o Decimal(ProtoVersion))
  /\ UNCHANGED <<cmd, pc, out, views>> /\ UNCHANGED world

\* The daemon searches the snapshot it finds now.
SearchSnapshot ==
  /\ Serving("Q")
  /\ conn' = [conn EXCEPT !.state = "held", !.snap = live, !.hits = DaemonHits[live][cmd]]
  /\ UNCHANGED <<cmd, pc, out, views>> /\ UNCHANGED world

\* Mutant: the ids are looked up in the snapshot of now.
LatestSnapshot == live

\* The snapshot in which the ids of the hits are looked up.
HeldSnapshot == conn.snap

SendReply ==
  /\ conn.state = "held"
  /\ Send(Reply(HeldSnapshot, conn.hits, Sep(cmd)))
  /\ UNCHANGED <<cmd, pc, out, views>> /\ UNCHANGED world

\* An older daemon does not know V or Q.
AnswerUnknown ==
  /\ conn.state = "sent" /\ conn.by = "old"
  /\ Send(<<EOT, Zero, Tab, Zero>>)
  /\ UNCHANGED <<cmd, pc, out, views>> /\ UNCHANGED world

Handler == AnswerVersion \/ SearchSnapshot \/ SendReply \/ AnswerUnknown

-----------------------------------------------------------------------------
(* The client: query_daemon and cmd_search.                                *)

Request(req) == [NoConn EXCEPT !.state = "sent", !.req = req, !.by = peer]

\* Mutant: whatever has arrived is a reply.
AnyReply(wire) == wire # <<>>

\* Mutant: the total is looked for behind the first mark.
TailOfFirst(wire) == SubSeq(wire, SelectInSeq(wire, LAMBDA b : b = EOT) + 1, Len(wire))

\* A reply is complete when the mark is in it; the last one counts.
IsReply(wire) == Contains(wire, EOT)
BodyOf(wire) == SubSeq(wire, 1, SelectLastInSeq(wire, LAMBDA b : b = EOT) - 1)
TailOf(wire) == SubSeq(wire, SelectLastInSeq(wire, LAMBDA b : b = EOT) + 1, Len(wire))

AskVersion ==
  /\ pc = "start" /\ peer # "none"
  /\ conn' = Request("V")
  /\ pc' = "version"
  /\ UNCHANGED <<cmd, out, views>> /\ UNCHANGED world

ReadVersion ==
  /\ pc = "version" /\ conn.state = "closed"
  /\ pc' = IF IsReply(conn.wire) /\ Number(TailOf(conn.wire)) >= ProtoVersion THEN "ask" ELSE "file"
  /\ UNCHANGED <<cmd, conn, out, views>> /\ UNCHANGED world

AskQuery ==
  /\ pc = "ask" /\ peer # "none"
  /\ conn' = Request("Q")
  /\ views' = {live}
  /\ pc' = "reply"
  /\ UNCHANGED <<cmd, out>> /\ UNCHANGED world

NoDaemon ==
  /\ pc \in {"start", "ask"} /\ peer = "none"
  /\ pc' = "file"
  /\ UNCHANGED <<cmd, conn, out, views>> /\ UNCHANGED world

CountLine(total) == Append(Decimal(total), Newline)

PrintReply ==
  /\ pc = "reply" /\ conn.state = "closed" /\ IsReply(conn.wire)
  /\ \E body \in {BodyOf(conn.wire)}, total \in {Number(TailOf(conn.wire))} :
       \E lines \in {Pieces(body, Sep(cmd))} :
         out' = [from |-> "daemon", total |-> total,
                 text |-> IF cmd.count THEN CountLine(total) ELSE Terminated(lines, Sep(cmd))]
  /\ pc' = "done"
  /\ UNCHANGED <<cmd, conn, views>> /\ UNCHANGED world

NoReply ==
  /\ pc = "reply" /\ conn.state = "closed" /\ ~IsReply(conn.wire)
  /\ pc' = "file"
  /\ UNCHANGED <<cmd, conn, out, views>> /\ UNCHANGED world

\* What a search of the file prints.
FileText(c, l, hits) == IF c.count THEN CountLine(hits.total) ELSE Terminated(Lines(l, hits), Sep(c))

PrintFromFile ==
  /\ pc = "file"
  /\ \E hits \in {FileHits[file][cmd]} :
       out' = [from |-> "file", total |-> hits.total, text |-> FileText(cmd, file, hits)]
  /\ views' = {file}
  /\ pc' = "done"
  /\ UNCHANGED <<cmd, conn>> /\ UNCHANGED world

Ask == AskVersion \/ ReadVersion \/ AskQuery \/ NoDaemon \/ PrintReply \/ NoReply \/ PrintFromFile

-----------------------------------------------------------------------------
(* The rest of the world.                                                  *)

Move == moves > 0 /\ moves' = moves - 1

Publish ==
  /\ Move /\ peer = "new"
  /\ live' \in Snapshots \cup {file}
  /\ views' = IF pc = "reply" THEN views \cup {live'} ELSE views
  /\ UNCHANGED <<peer, file, cmd, pc, conn, out>>

NewFile ==
  /\ Move
  /\ file' \in Files
  /\ UNCHANGED <<peer, live, cmd, pc, conn, out, views>>

\* A reply that was being written is cut off anywhere.
Crash ==
  /\ Move /\ peer # "none"
  /\ peer' = "none"
  /\ \E n \in 0 .. (IF conn.state = "held" THEN Len(Reply(conn.snap, conn.hits, Sep(cmd))) ELSE 0) :
       conn' = IF conn.state \notin {"sent", "held"} THEN conn
               ELSE [conn EXCEPT !.state = "closed", !.cut = TRUE,
                                 !.wire = SubSeq(Reply(conn.snap, conn.hits, Sep(cmd)), 1, n)]
  /\ UNCHANGED <<live, file, cmd, pc, out, views>>

Start(version) ==
  /\ Move /\ peer = "none"
  /\ peer' = version
  /\ live' = file
  /\ UNCHANGED <<file, cmd, pc, conn, out, views>>

World == Publish \/ NewFile \/ Crash \/ \E version \in {"old", "new"} : Start(version)

Next == Ask \/ Handler \/ World

\* The client and the thread that serves it go on as long as they can.
Spec == Init /\ [][Next]_vars /\ WF_vars(Ask) /\ WF_vars(Handler)

-----------------------------------------------------------------------------
(* Properties of the two searches, for the query before it is sent, the    *)
(* snapshot and the file.                                                  *)

Query == ParseOpts(Words(cmd), cmd.opts)

\* All that the daemon finds, and what it should find.
Found == LiveSearch(live, Query, Unlimited)
Right == Answer(live, Words(cmd), cmd.opts)

\* The words ask for two slashes in a row, and the root is "/": the window of
\* path_ok_file then holds a slash that the path does not.
DoubleSlash(l, words) ==
  /\ Last(l.dirs[Root].name) = Slash
  /\ \E i \in DOMAIN words : \E j \in 1 .. Len(words[i]) - 1 :
       words[i][j] = Slash /\ words[i][j + 1] = Slash

Sound(found, right) ==
  Range(found.dirs) \subseteq right.dirs /\ Range(found.files) \subseteq right.files

Complete(found, right) ==
  right.dirs \subseteq Range(found.dirs) /\ right.files \subseteq Range(found.files)

Once(found) == IsInjective(found.files) /\ found.total = Len(found.dirs) + Len(found.files)

Shortened(l, hits, all, n) ==
  Lines(l, hits) = FirstN(Lines(l, all), n) /\ hits.total = all.total

\* The daemon's search gives no false hit: what anchor, prefilter and the
\* cut-down window let through satisfies every word as the table says.
HitsAreTrue ==
  pc = "start" => Sound(Found, Right) \/ DoubleSlash(live, Words(cmd))

\* And it loses none, in the base or the delta, across the ends of shares and
\* of names, but for the files that find_iter jumps over.
NothingLost ==
  pc = "start" => Complete(Found, [Right EXCEPT !.files = @ \ Hidden(live, Anchor(Query))])

\* No entry is listed or counted twice ("因此不會重複計算"), whichever threads
\* meet it, unless its name holds the anchor in two shares.
CountedOnce ==
  pc = "start" => Once(Found) \/ Spread(live, Anchor(Query))

\* The limit only shortens the list, in both searches and whatever the threads
\* each keep: what is shown is how the whole list begins, directories first,
\* and the total stays.
LimitOnlyShortens ==
  pc = "start" =>
    /\ \A n \in 0 .. Entries(live) : Shortened(live, LiveSearch(live, Query, n), Found, n)
    /\ \A n \in 0 .. Entries(file) :
         Shortened(file, FileSearch(file, Query, n), FileSearch(file, Query, Unlimited), n)

\* Without a daemon the answer is exactly what the table asks for: a star that
\* is met later makes the earlier ones irrelevant, and nothing lies outside the
\* window of path_ok_file.
FileAnswerExact ==
  pc = "start" =>
    \/ FileSearch(file, Query, Unlimited) = AnswerHits(file, Words(cmd), cmd.opts, Unlimited)
    \/ DoubleSlash(file, Words(cmd))

-----------------------------------------------------------------------------
(* Properties of the whole request.                                        *)

\* Each part of the state has its type, and the ids of a search that has no
\* reply yet are ids of the snapshot in which they will be looked up.
TypeOK ==
  /\ conn.state = "held" => /\ Range(conn.hits.dirs)  \subseteq DOMAIN HeldSnapshot.dirs
                            /\ Range(conn.hits.files) \subseteq DOMAIN HeldSnapshot.files
  /\ peer \in {"none", "old", "new"} /\ moves \in Nat
  /\ InRange(live) /\ InRange(file) /\ InRange(conn.snap) /\ \A l \in views : InRange(l)
  /\ cmd \in Command
  /\ pc \in {"start", "version", "ask", "reply", "file", "done"}
  /\ conn.state \in {"none", "sent", "held", "closed"} /\ conn.wire \in Seq(Byte)
  /\ out.from \in {"none", "daemon", "file"} /\ out.text \in Seq(Byte) /\ out.total \in Nat

\* What a client must print for an answer.
AnswerText(l) == FileText(cmd, l, AnswerHits(l, Words(cmd), cmd.opts, EffectiveLimit(cmd)))

\* The cases in which the daemon's answer is another one: the query has a line
\* break; an older daemon has come between the two requests; the reply was cut
\* behind an EOT, in the total or in a path; without -0, a path begins or ends
\* with a line break or holds an empty line; the searches' own, see above.
LinesIn(l) == {DirLine(l, d) : d \in DOMAIN l.dirs} \cup {FilePath(l, f) : f \in DOMAIN l.files}

DropsLine(line) ==
  \E i \in DOMAIN line : line[i] = Newline /\ (i \in {1, Len(line)} \/ line[i + 1] = Newline)

Excepted(l) ==
  \/ Len(cmd.lines) > 1
  \/ conn.by = "old"
  \/ (conn.cut /\ (cmd.count \/ \E line \in LinesIn(l) : Contains(line, EOT)))
  \/ (~cmd.null /\ \E line \in LinesIn(l) : DropsLine(line))
  \/ Hidden(l, Anchor(Query)) \cap Answer(l, Words(cmd), cmd.opts).files # {}
  \/ Spread(l, Anchor(Query))

\* Through crashes, restarts and snapshots published meanwhile, the client
\* prints the whole answer of one snapshot that was served while it waited, or
\* of the index file; never a part, and never lines of two.
OneWholeAnswer ==
  pc = "done" => \E l \in views : \/ out.text = AnswerText(l)
                                 \/ (out.from = "daemon" /\ Excepted(l))
                                 \/ DoubleSlash(l, Words(cmd))

\* A reply that an up-to-date daemon has written to its end is read as what it
\* found in one snapshot of the time of the query: the total, which stands
\* behind the mark, and, with -c or with a separator that no name can hold,
\* each byte of the output.
OneReply ==
  pc = "done" /\ out.from = "daemon" /\ conn.by = "new" /\ ~conn.cut =>
    \E l \in views :
      /\ out.total = DaemonHits[l][cmd].total
      /\ cmd.count \/ cmd.null => out.text = FileText(cmd, l, DaemonHits[l][cmd])

\* Every query is answered, whoever crashes and whenever.
Terminates == <>(pc = "done")

\* "Starting or stopping the daemon never changes what a command prints."
SameAsOffline ==
  pc = "done" /\ views = {file} =>
    out.text = FileText(cmd, file, FileHits[file][cmd])
=============================================================================
