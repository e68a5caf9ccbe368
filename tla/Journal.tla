------------------------------- MODULE Journal -------------------------------
(***************************************************************************)
(* The journals of a deployment: the window that a dump reads, how the     *)
(* entries of one container's journal join to lines, which containers a    *)
(* selection lists and how their logs are relayed (cluster/journal.go,     *)
(* cluster/inspect.go, cluster/output.go).                                 *)
(*                                                                         *)
(* Text is a sequence of characters.  An entry is [stamp, message,         *)
(* partial], its message [form, text], and stamp 0 one that does not       *)
(* parse.                                                                  *)
(***************************************************************************)
EXTENDS Integers, Sequences, SequencesExt

(* A run without an end reaches the present, one without a start is        *)
(* refused.                                                                *)
RunWindow(run, now) ==
    [ok |-> run.timestamp # 0, since |-> run.timestamp,
     until |-> IF run.timestampEnd = 0 THEN now ELSE run.timestampEnd]

(* A message is text, or an array of bytes when it is not UTF-8; an entry  *)
(* without one is an empty line.                                           *)
MessageReads(message) == message.form \in {"absent", "text", "bytes"}
JournalMessage(message) == IF message.form = "absent" THEN <<>> ELSE message.text

JournalTimeReads(stamp) == stamp # 0

(* The state of the decoder: the open line and when it began, the lines    *)
(* that were written, and whether an entry failed.                         *)
Opened == [pending |-> <<>>, start |-> 0, lines |-> <<>>, failed |-> FALSE]

Flush(s) == [s EXCEPT !.lines = Append(@, [stamp |-> s.start, text |-> s.pending]), !.pending = <<>>]

(* InspectionFaithful: a line takes the stamp of its last part.            *)
TakeEntryRestamped(s, entry) ==
    LET read == [s EXCEPT !.start = entry.stamp, !.pending = @ \o JournalMessage(entry.message)]
    IN  IF s.failed THEN s
        ELSE IF ~MessageReads(entry.message) \/ ~JournalTimeReads(entry.stamp)
             THEN [s EXCEPT !.failed = TRUE]
             ELSE IF entry.partial THEN read ELSE Flush(read)

(* The stamp is only read for the first part of a line.                    *)
TakeEntry(s, entry) ==
    LET opens == s.pending = <<>>
        read == [s EXCEPT !.start = IF opens THEN entry.stamp ELSE @,
                          !.pending = @ \o JournalMessage(entry.message)]
    IN  IF s.failed THEN s
        ELSE IF ~MessageReads(entry.message) \/ (opens /\ ~JournalTimeReads(entry.stamp))
             THEN [s EXCEPT !.failed = TRUE]
             ELSE IF entry.partial THEN read ELSE Flush(read)

(* A journal that ends within a line still carries the part it holds.      *)
WriteJournal(entries) ==
    LET end == FoldLeft(TakeEntry, Opened, entries)
    IN  IF end.failed \/ end.pending = <<>> THEN end ELSE Flush(end)

InWindow(stamp, window) == window.since <= stamp /\ stamp <= window.until

(* What journalctl prints of a container: its entries in the window.       *)
JournalCommand(entries, window) ==
    FlattenSeq([i \in DOMAIN entries |->
                   IF InWindow(entries[i].stamp, window) THEN <<entries[i]>> ELSE <<>>])

(* The file of a container exists only after a whole read: a failed        *)
(* decoding, and a journalctl that failed, remove it.                      *)
DumpJournal(printed, commandFails) ==
    LET read == WriteJournal(printed)
        whole == ~commandFails /\ ~read.failed
    IN  [exists |-> whole, lines |-> IF whole THEN read.lines ELSE <<>>]

NoDump == [exists |-> FALSE, lines |-> <<>>]

(* The dump of one container over a run.                                   *)
Dump(run, now, entries, commandFails) ==
    LET window == RunWindow(run, now)
    IN  IF window.ok THEN DumpJournal(JournalCommand(entries, window), commandFails) ELSE NoDump

----------------------------------------------------------------------------
(* Listings.  A summary is [names, marked, running]: the names of a        *)
(* container, whether up started it, and whether it runs.                  *)

SelectedNames(selection, destination) ==
    {d.name : d \in {e \in Range(selection) : e.ssh = destination}}

IsPart(part, whole) ==
    \E k \in 0..(Len(whole) - Len(part)) : SubSeq(whole, k + 1, k + Len(part)) = part

(* What a daemon answers: names match as parts of a container's name.      *)
DaemonLists(summary, names, all) ==
    /\ all \/ summary.running
    /\ IF names = {} THEN summary.marked
       ELSE \E name \in names, n \in summary.names : IsPart(name, n)

(* The full names decide.                                                  *)
ListedUnder(summary, names) == names = {} \/ names \cap summary.names # {}

(* The containers of one host that List returns.  A selection is           *)
(* [given, entries].                                                       *)
List(summaries, destination, selection, all) ==
    LET names == IF selection.given THEN SelectedNames(selection.entries, destination) ELSE {}
    IN  IF selection.given /\ names = {} THEN {}
        ELSE {s \in summaries : DaemonLists(s, names, all) /\ ListedUnder(s, names)}

----------------------------------------------------------------------------
(* Logs that are relayed while they are written (cluster/output.go): a     *)
(* writer per container keeps what it got of the open line; whole lines    *)
(* are printed one at a time under the lead of their container.            *)

Newline == "n"
CarriageReturn == "r"

TrimCR(text) ==
    LET kept == CHOOSE k \in 0..Len(text) :
                   /\ \A i \in (k + 1)..Len(text) : text[i] = CarriageReturn
                   /\ k = 0 \/ text[k] # CarriageReturn
    IN  SubSeq(text, 1, kept)

Printf(s, lead, text) == [s EXCEPT !.printed = Append(@, [lead |-> lead, text |-> text])]

Put(s, lead, char) ==
    IF char = Newline THEN [Printf(s, lead, TrimCR(s.pending[lead])) EXCEPT !.pending[lead] = <<>>]
    ELSE [s EXCEPT !.pending[lead] = Append(@, char)]

Write(s, lead, data) == FoldLeft(LAMBDA t, char : Put(t, lead, char), s, data)

FlushPartial(s, lead) ==
    IF s.pending[lead] = <<>> THEN s
    ELSE [Printf(s, lead, s.pending[lead]) EXCEPT !.pending[lead] = <<>>]

(* The streams of all listed containers: writes, <<lead, data>>, in the    *)
(* order in which they arrive, and the end of every stream.                *)
Streams(leads) == [pending |-> [l \in Range(leads) |-> <<>>], printed |-> <<>>]

Written(leads, writes) == FoldLeft(LAMBDA s, w : Write(s, w[1], w[2]), Streams(leads), writes)

StreamLogs(leads, writes) == FoldLeft(FlushPartial, Written(leads, writes), leads).printed

----------------------------------------------------------------------------
(* What the container printed, in the order of its journal, cut behind     *)
(* every entry that ends a line: a piece is [stamps, parts].  The log      *)
(* driver writes the container's stdout and stderr side by side, so an     *)
(* entry of the one can fall between the parts of a split line of the      *)
(* other.  streams[i][k] is the stream of part k of piece i, which no      *)
(* entry that is read tells.                                               *)

EntriesOf(piece) ==
    [i \in DOMAIN piece.parts |->
        [stamp |-> piece.stamps[i], message |-> [form |-> "text", text |-> piece.parts[i]],
         partial |-> i < Len(piece.parts)]]

AllEntries(pieces) == FlattenSeq([i \in DOMAIN pieces |-> EntriesOf(pieces[i])])

(* The stream that ends a line with a piece, and the parts of this line:   *)
(* those of its stream since that stream last ended one.                   *)
EndsOn(pieces, streams, i) == streams[i][Len(pieces[i].parts)]

LineEndedBy(pieces, streams, i) ==
    UNION {{<<j, k>> : k \in {l \in DOMAIN pieces[j].parts : streams[j][l] = EndsOn(pieces, streams, i)}} :
           j \in {h \in 1..i : \A m \in h..(i - 1) : EndsOn(pieces, streams, m) # EndsOn(pieces, streams, i)}}

(* No entry of one stream falls between the parts of a line of the other.  *)
Uninterrupted(pieces, streams) ==
    \A i \in DOMAIN pieces : \A k \in DOMAIN pieces[i].parts : streams[i][k] = EndsOn(pieces, streams, i)

(* The entry at a position is not text.                                    *)
Damaged(entries, broken) ==
    [i \in DOMAIN entries |-> IF i = broken THEN [entries[i] EXCEPT !.message.form = "number"] ELSE entries[i]]

(* What a window shows of a piece.                                         *)
Within(piece, window) == {k \in DOMAIN piece.parts : InWindow(piece.stamps[k], window)}

FirstWithin(piece, window) ==
    CHOOSE k \in Within(piece, window) : \A j \in Within(piece, window) : k <= j

TextWithin(piece, window) ==
    FlattenSeq([k \in DOMAIN piece.parts |-> IF k \in Within(piece, window) THEN piece.parts[k] ELSE <<>>])

Shown(piece, window) ==
    IF Within(piece, window) = {} THEN <<>>
    ELSE <<[stamp |-> piece.stamps[FirstWithin(piece, window)], text |-> TextWithin(piece, window)]>>

(* JournalFaithful: however the driver splits lines into entries, the dump *)
(* of a run holds each piece that has a part in the window once, in order, *)
(* under the stamp of its first part there and with no part that the       *)
(* window leaves out, the piece that it cuts off at its end included; an   *)
(* entry that does not read, or a journalctl that fails, keeps the file    *)
(* from appearing (cluster/journal.go:158, :79, :123).  A piece is a       *)
(* printed line, whole and alone, as long as no entry of the container's   *)
(* other stream interrupts a split line.  Where one does, no text is lost, *)
(* doubled or moved, but the decoder joins the parts of both streams to    *)
(* one line.                                                               *)
JournalFaithful(pieces, streams, run, now, broken, commandFails) ==
    LET entries == AllEntries(pieces)
        window == [since |-> run.timestamp, until |-> IF run.timestampEnd = 0 THEN now ELSE run.timestampEnd]
        reads == /\ run.timestamp # 0 /\ ~commandFails
                 /\ broken \in DOMAIN entries => ~InWindow(entries[broken].stamp, window)
    IN  /\ Dump(run, now, Damaged(entries, broken), commandFails) =
               IF reads THEN [exists |-> TRUE, lines |-> FlattenSeq([i \in DOMAIN pieces |-> Shown(pieces[i], window)])]
               ELSE NoDump
        /\ Uninterrupted(pieces, streams) =>
               \A i \in DOMAIN pieces : LineEndedBy(pieces, streams, i) = {i} \X DOMAIN pieces[i].parts

(* What was written of a container, and its lines.                         *)
StreamOf(l, writes) == FlattenSeq([i \in DOMAIN writes |-> IF writes[i][1] = l THEN writes[i][2] ELSE <<>>])

\* Where the line begins that the i-th character is in or ends.
LineStart(stream, i) ==
    CHOOSE k \in 1..i : (k = 1 \/ stream[k - 1] = Newline) /\ \A j \in k..(i - 1) : stream[j] # Newline

LinesOf(stream) ==
    FlattenSeq([i \in DOMAIN stream |->
                   IF stream[i] = Newline THEN <<TrimCR(SubSeq(stream, LineStart(stream, i), i - 1))>> ELSE <<>>])

RestOf(stream) == SubSeq(stream, LineStart(stream, Len(stream) + 1), Len(stream))

Under(l, printed) == FlattenSeq([k \in DOMAIN printed |-> IF printed[k].lead = l THEN <<printed[k].text>> ELSE <<>>])

(* RelayFaithful: however the streams of several containers interleave and *)
(* wherever they are cut into writes, what is printed under the lead of a  *)
(* container is its stream, line by line and in order, no line split,      *)
(* joined to the next or mixed with another container's; only the ends of  *)
(* lines lose their carriage returns (cluster/output.go:50).               *)
RelayFaithful(leads, writes) ==
    \A l \in Range(leads) :
        LET stream == StreamOf(l, writes)
        IN  Under(l, StreamLogs(leads, writes)) =
                LinesOf(stream) \o IF RestOf(stream) = <<>> THEN <<>> ELSE <<RestOf(stream)>>

(* SelectionExact: a selection lists exactly the containers of the host    *)
(* that carry one of its names, although the daemon's filter also matches  *)
(* longer names; without a selection exactly the marked ones               *)
(* (cluster/inspect.go:58).                                                *)
SelectionExact(summaries, destination, selection, all) ==
    List(summaries, destination, selection, all) =
        {s \in summaries :
            /\ all \/ s.running
            /\ IF ~selection.given THEN s.marked
               ELSE \E d \in Range(selection.entries) :
                       d.ssh = destination /\ d.name \in s.names}
=============================================================================
