-------------------------------- MODULE Logs --------------------------------
(***************************************************************************)
(* What happens to a container's output: CaptureAndCompressLogs of         *)
(* orchestrator/logs.go stores it, StreamRunnerLogs of server/log.go sends *)
(* it live, GetRunnerLogs and ReadGzippedJSONLLogs read what was stored.   *)
(*                                                                         *)
(* An output is multiplexed, or plain as from a terminal.  It is a         *)
(* sequence of frames: a frame has a stream, a timestamp of a second and   *)
(* its fraction, which may be missing (0), a word, and says whether it     *)
(* ends its line.  `short' means that it is less than eight bytes long.    *)
(* The engine is asked for timestamps and puts one before every frame, so  *)
(* that a line of several frames has several.                              *)
(***************************************************************************)
EXTENDS Integers, SequencesExt

CONSTANT Now    \* time.Now(), later than every timestamp of an output

ASSUME LogsAssumption == Now \in Nat

Streams == {"stdout", "stderr"}

\* No frame is empty.
LogFrames ==
  {f \in [stream : Streams, ts : Nat, frac : Nat, word : STRING, eol : BOOLEAN,
          short : BOOLEAN] : f.ts # 0 \/ f.word # "" \/ f.eol}
LogOutputs == [form : {"mux", "plain"}, frames : Seq(LogFrames)]

\* The text of a line behind its first timestamp: words, with the timestamps of
\* the later frames before theirs.
Content(line) ==
  [i \in DOMAIN line |-> [ts |-> IF i = 1 THEN 0 ELSE line[i].ts, word |-> line[i].word]]

\* strings.TrimRight leaves nothing.
Blank(line) == \A i \in DOMAIN line : line[i].ts = 0 /\ line[i].word = ""

\* parseLogLine: a line without a timestamp is given the present time, and a
\* timestamp loses its fraction.
ParseLogLine(line, stream) ==
  [ts |-> IF Head(line).ts # 0 THEN Head(line).ts ELSE Now, frac |-> 0,
   stream |-> stream, content |-> Content(line)]

\* parseDockerTimestamp does the same to a frame or a line, and leaves a
\* timestamp as it is.
ParseDockerTimestamp(line) ==
  [ParseLogLine(line, "stdout") EXCEPT
     !.frac = IF Head(line).ts # 0 THEN Head(line).frac ELSE 0]

----------------------------------------------------------------------------
(* Storing.                                                                *)

Collecting == [buf |-> [s \in Streams |-> <<>>], lines |-> <<>>]

Appended(lines, line, stream) ==
  IF line = <<>> \/ Blank(line) THEN lines ELSE Append(lines, ParseLogLine(line, stream))

\* lineCollector.Write: a line that has not ended stays in its stream's buffer.
CollectorWrite(c, frame) ==
  LET line == Append(c.buf[frame.stream], frame)
  IN  IF frame.eol
        THEN [buf |-> [c.buf EXCEPT ![frame.stream] = <<>>],
              lines |-> Appended(c.lines, line, frame.stream)]
        ELSE [c EXCEPT !.buf[frame.stream] = line]

\* lineCollector.Flush, of stdout and then of stderr.
Flush(c) == Appended(Appended(c.lines, c.buf["stdout"], "stdout"), c.buf["stderr"], "stderr")

\* stdcopy.StdCopy writes frames to the collectors of their streams; a plain
\* output is read line by line, as stdout.
Demultiplexed(o) == Flush(FoldLeft(CollectorWrite, Collecting, o.frames))
AsStdout(o) == [o EXCEPT !.frames = [i \in DOMAIN @ |-> [@[i] EXCEPT !.stream = "stdout"]]]

\* Variant: of the same second, the line collected last comes first.
SameSecondReversed(s, i) ==
  {j \in DOMAIN s : s[j].ts < s[i].ts \/ (s[j].ts = s[i].ts /\ j > i)}

\* What sort.SliceStable puts before line i: what is earlier, and of the same
\* second, as timestamps have no fractions any more, what was collected before.
Before(s, i) == {j \in DOMAIN s : s[j].ts < s[i].ts \/ (s[j].ts = s[i].ts /\ j < i)}

SortStable(s) ==
  [k \in DOMAIN s |-> s[CHOOSE i \in DOMAIN s : Cardinality(Before(s, i)) = k - 1]]

CaptureAndCompressLogs(o) ==
  SortStable(IF o.form = "mux" /\ Demultiplexed(o) # <<>> THEN Demultiplexed(o)
             ELSE Demultiplexed(AsStdout(o)))

----------------------------------------------------------------------------
(* Sending.                                                                *)

\* sendPlainLine sends no blank line.
SendPlainLine(sent, line) ==
  IF Blank(line) THEN sent ELSE Append(sent, ParseDockerTimestamp(line))

\* The lines of a plain output; the last one may not have ended.
Cut(c, frame) ==
  IF frame.eol THEN [lines |-> Append(c.lines, Append(c.rest, frame)), rest |-> <<>>]
  ELSE [c EXCEPT !.rest = Append(@, frame)]

LinesOf(frames) ==
  LET c == FoldLeft(Cut, [lines |-> <<>>, rest |-> <<>>], frames)
  IN  IF c.rest = <<>> THEN c.lines ELSE Append(c.lines, c.rest)

\* The loop peeks at eight bytes: a rest that is shorter is not sent.
Sent(lines) ==
  LET last == lines[Len(lines)]
  IN  IF lines # <<>> /\ Len(last) = 1 /\ last[1].short THEN Front(lines) ELSE lines

\* A frame is sent as it comes, whether or not it is a line.
StreamRunnerLogs(o) ==
  IF o.form = "mux"
    THEN [i \in DOMAIN o.frames |->
            [ParseDockerTimestamp(<<o.frames[i]>>) EXCEPT !.stream = o.frames[i].stream]]
    ELSE FoldLeft(SendPlainLine, <<>>, Sent(LinesOf(o.frames)))

----------------------------------------------------------------------------

\* What is of one stream, in its order.
Of(entries, stream) ==
  FoldLeft(LAMBDA q, x : IF x.stream = stream THEN Append(q, x) ELSE q, <<>>, entries)

Words(line) == [i \in DOMAIN line |-> line[i].word]

\* The lines that an output whose frames are stamped has on one stream, in the
\* order they were begun.
Written(o, stream) ==
  LET lines == LinesOf(Of(o.frames, stream))
  IN  [i \in DOMAIN lines |-> Words(lines[i])]

\* What entries say, timestamps left out.
TextsOf(entries) == [i \in DOMAIN entries |-> Words(entries[i].content)]

Pure(entry) == \A i \in DOMAIN entry.content : entry.content[i].ts = 0

ToSeconds(entries) == [i \in DOMAIN entries |-> [entries[i] EXCEPT !.frac = 0]]

NotLater(f, g) == f.ts < g.ts \/ (f.ts = g.ts /\ f.frac <= g.frac)

\* The frames of each stream are stamped, in the order of time.
Stamped(o) ==
  \A i, j \in DOMAIN o.frames :
    o.frames[i].ts # 0 /\ (i <= j /\ o.frames[i].stream = o.frames[j].stream
                            => NotLater(o.frames[i], o.frames[j]))

WholeLines(o) == \A i \in DOMAIN o.frames : o.frames[i].eol
=============================================================================
