------------------------------- MODULE Frames -------------------------------
(***************************************************************************)
(* The control frames on a worker's stdin (frames/frames.go): Write on the *)
(* host's side, Reader.Next on the worker's.                               *)
(*                                                                         *)
(* A frame is the number of its Write call; its encoding is written[n].len *)
(* bytes and a newline.  A Write may fail with any part of the line on the *)
(* pipe, and the host may write on after that.  A line parses exactly if it*)
(* is one whole encoding: every encoding starts with {"type": and ends with*)
(* its only closing brace, so neither a beginning of one nor a beginning   *)
(* with another encoding behind it is JSON.                                *)
(***************************************************************************)
EXTENDS Integers, Sequences

CONSTANTS
  MaxLine,        \* MaxLine
  Lengths,        \* lengths of encoded frames, without the newline
  Types,          \* frame types
  Accepted,       \* the types handed to NewReader
  MaxWrites       \* bound on the number of Write calls

ASSUME FramesAssumption ==
  /\ MaxLine \in Nat \ {0} /\ MaxWrites \in Nat
  /\ Lengths \subseteq Nat \ {0}
  /\ Accepted \subseteq Types

VARIABLES
  pipe,      \* the bytes written and not yet scanned
  closed,    \* whether the host has closed its end
  reader,    \* "open", or what Next returned for good: "eof", "tooLong" or "failed"
  got,       \* the frames Next has returned
  written    \* history: one record per Write call

framesVars == <<pipe, closed, reader, got, written>>

FramesInit ==
  /\ pipe = <<>> /\ got = <<>> /\ written = <<>>
  /\ closed = FALSE
  /\ reader = "open"

-----------------------------------------------------------------------------
(* Write *)

Byte(n, i, len) == [frame |-> n, pos |-> i, nl |-> i = len + 1]

TooLargeBody(len) == len > MaxLine
TooLarge(len) == len + 1 > MaxLine

\* The first `put` bytes of the line reach the pipe.
Emit(len, type, put, result) ==
  LET n == Len(written) + 1 IN
  /\ n <= MaxWrites
  /\ ~closed
  /\ written' = Append(written, [len |-> len, type |-> type, put |-> put, result |-> result])
  /\ pipe' = pipe \o [i \in 1..put |-> Byte(n, i, len)]
  /\ UNCHANGED <<closed, reader, got>>

\* ErrFrameTooLarge, and nothing is written; or the writer takes the line; or it
\* fails, having taken any part of the line.
WriteUnchecked(len, type) ==
  \/ TooLarge(len) /\ Emit(len, type, 0, "refused")
  \/ ~TooLarge(len) /\ \E put \in 0..len + 1 : Emit(len, type, put, "ok")
Write(len, type) ==
  \/ TooLarge(len) /\ Emit(len, type, 0, "refused")
  \/ ~TooLarge(len) /\ Emit(len, type, len + 1, "ok")
  \/ ~TooLarge(len) /\ \E put \in 0..len + 1 : Emit(len, type, put, "failed")

Close ==
  /\ ~closed
  /\ closed' = TRUE
  /\ UNCHANGED <<pipe, reader, got, written>>

-----------------------------------------------------------------------------
(* Next *)

Newlines == {i \in 1..Len(pipe) : pipe[i].nl}
FirstNewline == CHOOSE i \in Newlines : \A j \in Newlines : i <= j

\* json.Unmarshal: the frames whose encoding is this line.
UnmarshalFirst(line) ==
  {n \in 1..Len(written) : /\ Len(line) >= written[n].len
                           /\ SubSeq(line, 1, written[n].len) =
                                [i \in 1..written[n].len |-> Byte(n, i, written[n].len)]}
Unmarshal(line) ==
  {n \in 1..Len(written) : line = [i \in 1..written[n].len |-> Byte(n, i, written[n].len)]}

\* A malformed line and a type that is not accepted are skipped.
Yield(line) == {n \in Unmarshal(line) : written[n].type \in Accepted}

Pass(line, rest) ==
  /\ pipe' = rest
  /\ \/ /\ Yield(line) = {}
        /\ UNCHANGED got
     \/ \E n \in Yield(line) : got' = Append(got, n)
  /\ UNCHANGED <<closed, written>>

\* The scanner finds a newline within its buffer of MaxLine bytes.
NextLineStrict ==
  /\ reader = "open"
  /\ Newlines # {} /\ FirstNewline <= MaxLine
  /\ Pass(SubSeq(pipe, 1, FirstNewline - 1), SubSeq(pipe, FirstNewline + 1, Len(pipe)))
  /\ reader' = IF got' = got THEN "tooLong" ELSE "open"
NextLine ==
  /\ reader = "open"
  /\ Newlines # {} /\ FirstNewline <= MaxLine
  /\ Pass(SubSeq(pipe, 1, FirstNewline - 1), SubSeq(pipe, FirstNewline + 1, Len(pipe)))
  /\ UNCHANGED reader

\* bufio.ErrTooLong: the buffer is full and holds no newline.
NextTooLong ==
  /\ reader = "open"
  /\ Len(pipe) >= MaxLine
  /\ \A i \in Newlines : i > MaxLine
  /\ reader' = "tooLong"
  /\ UNCHANGED <<pipe, closed, got, written>>

\* The stream has ended: the scanner's last token is what is left, if anything.
NextEOF ==
  /\ reader = "open"
  /\ closed /\ Newlines = {} /\ Len(pipe) < MaxLine
  /\ Pass(pipe, <<>>)
  /\ reader' = "eof"

\* A read fails behind the first n bytes on the pipe.  They are the scanner's
\* last token, as at the end of the stream, and nothing is scanned after it: what
\* is on the pipe then stays there.
NextReadError ==
  /\ reader = "open"
  /\ \E n \in 0..Len(pipe) :
       /\ n < MaxLine /\ \A i \in Newlines : i > n
       /\ Pass(SubSeq(pipe, 1, n), pipe)
  /\ reader' = "failed"

Scan == NextLine \/ NextTooLong \/ NextEOF

Next == Scan \/ NextReadError

FramesNext == (\E len \in Lengths, type \in Types : Write(len, type)) \/ Close \/ Next

FramesSpec == FramesInit /\ [][FramesNext]_framesVars

\* The work command calls Next in a loop.
FairFramesSpec == FramesSpec /\ WF_framesVars(Scan)

-----------------------------------------------------------------------------
(* Properties *)

\* Type invariant.
FramesTypeOK ==
  /\ written \in Seq([len : Lengths, type : Types, put : 0..MaxLine,
                      result : {"ok", "refused", "failed"}])
  /\ \A i \in 1..Len(pipe) : pipe[i].frame \in 1..Len(written)
  /\ closed \in BOOLEAN
  /\ reader \in {"open", "eof", "tooLong", "failed"}
  /\ got \in Seq(1..Len(written))

\* Frame n left a beginning of its line without the newline.
Cut(n) == written[n].put \in 1..written[n].len

\* Frame n directly follows one that was cut (calls that wrote nothing aside).
BehindCut(n) ==
  \E m \in 1..n - 1 : Cut(m) /\ \A k \in m + 1 .. n - 1 : written[k].put = 0

\* What Next returns is in the order of the Write calls, each frame at most
\* once, and nothing but whole frames of accepted types.  One whose Write failed
\* before its newline is received in one case only: its encoding was complete and
\* the stream ended, or a read failed, right behind it.
ReceivedInOrder ==
  /\ FramesTypeOK
  /\ \A i, j \in 1..Len(got) : i < j => got[i] < got[j]
  /\ \A i \in 1..Len(got) : written[got[i]].type \in Accepted /\ written[got[i]].result # "refused"
  /\ \A i \in 1..Len(got) :
       Cut(got[i]) => /\ i = Len(got) /\ reader \in {"eof", "failed"}
                      /\ written[got[i]].put = written[got[i]].len

\* A failed Write spoils at most the next frame that reaches the pipe: every
\* other accepted frame whose Write succeeded and whose bytes have been scanned
\* was returned.
LossConfined ==
  \A n \in 1..Len(written) :
    /\ written[n].result = "ok" /\ written[n].type \in Accepted
    /\ \A i \in 1..Len(pipe) : pipe[i].frame # n
    => n \in {got[i] : i \in 1..Len(got)} \/ BehindCut(n)

\* "The reader's scanner rejects longer lines fatally, so Write refuses to emit
\* them": no line a successful Write emitted stops the reader, unless it is
\* glued to a cut one.
OversizedNeverFatal ==
  reader = "tooLong" => \E n \in 1..Len(written) : pipe[MaxLine].frame = n /\ (Cut(n) \/ BehindCut(n))

\* A frame written without an error is received, if its type is accepted and no
\* Write before it was cut short, whatever else is skipped on the way, unless a
\* read fails first.
FramesArrive ==
  \A n \in 1..MaxWrites :
    /\ n <= Len(written)
    /\ written[n].result = "ok" /\ written[n].type \in Accepted
    /\ \A m \in 1..n : ~Cut(m)
    ~> n \in {got[i] : i \in 1..Len(got)} \/ reader = "failed"
=============================================================================
