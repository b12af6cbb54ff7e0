------------------------------- MODULE LogBuf -------------------------------
(***************************************************************************)
(* What the helper prints, on its way to the operator and to the Logs tab: *)
(* runServer replaces os.Stderr by a pipe, a goroutine copies the pipe to  *)
(* the original stderr and into the ring buffer of package logbuf, and     *)
(* /api/logs reads the ring.  Buffer.Write is modelled at the grain of its *)
(* loop; its mutex keeps readers out until the loop is done.               *)
(*                                                                         *)
(* Bytes are tokens, and only line ends are told from the rest.            *)
(***************************************************************************)
EXTENDS Naturals, Sequences, FiniteSets

CONSTANTS
  Text,        (* bytes other than line ends                               *)
  LF, CR,      (* '\n', '\r'                                               *)
  Messages,    (* what one write to os.Stderr may consist of               *)
  BufSize,     (* len(buf) of the copying goroutine: 4096                  *)
  PipeSize,    (* capacity of the pipe                                     *)
  KeepLines,   (* Buffer.max: 500                                          *)
  TailSizes,   (* values of n with which /api/logs calls Tail              *)
  MaxPrinted   (* bound: bytes printed in all                              *)

Bytes == Text \cup {LF, CR}

ASSUME BytesAssumption == LF \notin Text /\ CR \notin Text /\ LF # CR

ASSUME SizesAssumption ==
  /\ {BufSize, PipeSize, KeepLines} \subseteq Nat \ {0}
  /\ TailSizes \subseteq Nat
  /\ MaxPrinted \in Nat
  /\ Messages \subseteq Seq(Bytes)

VARIABLES
  pipe,     (* bytes in the pipe                                           *)
  buf,      (* the goroutine's buffer: as many bytes as were ever read     *)
  n,        (* what the last Read returned                                 *)
  at,       (* where the goroutine is: "read", "tee", "ring", "split"      *)
  pendng,   (* Buffer.pendng                                               *)
  lines,    (* Buffer.lines                                                *)
  answer,   (* what /api/logs has shown last, and how many were asked for  *)
  (* History, read by properties only:                                     *)
  printed,  (* everything written to os.Stderr                             *)
  given,    (* everything given to Buffer.Write                            *)
  shown     (* everything written, or tried to, to the original stderr     *)

history == <<printed, given, shown>>
vars == <<pipe, buf, n, at, pendng, lines, answer, printed, given, shown>>

TypeOK ==
  /\ pipe \in Seq(Bytes)
  /\ buf \in Seq(Bytes)
  /\ n \in 0..BufSize
  /\ at \in {"read", "tee", "ring", "split"}
  /\ pendng \in Seq(Bytes)
  /\ lines \in Seq(Seq(Bytes))
  /\ answer \in [asked: TailSizes \cup {0}, lines: Seq(Seq(Bytes))]
  /\ printed \in Seq(Bytes)
  /\ given \in Seq(Bytes)
  /\ shown \in Seq(Bytes)

----------------------------------------------------------------------------
LastOf(s, k) == SubSeq(s, (IF Len(s) > k THEN Len(s) - k ELSE 0) + 1, Len(s))

LFs(s) == {i \in DOMAIN s : s[i] = LF}

(* bytes.TrimRight(s, "\r"): up to the last byte that is not '\r'.         *)
Trimmed(s) ==
  SubSeq(s, 1, Cardinality({i \in DOMAIN s : \E j \in i..Len(s) : s[j] # CR}))

(* Mutant of Appended: the newest line is dropped when the ring is full.   *)
MutAppended(ls, line) ==
  IF Len(ls) < KeepLines THEN Append(ls, line) ELSE ls

(* appendLocked: when the ring is full, shift it and overwrite the last.   *)
Appended(ls, line) ==
  IF Len(ls) < KeepLines
    THEN Append(ls, line)
    ELSE [i \in DOMAIN ls |-> IF i < Len(ls) THEN ls[i + 1] ELSE line]

(* Mutant of TailOf: the oldest lines in place of the latest.              *)
MutTailOf(ls, k) == IF k = 0 \/ k >= Len(ls) THEN ls ELSE SubSeq(ls, 1, k)

(* Tail(k).                                                                *)
TailOf(ls, k) == IF k = 0 \/ k >= Len(ls) THEN ls ELSE LastOf(ls, k)

----------------------------------------------------------------------------
(* One write to os.Stderr by any goroutine, at once: it blocks until the   *)
(* pipe has room.                                                          *)
PrintMessage(m) ==
  /\ Len(printed) + Len(m) <= MaxPrinted
  /\ Len(pipe) + Len(m) <= PipeSize
  /\ pipe' = pipe \o m
  /\ printed' = printed \o m
  /\ UNCHANGED <<buf, n, at, pendng, lines, answer, given, shown>>

(* pr.Read(buf): overwrites the beginning of buf.                          *)
ReadPipe ==
  LET k == IF Len(pipe) < BufSize THEN Len(pipe) ELSE BufSize IN
  /\ at = "read"
  /\ k > 0
  /\ n' = k
  /\ buf' = SubSeq(pipe, 1, k) \o SubSeq(buf, k + 1, Len(buf))
  /\ pipe' = SubSeq(pipe, k + 1, Len(pipe))
  /\ at' = "tee"
  /\ UNCHANGED <<pendng, lines, answer, history>>

(* Mutant of Chunk: Write(buf) in place of Write(buf[:n]).                 *)
MutChunk == buf

Chunk == SubSeq(buf, 1, n)

(* origStderr.Write, whose error is ignored.                               *)
TeeToOperator ==
  /\ at = "tee"
  /\ shown' = shown \o Chunk
  /\ at' = "ring"
  /\ UNCHANGED <<pipe, buf, n, pendng, lines, answer, printed, given>>

(* Buffer.Write up to its loop; the mutex is held from here on.            *)
BeginWrite ==
  /\ at = "ring"
  /\ pendng' = pendng \o Chunk
  /\ given' = given \o Chunk
  /\ at' = "split"
  /\ UNCHANGED <<pipe, buf, n, lines, answer, printed, shown>>

(* Mutant of TakeLine: an empty line is not taken from the accumulator.    *)
MutTakeLine ==
  /\ at = "split"
  /\ \E i \in LFs(pendng) :
       /\ \A j \in LFs(pendng) : i <= j
       /\ LET line == Trimmed(SubSeq(pendng, 1, i - 1)) IN
          IF line = <<>>
            THEN UNCHANGED <<lines, pendng>>
            ELSE /\ lines' = Appended(lines, line)
                 /\ pendng' = SubSeq(pendng, i + 1, Len(pendng))
  /\ UNCHANGED <<pipe, buf, n, at, answer, history>>

(* One turn of the loop: the first complete line goes to the ring.         *)
TakeLine ==
  /\ at = "split"
  /\ \E i \in LFs(pendng) :
       /\ \A j \in LFs(pendng) : i <= j
       /\ LET line == Trimmed(SubSeq(pendng, 1, i - 1)) IN
          lines' = IF line = <<>> THEN lines ELSE Appended(lines, line)
       /\ pendng' = SubSeq(pendng, i + 1, Len(pendng))
  /\ UNCHANGED <<pipe, buf, n, at, answer, history>>

(* Mutant of EndWrite: a partial line does not wait for the next Write.    *)
MutEndWrite ==
  /\ at = "split"
  /\ LFs(pendng) = {}
  /\ pendng' = <<>>
  /\ at' = "read"
  /\ UNCHANGED <<pipe, buf, n, lines, answer, history>>

(* No complete line is left; the mutex is released.                        *)
EndWrite ==
  /\ at = "split"
  /\ LFs(pendng) = {}
  /\ at' = "read"
  /\ UNCHANGED <<pipe, buf, n, pendng, lines, answer, history>>

(* GET /api/logs?source=helper: Tail takes the mutex.                      *)
ShowLogs(k) ==
  /\ at # "split"
  /\ answer' = [asked |-> k, lines |-> TailOf(lines, k)]
  /\ UNCHANGED <<pipe, buf, n, at, pendng, lines, history>>

Init ==
  /\ pipe = <<>> /\ buf = <<>> /\ n = 0 /\ at = "read"
  /\ pendng = <<>> /\ lines = <<>>
  /\ answer = [asked |-> 0, lines |-> <<>>]
  /\ printed = <<>> /\ given = <<>> /\ shown = <<>>

Copying == ReadPipe \/ TeeToOperator \/ BeginWrite \/ TakeLine \/ EndWrite

Next ==
  \/ \E m \in Messages : PrintMessage(m)
  \/ Copying
  \/ \E k \in TailSizes : ShowLogs(k)

Spec == Init /\ [][Next]_vars

(* The goroutine is scheduled and its writes return.                       *)
FairSpec == Spec /\ WF_vars(Copying)

----------------------------------------------------------------------------
(* The lines of a text that is complete: what stands between line ends,    *)
(* without its trailing carriage returns, unless nothing is left.          *)
LineStart(s, e) ==
  CHOOSE b \in 1..e : /\ b = 1 \/ s[b - 1] = LF
                      /\ \A i \in b..e - 1 : s[i] # LF

LineAt(s, e) == Trimmed(SubSeq(s, LineStart(s, e), e - 1))

LineEnds(s) == {e \in LFs(s) : LineAt(s, e) # <<>>}

(* The k-th element of a set of numbers.                                   *)
Rank(S, e) == Cardinality({f \in S : f <= e})
Nth(S, k)  == CHOOSE e \in S : Rank(S, e) = k

LinesOf(s) ==
  LET Ends == LineEnds(s)
  IN  [k \in 1..Cardinality(Ends) |-> LineAt(s, Nth(Ends, k))]

(* However the pipe cuts what is printed into chunks, the ring holds the   *)
(* last KeepLines lines of it, as if it had been split at once.            *)
RingHoldsLast ==
  at # "split" => lines = LastOf(LinesOf(given), KeepLines)

(* No byte is lost, repeated or reordered between os.Stderr, the pipe and  *)
(* the ring; the operator has seen what the ring has, and has seen it      *)
(* first.                                                                  *)
NothingLost ==
  LET underway == IF at \in {"tee", "ring"} THEN Chunk ELSE <<>> IN
  /\ printed = given \o underway \o pipe
  /\ shown = given \o (IF at = "ring" THEN underway ELSE <<>>)

(* What /api/logs answers are the latest lines of what had been printed    *)
(* and copied when it was asked, as many as were asked for, or all that the*)
(* ring keeps if that is less (or none were named, as Tail(0) has it).  It *)
(* never sees the ring half updated.                                       *)
AnswersAreLatest ==
  [][answer' # answer =>
       answer'.lines =
         LastOf(LinesOf(given),
                IF answer'.asked \in 1..KeepLines THEN answer'.asked
                                                  ELSE KeepLines)]_vars

(* Everything that is printed gets to the ring.                            *)
AllIsLogged == \A k \in 1..MaxPrinted : Len(printed) >= k ~> Len(given) >= k

============================================================================
