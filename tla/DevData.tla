------------------------------- MODULE DevData -------------------------------
(***************************************************************************)
(* The channels to stored files of the ISO library: RndFile and SeqFile    *)
(* over the buffered device lib/src/lib/xDevData.mod, for a file on a disk *)
(* (bmFull, tag_rnd) in the native run-time system, on a system whose line *)
(* mark is one character (platform.def: SEP0 = LF, SEP1 = 0C).  The file   *)
(* on the disk is the one that the streams of C show, whose own buffers    *)
(* are taken to work.                                                      *)
(*                                                                         *)
(* The buffer is the sequence of its blen valid bytes.  A procedure that   *)
(* makes several system calls is an operator on the state of a call: the   *)
(* device data, how many bytes the device still transfers before it fails  *)
(* (room), the bytes obtained (got), whether the procedure returned 0 (ok) *)
(* and whether it left before it asked the system for the position (lost). *)
(***************************************************************************)
EXTENDS FileBytes, SequencesExt

CONSTANTS
  Byte, Hole, LF,
  BUFSIZE,
  Lengths,    \* how much is read in a call
  Strings,    \* what is written in a call
  Positions,  \* where SetPos goes
  FlagSets,   \* the flags channels are opened with
  Rooms,      \* how many bytes the device transfers in a call before it fails
  MaxLen,     \* bound on the length of the file
  Careful,    \* does the program keep to the rules for the position (Placed)?
  Unknown, Closed

ASSUME DeviceAssumption ==
  /\ BUFSIZE \in Nat \ {0} /\ MaxLen \in Nat /\ Careful \in BOOLEAN
  /\ {Hole, LF} \subseteq Byte
  /\ Lengths \subseteq Nat \ {0} /\ Positions \subseteq Nat /\ Rooms \subseteq Nat
  /\ Strings \subseteq Seq(Byte)
  /\ FlagSets \subseteq SUBSET {"read", "write", "text", "raw"}
  /\ Unknown \notin Nat /\ Closed \notin Nat /\ Unknown # Closed

VARIABLES
  disk,   \* the bytes of the file, as the stream of C shows them
  kpos,   \* the position of that stream
  spos,   \* f^.spos: position of the buffer in the file
  buf,    \* f^.buf[0..f^.blen-1]
  bpos,   \* f^.bpos: position in the buffer
  modf,   \* tag_modf IN f^.tags
  ubuf,   \* f^.ubuf[0..f^.ucnt-1]: the characters put back
  flags,  \* f^.flags
  mode,   \* which of reading and writing the methods of x allow
  chan,   \* "closed", "open", "ended", or "disposed": open, its device data disposed of
  lost,   \* history: a call has left the position elsewhere than it should be
  kept,   \* history: a Reread or Rewrite has failed and left the mode as it was
  fault,  \* history: the device has failed in the last call
  reply   \* history: what the last call returned

\* The file as its user has read and written it, and where.
Content == IF modf THEN Overlay(disk, spos, buf, Hole) ELSE disk
Where   == spos + bpos - Len(ubuf)

data == <<disk, kpos, spos, buf, bpos, modf, ubuf>>
vars == <<data, flags, mode, chan, lost, kept, fault, reply>>

-----------------------------------------------------------------------------
(* The system: xosFiles *)

Call(room) == [disk |-> disk, kpos |-> kpos, spos |-> spos, buf |-> buf, bpos |-> bpos,
               modf |-> modf, ubuf |-> ubuf,
               room |-> room, got |-> <<>>, ok |-> TRUE, lost |-> FALSE]

fWrite(c, s) ==
  LET k == Least(Len(s), c.room)
  IN  [c EXCEPT !.disk = Overlay(@, c.kpos, SubSeq(s, 1, k), Hole), !.kpos = @ + k,
                !.room = @ - k, !.ok = k = Len(s)]

\* The end of the file is no error.
Readable(c, n) == Bytes(c.disk, c.kpos, n)
Moved(c, n) == Least(Len(Readable(c, n)), c.room)
fRead(c, n) ==
  [c EXCEPT !.kpos = @ + Moved(c, n), !.room = @ - Moved(c, n),
            !.ok = Moved(c, n) = Len(Readable(c, n))]

-----------------------------------------------------------------------------
(* Buffer operations *)

\* Mutant of bFlush: a clean buffer is kept.
bFlushDirty(c) ==
  IF ~c.modf THEN [c EXCEPT !.bpos = 0, !.ok = TRUE]
  ELSE LET w == fWrite([c EXCEPT !.kpos = c.spos], c.buf) IN
       IF ~w.ok THEN w
       ELSE [w EXCEPT !.spos = w.kpos, !.modf = FALSE, !.buf = <<>>, !.bpos = 0]

bFlush(c) ==
  IF ~c.modf THEN [c EXCEPT !.buf = <<>>, !.bpos = 0, !.ok = TRUE]
  ELSE LET w == fWrite([c EXCEPT !.kpos = c.spos], c.buf) IN
       IF ~w.ok THEN w
       ELSE [w EXCEPT !.spos = w.kpos, !.modf = FALSE, !.buf = <<>>, !.bpos = 0]

\* What is left of n bytes when the buffer has been used up goes to the caller
\* directly, in whole buffers, when it is more than one.
Whole(n) == IF n > BUFSIZE THEN n - (n % BUFSIZE) ELSE 0

\* The bytes up to the buffer's end, and the buffer flushed.
FromBuffer(c, n) ==
  LET s == Bytes(c.buf, c.bpos, n)
  IN  [c EXCEPT !.got = @ \o s, !.bpos = @ + Len(s), !.ok = TRUE]

\* The buffer is filled at the system's position, and read from.
Fill(c, n) ==
  LET t == [c EXCEPT !.spos = c.kpos]
      r == [fRead(t, BUFSIZE) EXCEPT !.buf = SubSeq(Readable(t, BUFSIZE), 1, Moved(t, BUFSIZE))]
  IN  IF r.ok THEN FromBuffer(r, n) ELSE r

bRead(c, n) ==
  LET y == FromBuffer(c, n)
      rest == n - (Len(y.got) - Len(c.got))
      z == bFlush(y)
      w == Whole(rest)
      r == [fRead(z, w) EXCEPT !.got = @ \o SubSeq(Readable(z, w), 1, Moved(z, w))]
  IN  IF rest = 0 THEN y
      ELSE IF ~z.ok THEN z
      ELSE IF ~r.ok \/ Moved(z, w) # w THEN [r EXCEPT !.lost = TRUE]
      ELSE Fill(r, rest - w)

\* Mutant of IntoBuffer: blen is set to bpos.
IntoBufferCut(c, s) ==
  [c EXCEPT !.buf = SubSeq(@, 1, c.bpos) \o s, !.bpos = @ + Len(s), !.modf = TRUE]

IntoBuffer(c, s) ==
  [c EXCEPT !.buf = Overlay(@, c.bpos, s, Hole), !.bpos = @ + Len(s), !.modf = TRUE]

\* The rest fills buffers that are written at once, and begins a new one.
bWrite(c, s) ==
  LET n == Least(Len(s), BUFSIZE - c.bpos)
      y == IF n = 0 THEN c ELSE IntoBuffer(c, SubSeq(s, 1, n))
      rest == SubSeq(s, n + 1, Len(s))
      z == bFlush(y)
      d == ((Len(rest) - 1) \div BUFSIZE) * BUFSIZE
      w == fWrite(z, SubSeq(rest, 1, d))
  IN  IF rest = <<>> THEN [y EXCEPT !.ok = TRUE]
      ELSE IF ~z.ok THEN z
      ELSE IF ~w.ok THEN [w EXCEPT !.lost = TRUE]
      ELSE IntoBuffer([w EXCEPT !.spos = w.kpos], SubSeq(rest, d + 1, Len(rest)))

-----------------------------------------------------------------------------
(* Raw and text reading and writing.  Only a text channel puts characters  *)
(* back, so that textread stands for rawread as well.                      *)

read(c, n) ==
  LET u == SubSeq(Reverse(c.ubuf), 1, Least(n, Len(c.ubuf)))
      y == [c EXCEPT !.ubuf = SubSeq(@, 1, Len(@) - Len(u)), !.got = @ \o u, !.ok = TRUE]
  IN  IF n > Len(u) THEN bRead(y, n - Len(u)) ELSE y

ungetc(c, ch) == [c EXCEPT !.ubuf = Append(@, ch)]

\* A text is written in pieces of a buffer's size.
WritePiece(c, t) == IF c.ok THEN bWrite(c, t) ELSE c
textwrite(c, s) ==
  LET pieces == (Len(s) + BUFSIZE - 1) \div BUFSIZE
      after[i \in 0..pieces] ==
        IF i = 0 THEN c ELSE WritePiece(after[i - 1], Bytes(s, (i - 1) * BUFSIZE, BUFSIZE))
  IN  after[pieces]

write(c, s) ==
  LET y == [c EXCEPT !.ubuf = <<>>]
  IN  IF "text" \in flags THEN textwrite(y, s) ELSE bWrite(y, s)

-----------------------------------------------------------------------------
(* Methods of a channel *)

Reply(op, bytes, res) == reply' = [op |-> op, data |-> bytes, res |-> res]
Answer(c, op, bytes, res) ==
  IF c.ok THEN Reply(op, bytes, res) ELSE Reply(op, <<>>, "hardDeviceError")

\* The device data after the call.
Leave(c) ==
  /\ disk' = c.disk /\ kpos' = c.kpos /\ spos' = c.spos /\ buf' = c.buf
  /\ bpos' = c.bpos /\ modf' = c.modf /\ ubuf' = c.ubuf /\ fault' = ~c.ok
Stays     == UNCHANGED <<flags, mode, chan, kept>>
Return(c) == Leave(c) /\ lost' = (lost \/ c.lost) /\ Stays

Opened == chan = "open"

\* The rules of a careful program: after a Flush, unless it wrote to the position,
\* after a read of more than a buffer that met the end, and after a long read or
\* write that failed, it sets the position; and what it has looked at, or a
\* TextRead has stopped at, it reads before it writes, asks for the position or
\* sets it.  And it neither reads nor writes after a Reread or Rewrite that failed.
Placed   == Careful => ~lost
Clear    == Careful => ubuf = <<>>
Selected == Careful => ~kept

RawRead(n) ==
  /\ Opened /\ "read" \in mode /\ "raw" \in flags /\ Placed /\ Selected
  /\ \E c \in {read(Call(room), n) : room \in Rooms} :
       Return(c) /\ Answer(c, "Read", c.got, IF c.got = <<>> THEN "endOfInput" ELSE "allRight")

Reads == Opened /\ "read" \in mode /\ "text" \in flags /\ Placed /\ Selected

\* TextRead asks for one character at a time, and puts a line mark back.
TextRead1(c) ==
  LET d == read([c EXCEPT !.got = <<>>], 1)
  IN  IF ~d.ok THEN [c |-> d, s |-> <<>>, end |-> "error"]
      ELSE IF d.got = <<>> THEN [c |-> d, s |-> <<>>, end |-> "endOfInput"]
      ELSE IF d.got = <<LF>> THEN [c |-> ungetc(d, LF), s |-> <<>>, end |-> "endOfLine"]
      ELSE [c |-> d, s |-> d.got, end |-> "none"]

ReadOn(a) ==
  IF a.end # "none" THEN a ELSE LET t == TextRead1(a.c) IN [t EXCEPT !.s = a.s \o @]
TextReads(c, n) ==
  LET after[i \in 0..n] ==
        IF i = 0 THEN [c |-> c, s |-> <<>>, end |-> "none"] ELSE ReadOn(after[i - 1])
  IN  after[n]

TextRead(n) ==
  /\ Reads
  /\ \E r \in {TextReads(Call(room), n) : room \in Rooms} :
         Return(r.c) /\ Answer(r.c, "TextRead", r.s, IF r.s = <<>> THEN r.end ELSE "allRight")

\* An error is taken for the end.
Looked(d) ==
  IF ~d.ok \/ d.got = <<>> THEN Return(d) /\ Reply("Look", <<>>, "endOfInput")
  ELSE /\ Return(ungetc(d, d.got[1]))
       /\ Reply("Look", d.got, IF d.got = <<LF>> THEN "endOfLine" ELSE "allRight")
Look == Reads /\ \E d \in {read(Call(room), 1) : room \in Rooms} : Looked(d)

\* SkipLook is a Skip and a Look.
Skip ==
  /\ Reads
  /\ \E d \in {read(Call(room), 1) : room \in Rooms} :
         Return(d) /\ Answer(d, "Skip", <<>>, IF d.got = <<>> THEN "skipAtEnd" ELSE "allRight")

\* TextWrite, which stands for RawWrite and, with a line mark, for WriteLn.
Write(s) ==
  /\ Opened /\ "write" \in mode /\ Placed /\ Clear /\ Selected
  /\ spos + bpos + Len(s) <= MaxLen /\ kpos + Len(s) <= MaxLen
  /\ \E c \in {write(Call(room), s) : room \in Rooms} :
       Return(c) /\ Answer(c, "Write", <<>>, "allRight")

\* A way that the mode leaves out has the methods that raise an exception.  They
\* do not touch the device data.
Forbidden(way) ==
  /\ chan \in {"open", "disposed"} /\ way \notin mode /\ fault' = FALSE
  /\ Reply(way, <<>>, "notAvailable")
  /\ UNCHANGED <<data, lost>> /\ Stays

\* A Flush keeps the position when the buffer is empty, or was modified and ends there.
FlushKeeps == bpos = Len(buf) /\ (modf \/ buf = <<>>)

Flush ==
  /\ Opened
  /\ \E room \in Rooms, sent \in {TRUE, "write" \notin flags} :
       LET c == bFlush(Call(room))
           d == [c EXCEPT !.ubuf = <<>>, !.ok = c.ok /\ sent]  \* fFlush when writing is allowed
       IN  /\ Leave(d) /\ Answer(d, "Flush", <<>>, "allRight")
           /\ lost' = (lost \/ ubuf # <<>> \/ (c.ok /\ ~FlushKeeps))
           /\ Stays

CurrentPos ==
  /\ Opened /\ Placed /\ Clear /\ fault' = FALSE
  /\ Reply("CurrentPos", <<spos + bpos>>, "allRight")
  /\ UNCHANGED <<data, lost>> /\ Stays

\* EndPos: the end of the file or of the buffer.  Beyond it, it is the position.
Length ==
  /\ Opened /\ Placed /\ Clear /\ (Careful => Where <= Len(Content)) /\ fault' = FALSE
  /\ LET end == spos + Len(buf)
     IN  Reply("EndPos", <<IF Len(disk) > end THEN Len(disk) ELSE end>>, "allRight")
  /\ UNCHANGED <<data, lost>> /\ Stays

InBuffer(p) == spos <= p /\ p < spos + Len(buf)

\* SetPos of the call, by RndFile.SetPos and Reread.
Sought(c, p) ==
  IF InBuffer(p)
  THEN [c EXCEPT !.bpos = p - spos, !.ubuf = IF p - spos # bpos THEN <<>> ELSE @]
  ELSE LET z == bFlush([c EXCEPT !.ubuf = <<>>])
       IN  IF ~z.ok THEN z ELSE [z EXCEPT !.kpos = p, !.spos = p]

SetPos(p) ==
  /\ Opened /\ Clear
  /\ \E room \in Rooms :
       LET c == Sought(Call(room), p) IN
       /\ Leave(c) /\ lost' = (lost /\ ~c.ok)
       /\ Answer(c, "SetPos", <<>>, "allRight") /\ Stays

\* Meant for a buffer that is empty; only its position is looked at.
SynchronizePos ==
  /\ Opened /\ bpos = 0 /\ (Careful => buf = <<>>)
  /\ spos' = kpos /\ lost' = FALSE /\ fault' = FALSE
  /\ Reply("SynchronizePos", <<>>, "allRight")
  /\ UNCHANGED <<disk, kpos, buf, bpos, modf, ubuf>> /\ Stays

-----------------------------------------------------------------------------
(* Opening and closing *)

\* xDevData.Open of a file that is d long, at position p.
OpenData(d, p, fl, m) ==
  /\ disk' = d /\ kpos' = p /\ spos' = p /\ buf' = <<>> /\ bpos' = 0
  /\ modf' = FALSE /\ ubuf' = <<>> /\ lost' = FALSE /\ fault' = FALSE
  /\ flags' = fl /\ mode' = m /\ chan' = "open" /\ kept' = FALSE

Without(fl, f, g) == IF f \in fl THEN {} ELSE {g}

\* RndFile.
OpenOld(fl) ==
  LET g == fl \cup Without(fl, "text", "raw") \cup Without(fl, "write", "read")
  IN  OpenData(disk, 0, g, g \cap {"read", "write"})
OpenClean(fl) ==
  LET g == fl \cup {"write"} \cup Without(fl, "text", "raw")
  IN  OpenData(<<>>, 0, g, g \cap {"read", "write"})

\* SeqFile.
doOpenWrite(fl) == OpenData(<<>>, 0, fl \cup {"write"} \cup Without(fl, "raw", "text"), {"write"})
OpenAppend(fl)  == OpenData(disk, Len(disk), fl \cup {"write"} \cup Without(fl, "raw", "text"), {"write"})
OpenRead(fl)    == OpenData(disk, 0, fl \cup {"read"} \cup Without(fl, "raw", "text"), {"read"})

Open ==
  /\ chan = "closed"
  /\ \E fl \in FlagSets :
       OpenOld(fl) \/ OpenClean(fl) \/ doOpenWrite(fl) \/ OpenAppend(fl) \/ OpenRead(fl)
  /\ Reply("Open", <<>>, "opened")

\* SetPos(0) and input mode, which an exception of SetPos leaves as it was.
Reread ==
  /\ Opened /\ Clear
  /\ \E room \in Rooms :
       LET c == Sought(Call(room), 0) IN
       /\ Leave(c) /\ lost' = (lost /\ ~c.ok)
       /\ Answer(c, "Reread", <<>>, "allRight")
       /\ mode' = IF c.ok THEN {"read"} \cap flags ELSE mode
       /\ kept' = ~c.ok
       /\ UNCHANGED <<flags, chan>>

\* xDevData.Close flushes; when that fails the channel stays open.
Close ==
  /\ Opened
  /\ \E room \in Rooms :
       LET c == bFlush(Call(room)) IN
       /\ Leave(c) /\ Answer(c, "Close", <<>>, "allRight")
       /\ chan' = IF c.ok THEN "closed" ELSE "open"
       /\ kept' = (kept /\ ~c.ok)
  /\ UNCHANGED <<flags, mode, lost>>

ForbidAll == mode' = {} /\ kept' = FALSE

\* Rewrite copies the name, flushes and disposes of the device data, closes the
\* stream, whose handle it takes from the data disposed of, and opens the file anew:
\* each of them may fail.  After a failed flush or closing, an exception is raised
\* before the mode is changed; the others forbid everything, and return.  A file
\* not opened may have been emptied before there was no memory for its device data.
Rewrite ==
  /\ Opened
  /\ \/ ForbidAll /\ fault' = FALSE /\ Reply("Rewrite", <<>>, "allRight")
        /\ UNCHANGED <<data, flags, chan, lost>>
     \/ \E room \in Rooms :
          LET c == bFlush(Call(room)) IN
          \/ ~c.ok /\ Leave(c) /\ Reply("Rewrite", <<>>, "hardDeviceError")
             /\ kept' = TRUE /\ UNCHANGED <<flags, mode, chan, lost>>
          \/ c.ok /\ Leave(c) /\ Reply("Rewrite", <<>>, "softDeviceError")
             /\ chan' = "disposed" /\ kept' = TRUE /\ UNCHANGED <<flags, mode, lost>>
          \/ \E d \in {c.disk, <<>>} :
               c.ok /\ Leave([c EXCEPT !.disk = d]) /\ Reply("Rewrite", <<>>, "allRight")
               /\ chan' = "disposed" /\ ForbidAll /\ UNCHANGED <<flags, lost>>
          \/ c.ok /\ doOpenWrite(flags) /\ Reply("Rewrite", <<>>, "allRight")

\* FlushAll when the program ends, which does not look at errors.
Exit ==
  /\ chan # "ended" /\ chan' = "ended"
  /\ IF Opened THEN \E room \in Rooms : Leave([bFlush(Call(room)) EXCEPT !.ubuf = <<>>])
     ELSE UNCHANGED data /\ fault' = FALSE
  /\ UNCHANGED <<flags, mode, lost, kept, reply>>

\* Any other call takes the device data that have been disposed of: what it does is
\* undefined.  Next leaves it out, Careless has it.
UseDisposed ==
  /\ chan = "disposed" /\ chan' = "undefined"
  /\ UNCHANGED <<data, flags, mode, lost, kept, fault, reply>>

-----------------------------------------------------------------------------
Init ==
  /\ disk = <<>> /\ kpos = 0 /\ spos = 0 /\ buf = <<>> /\ bpos = 0
  /\ modf = FALSE /\ ubuf = <<>> /\ flags = {} /\ mode = {} /\ chan = "closed"
  /\ lost = FALSE /\ kept = FALSE /\ fault = FALSE
  /\ reply = [op |-> "none", data |-> <<>>, res |-> "notKnown"]

Next == \/ Open \/ Reread \/ Rewrite \/ Close \/ Exit
        \/ Look \/ Skip \/ Flush \/ CurrentPos \/ Length \/ SynchronizePos
        \/ \E n \in Lengths : RawRead(n) \/ TextRead(n)
        \/ \E s \in Strings : Write(s)
        \/ \E p \in Positions : SetPos(p)
        \/ \E way \in {"read", "write"} : Forbidden(way)

Spec == Init /\ [][Next]_vars

Careless == Init /\ [][Next \/ UseDisposed]_vars

-----------------------------------------------------------------------------
(* Properties *)

TypeOK ==
  /\ disk \in Seq(Byte) /\ kpos \in Nat /\ spos \in Nat
  /\ buf \in Seq(Byte) /\ Len(buf) <= BUFSIZE /\ bpos \in 0..Len(buf)
  /\ modf \in BOOLEAN /\ ubuf \in Seq(Byte) /\ Len(ubuf) <= 1
  /\ flags \subseteq {"read", "write", "text", "raw"} /\ mode \subseteq {"read", "write"}
  /\ chan \in {"closed", "open", "disposed", "undefined", "ended"}
  /\ lost \in BOOLEAN /\ kept \in BOOLEAN /\ fault \in BOOLEAN

\* After every read, write, seek and failed transfer the buffer agrees with the
\* file.  If it is unmodified, it holds what the disk holds at its position, and
\* lies just before the position of the system ("System file position is set to
\* the end of the buffer", xDevData.mod:115), unless a call counted in lost has
\* been made.  A character that Look or TextRead has put back is the one before
\* the position, in the buffer and in the file, so that it is taken once.
BufferAgrees ==
  /\ TypeOK
  /\ Opened /\ ~modf => /\ buf = Bytes(disk, spos, Len(buf))
                        /\ ~lost => kpos = spos + Len(buf)
  /\ Opened /\ ubuf # <<>> => bpos > 0 /\ ubuf = <<buf[bpos]>> /\ ubuf = Bytes(Content, Where, 1)

\* A careful program sees the file of RandomFile: what it reads is what was last
\* written there, at the position that its calls have left, across the buffer's
\* ends and after device errors; a Flush or Close without error has handed all of
\* it to the system; it reads and writes in the mode that the last Open, Reread or
\* Rewrite has selected, and what a failed Rewrite leaves of the file is as stored.
\* The mode that a failed one leaves selected is not part of it (FailureForbids).
Channel == chan \in {"open", "disposed"}
File == INSTANCE RandomFile
          WITH content <- Content, stored <- disk, LineMark <- LF, Short <- BUFSIZE,
               pos  <- IF ~Channel THEN Closed ELSE IF lost \/ ~Opened THEN Unknown ELSE Where,
               mode <- IF kept \/ ~Channel THEN {} ELSE mode
ImplementsRandomFile == File!Spec

\* Flush "flushes any data buffered by the device module out to the channel"
\* (IOChan.def:97): reading and writing go on where they were.
FlushKeepsPosition == [][Flush /\ ~fault' => Where' = Where]_vars

\* "If the operation cannot be performed (...) neither input mode nor output mode is
\* selected" (SeqFile.def:65, 74): not after an exception.
FailureForbids == [][(Reread \/ Rewrite) /\ reply'.res # "allRight" => mode' = {}]_vars

\* No call takes device data that a failed Rewrite has disposed of.
NothingDisposedIsUsed == chan # "undefined"
=============================================================================
