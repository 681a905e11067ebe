------------------------------ MODULE RandomFile ------------------------------
(***************************************************************************)
(* What RndFile.def, SeqFile.def and IOChan.def promise of a channel to a  *)
(* stored file: a sequence of bytes with one position in it.               *)
(*                                                                         *)
(* The position is Unknown after the calls for which the implementation    *)
(* does not keep the promise (Flush and long reads, see DevData), and when *)
(* the file could not be opened anew: then it has to be set.  When the     *)
(* device has failed the call reports it, a part of a write may have been  *)
(* made, and the position may have advanced.                               *)
(***************************************************************************)
EXTENDS FileBytes

CONSTANTS
  Hole,       \* what a gap is filled with
  LineMark,
  Short,      \* the position is kept by every read up to this length
  Strings,    \* what is written
  Lengths,    \* how much is read
  Positions,
  Unknown, Closed

VARIABLES
  content,    \* the file, as its reader and writer sees it
  pos,        \* the read/write position
  mode,       \* the ways that are selected: "read", "write"
  stored,     \* the file that the device has been given
  fault,      \* the device has failed in this call
  reply       \* what the call returned

Known == pos \notin {Unknown, Closed}
Reply(op, data, res) == reply' = [op |-> op, data |-> data, res |-> res]
Failed(op) == fault' /\ Reply(op, <<>>, "hardDeviceError")

Open == /\ pos = Closed /\ ~fault' /\ mode' \in (SUBSET {"read", "write"}) \ {{}}
        /\ content' \in {content, <<>>} /\ pos' \in {0, Len(content')}
        /\ Reply("Open", <<>>, "opened")

\* The bytes of the current line from the position, at most n.
Line(n) ==
  LET s == Bytes(content, pos, n)
      ends == {i \in 1..Len(s) : s[i] = LineMark}
  IN  IF ends = {} THEN s ELSE SubSeq(s, 1, (CHOOSE i \in ends : \A j \in ends : i <= j) - 1)
Next1 == Bytes(content, pos, 1)
Result == IF Next1 = <<>> THEN "endOfInput"
          ELSE IF Next1 = <<LineMark>> THEN "endOfLine" ELSE "allRight"

Read(n) ==
  /\ Known /\ "read" \in mode /\ UNCHANGED <<content, mode>>
  /\ LET s == Bytes(content, pos, n) IN
     \/ /\ ~fault' /\ Reply("Read", s, IF s = <<>> THEN "endOfInput" ELSE "allRight")
        /\ \/ pos' = pos + Len(s)
           \/ n > Short /\ Len(s) < n /\ pos' = Unknown
     \/ Failed("Read") /\ pos' \in {Unknown} \cup pos..(pos + n)

TextRead(n) ==
  /\ Known /\ "read" \in mode /\ UNCHANGED <<content, mode>>
  /\ LET s == Line(n) IN
     \/ ~fault' /\ pos' = pos + Len(s) /\ Reply("TextRead", s, IF s = <<>> THEN Result ELSE "allRight")
     \/ Failed("TextRead") /\ pos' \in pos..(pos + n)

\* A Look that meets a device error says endOfInput.
Look ==
  /\ Known /\ "read" \in mode /\ UNCHANGED <<content, pos, mode>>
  /\ \/ ~fault' /\ Reply("Look", Next1, Result)
     \/ fault' /\ Reply("Look", <<>>, "endOfInput")

Skip ==
  /\ Known /\ "read" \in mode /\ UNCHANGED <<content, mode>>
  /\ \/ ~fault' /\ Next1 # <<>> /\ pos' = pos + 1 /\ Reply("Skip", <<>>, "allRight")
     \/ ~fault' /\ Next1 = <<>> /\ pos' = pos /\ Reply("Skip", <<>>, "skipAtEnd")
     \/ Failed("Skip") /\ pos' = pos

Write(s) ==
  /\ Known /\ "write" \in mode /\ UNCHANGED mode
  /\ \/ /\ ~fault' /\ content' = Overlay(content, pos, s, Hole)
        /\ pos' = pos + Len(s) /\ Reply("Write", <<>>, "allRight")
     \/ /\ Failed("Write")
        /\ \E k \in 0..Len(s) :
             /\ content' = Overlay(content, pos, SubSeq(s, 1, k), Hole)
             /\ pos' \in {pos + k, Unknown}

\* "notAvailable": the way is not selected.
Forbidden(way) ==
  /\ pos # Closed /\ way \notin mode /\ ~fault' /\ UNCHANGED <<content, pos, mode>>
  /\ Reply(way, <<>>, "notAvailable")

SetPos(p) ==
  /\ pos # Closed /\ UNCHANGED <<content, mode>>
  /\ \/ ~fault' /\ pos' = p /\ Reply("SetPos", <<>>, "allRight")
     \/ Failed("SetPos") /\ UNCHANGED pos

CurrentPos == /\ Known /\ ~fault' /\ UNCHANGED <<content, pos, mode>>
              /\ Reply("CurrentPos", <<pos>>, "allRight")

\* "The first position after which there have been no writes".
EndPos == /\ Known /\ pos <= Len(content) /\ ~fault' /\ UNCHANGED <<content, pos, mode>>
          /\ Reply("EndPos", <<Len(content)>>, "allRight")

\* Everything written has been given to the device.
Flush ==
  /\ pos # Closed /\ UNCHANGED <<content, mode>> /\ pos' \in {pos, Unknown}
  /\ \/ ~fault' /\ stored' = content /\ Reply("Flush", <<>>, "allRight")
     \/ Failed("Flush")

\* The position becomes that of the system, wherever it is.
SynchronizePos ==
  /\ pos # Closed /\ ~fault' /\ UNCHANGED <<content, mode>> /\ pos' # Closed
  /\ Reply("SynchronizePos", <<>>, "allRight")

Close ==
  /\ pos # Closed /\ UNCHANGED content
  /\ \/ ~fault' /\ stored' = content /\ pos' = Closed /\ mode' = {} /\ Reply("Close", <<>>, "allRight")
     \/ Failed("Close") /\ UNCHANGED <<pos, mode>>

\* "Attempts to set the read position to the start of the file, and to select input
\* mode"; nothing is selected when that cannot be done or reading is not permitted.
Reread ==
  /\ pos # Closed /\ UNCHANGED content
  /\ \/ /\ ~fault' /\ pos' = 0 /\ mode' \in {{}, {"read"}}
        /\ Reply("Reread", <<>>, "allRight")
     \/ Failed("Reread") /\ UNCHANGED pos /\ mode' = {}

\* "Attempts to truncate the file to zero length, and to select output mode"; nothing
\* is selected when that cannot be done.  The file is then as it was, or, when it could
\* not be opened anew, all stored or all gone, and has no position.
Rewrite ==
  /\ pos # Closed
  /\ \/ /\ ~fault' /\ content' = <<>> /\ pos' = 0 /\ mode' = {"write"}
        /\ Reply("Rewrite", <<>>, "allRight")
     \/ /\ mode' = {} /\ UNCHANGED <<content, pos>>
        /\ Failed("Rewrite") \/ (~fault' /\ Reply("Rewrite", <<>>, "allRight"))
     \/ /\ mode' = {} /\ content' \in {content, <<>>} /\ stored' = content' /\ pos' = Unknown
        /\ ~fault' /\ \E res \in {"allRight", "softDeviceError"} : Reply("Rewrite", <<>>, res)

\* The program ends.
Exit ==
  /\ UNCHANGED content /\ pos' = Closed /\ mode' = {} /\ reply' = reply
  /\ fault' \/ stored' = content

Init == content = stored /\ pos = Closed /\ mode = {} /\ ~fault
        /\ reply = [op |-> "none", data |-> <<>>, res |-> "notKnown"]

Next == \/ Open \/ Look \/ Skip \/ CurrentPos \/ EndPos \/ Flush \/ SynchronizePos
        \/ Close \/ Reread \/ Rewrite \/ Exit
        \/ \E n \in Lengths : Read(n) \/ TextRead(n)
        \/ \E s \in Strings : Write(s)
        \/ \E p \in Positions : SetPos(p)
        \/ \E way \in {"read", "write"} : Forbidden(way)

Spec == Init /\ [][Next]_<<content, pos, mode, stored, fault, reply>>
=============================================================================
