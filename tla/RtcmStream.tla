----------------------------- MODULE RtcmStream -----------------------------
(***************************************************************************)
(* The bytes of the GNSS receiver: text lines and RTCM3 frames, mixed, cut *)
(* into chunks wherever uart_read_bytes() returned.  handleBytes keeps in   *)
(* rx_buffer_ what it cannot decide yet.  A byte is a number; the two       *)
(* length bytes of a frame are one, the three of its CRC-24Q another, above *)
(* all others, so that it meets no byte of anything else by chance and no   *)
(* frame shares its own with what ends in it; "#" starts a line as "$" does.*)
(***************************************************************************)
EXTENDS Integers, Sequences, SequencesExt

CONSTANTS
  Payload,     \* what the receiver sends in frames
  Noise,       \* what else there is between them: lines, parts of frames, anything
  MaxPayload,  \* kRtcmMaxPayloadLen: 1023
  MaxChunk,    \* tmp of uartReadTask: 1024
  MaxBuffer,   \* kParserMaxBuffer: 8192
  MaxSegments  \* bound on the stream

FirstCrc == 1024
Byte == 0..(FirstCrc - 1)

RtcmAssumption ==
  /\ MaxPayload \in Byte \ {0} /\ MaxChunk \in Nat \ {0} /\ MaxSegments \in Nat
  /\ MaxBuffer \in Nat /\ MaxBuffer >= MaxPayload + 3 + MaxChunk
  /\ \A p \in Payload : p \in Seq(Byte) /\ Len(p) \in 1..MaxPayload
  /\ \A s \in Noise : s \in Seq(Byte) /\ s # <<>>

VARIABLES
  stream,  \* segments the receiver and the line noise send
  fed,     \* bytes of it that were read
  rx,      \* rx_buffer_
  found    \* frames handed to handleRtcmFrame

rvars == <<stream, fed, rx, found>>

NewLine == 10
Dollar == 36
Preamble == 211
Crc24q(data) ==
  LET crc[k \in 0..Len(data)] == IF k = 0 THEN FirstCrc ELSE 2 * crc[k - 1] + data[k]
  IN crc[Len(data)]

Framed(payload) ==
  LET data == <<Preamble, Len(payload)>> \o payload IN Append(data, Crc24q(data))
-----------------------------------------------------------------------------
From(s, i) == SubSeq(s, i, Len(s))
Drop(s, n) == [s EXCEPT !.buf = From(@, n + 1)]
Wait(s) == [s EXCEPT !.done = TRUE]
First(buf, bytes) == SelectInSeq(buf, LAMBDA b : b \in bytes)

(* A line runs to its end; a preamble before that ends it unheard. *)
TextPass(s) ==
  LET i == First(s.buf, {NewLine, Preamble})
  IN IF i = 0 THEN Wait(s) ELSE Drop(s, IF s.buf[i] = Preamble THEN i - 1 ELSE i)

\* Fault: the candidate is dropped whole.
WholeDropped(n) == n + 3

\* A frame with a bad CRC: the search goes on at its second byte.
CrcDropped(n) == 1

(* parseRtcmFrameFromBuffer at a preamble. *)
FramePass(s) ==
  LET n == s.buf[2]
  IN IF Len(s.buf) < 2 THEN Wait(s)
     ELSE IF n \notin 1..MaxPayload THEN Drop(s, 1)
     ELSE IF Len(s.buf) < n + 3 THEN Wait(s)
     ELSE IF s.buf[n + 3] # Crc24q(SubSeq(s.buf, 1, n + 2)) THEN Drop(s, CrcDropped(n))
     ELSE IF n < 2 THEN Drop(s, n + 3)
     ELSE [Drop(s, n + 3) EXCEPT !.out = Append(@, SubSeq(s.buf, 3, n + 2))]

Pass(s) ==
  LET i == First(s.buf, {Dollar, Preamble})
      here == Drop(s, i - 1)
  IN IF s.done THEN s
     ELSE IF i = 0 THEN Wait([s EXCEPT !.buf = <<>>])
     ELSE IF s.buf[i] = Dollar THEN TextPass(here) ELSE FramePass(here)

(* Every pass that does not wait takes a byte away. *)
HandleBytes(buf, chunk) ==
  LET kept == IF Len(buf) + Len(chunk) > MaxBuffer THEN <<>> ELSE buf
      passes == Len(kept) + Len(chunk) + 1
      after[k \in 0..passes] ==
        IF k = 0 THEN [buf |-> kept \o chunk, out |-> <<>>, done |-> FALSE] ELSE Pass(after[k - 1])
  IN after[passes]
-----------------------------------------------------------------------------
(* A frame of one byte has no message type: it is taken for none. *)
Frame == {Framed(p) : p \in {q \in Payload : Len(q) > 1}}
Segment == {Framed(p) : p \in Payload} \cup Noise

\* Silence long enough for a header that lies to be found out.
Trailer == [i \in 1..(MaxPayload + 3) |-> 0]
Bytes ==
  LET sent[k \in 0..Len(stream)] == IF k = 0 THEN <<>> ELSE sent[k - 1] \o stream[k]
  IN sent[Len(stream)] \o Trailer

RInit == stream \in UNION {[1..n -> Segment] : n \in 0..MaxSegments} /\ fed = 0 /\ rx = <<>> /\ found = <<>>

(* uartReadTask *)
Read(n) ==
  /\ fed + n <= Len(Bytes) /\ fed' = fed + n
  /\ LET s == HandleBytes(rx, SubSeq(Bytes, fed + 1, fed + n)) IN rx' = s.buf /\ found' = found \o s.out
  /\ UNCHANGED stream

RNext == \E n \in 1..MaxChunk : Read(n)
RSpec == RInit /\ [][RNext]_rvars
-----------------------------------------------------------------------------
(* Wherever the stream is cut and whatever stands between the frames, every *)
(* frame of the stream is found, once and in its place, and nothing else.   *)
EveryFrameFound ==
  LET inside[k \in 0..Len(stream)] ==
        IF k = 0 THEN <<>>
        ELSE IF stream[k] \in Frame THEN Append(inside[k - 1], SubSeq(stream[k], 3, Len(stream[k]) - 1))
        ELSE inside[k - 1]
  IN fed = Len(Bytes) => found = inside[Len(stream)]
=============================================================================
