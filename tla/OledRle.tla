------------------------------- MODULE OledRle -------------------------------
(***************************************************************************)
(* The run-length coding of OLED frames: main_i2c_loop of misterpico.c     *)
(* (built with PORT_OLED) packs one captured frame, the host program       *)
(* decode.py unpacks it.  The decoder is a function of the bytes it has    *)
(* been given, so here it takes each byte as it is emitted.                *)
(*                                                                         *)
(* Bytes are naturals.  A frame is indexed as the C array is: byte 0 is    *)
(* the command byte, which is not sent; the payload is 1 .. length - 1.    *)
(***************************************************************************)
EXTENDS Naturals, Sequences, FiniteSets

CONSTANTS
    MaxByte,     \* 255: the largest byte, and so the longest run
    Esc,         \* RLE_ESCAPE
    MinRun,      \* 3: shorter runs are sent as they are
    MaxLength,   \* bound: bytes of a frame
    Values       \* bound: the bytes frames are made of

ASSUME RleAssumption ==
    /\ MaxByte \in Nat /\ MinRun \in Nat
    /\ 0 < MinRun /\ MinRun <= MaxByte
    /\ Esc \in 1 .. MaxByte
    /\ MaxLength \in Nat
    /\ Values \subseteq 0 .. MaxByte

Byte == 0 .. MaxByte

VARIABLES
    length, scratchpad,     \* the frame, copied out of the capture bank
    index, a, n, j,         \* locals of main_i2c_loop, index its i
    rlelen,                 \* bytes put in rlepad
    at,                     \* where the encoder is
    outdata, decode, val    \* the decoder

frame == <<length, scratchpad>>
decoder == <<outdata, decode, val>>
coder_vars == <<frame, index, a, n, j, rlelen, at, decoder>>

CoderInit ==
    /\ length \in 0 .. MaxLength
    /\ scratchpad \in [0 .. length - 1 -> Values]
    /\ index = 1 /\ a = 0 /\ n = 0 /\ j = 0 /\ rlelen = 0
    /\ at = "scan"
    /\ outdata = <<>> /\ decode = 0 /\ val = 0

-----------------------------------------------------------------------------
(* decode.py: one byte of the coded frame *)
Feed(b) ==
    \/ /\ decode = 0 /\ b # Esc
       /\ outdata' = Append(outdata, b)
       /\ UNCHANGED <<decode, val>>
    \/ /\ decode = 0 /\ b = Esc
       /\ decode' = 1
       /\ UNCHANGED <<outdata, val>>
    \/ /\ decode = 1
       /\ val' = b /\ decode' = 2
       /\ UNCHANGED outdata
    \/ /\ decode = 2
       /\ outdata' = outdata \o [k \in 1 .. b |-> val]
       /\ decode' = 0
       /\ UNCHANGED val

(* rlepad[rlelen++] = b *)
Emit(b) == rlelen' = rlelen + 1 /\ Feed(b)

(* The bytes differ, or there are no more, or the count is full *)
RunEnds == \/ index = length
           \/ index # 1 /\ index < length /\ scratchpad[index] # a
           \/ n = MaxByte

(* Mutant of ScanFlush: runs of MinRun - 1 are escaped too *)
ScanFlushShort ==
    /\ at = "scan" /\ index <= length /\ RunEnds
    /\ IF n < MinRun - 1 /\ a # Esc THEN at' = "literal" /\ j' = 0
                                    ELSE at' = "escape" /\ j' = j
    /\ UNCHANGED <<frame, index, a, n, rlelen, decoder>>

(* for (i = 1; i <= length; i++): at the end the last run is flushed too *)
ScanFlush ==
    /\ at = "scan" /\ index <= length /\ RunEnds
    /\ IF n < MinRun /\ a # Esc THEN at' = "literal" /\ j' = 0
                                ELSE at' = "escape" /\ j' = j
    /\ UNCHANGED <<frame, index, a, n, rlelen, decoder>>

ScanExtend ==
    /\ at = "scan" /\ index <= length /\ ~RunEnds
    /\ at' = "advance"
    /\ UNCHANGED <<frame, index, a, n, j, rlelen, decoder>>

Literal ==
    /\ at = "literal" /\ j < n
    /\ Emit(a)
    /\ j' = j + 1
    /\ UNCHANGED <<frame, index, a, n, at>>

LiteralEnd ==
    /\ at = "literal" /\ j = n
    /\ n' = 0
    /\ at' = "advance"
    /\ UNCHANGED <<frame, index, a, j, rlelen, decoder>>

Escape ==
    /\ at = "escape"
    /\ Emit(Esc)
    /\ at' = "value"
    /\ UNCHANGED <<frame, index, a, n, j>>

EscapeValue ==
    /\ at = "value"
    /\ Emit(a)
    /\ at' = "count"
    /\ UNCHANGED <<frame, index, a, n, j>>

EscapeCount ==
    /\ at = "count"
    /\ Emit(n)
    /\ n' = 0
    /\ at' = "advance"
    /\ UNCHANGED <<frame, index, a, j>>

(* n++; if (i < length) a = scratchpad[i]; and the loop's i++ *)
Advance ==
    /\ at = "advance"
    /\ n' = (n + 1) % (MaxByte + 1)
    /\ a' = IF index < length THEN scratchpad[index] ELSE a
    /\ index' = index + 1
    /\ at' = "scan"
    /\ UNCHANGED <<frame, j, rlelen, decoder>>

(* Mutant of Finish: the loop ends at i = length *)
FinishEarly ==
    /\ at = "scan" /\ index >= length
    /\ at' = "sent"
    /\ UNCHANGED <<frame, index, a, n, j, rlelen, decoder>>

(* the frame is sent *)
Finish ==
    /\ at = "scan" /\ index > length
    /\ at' = "sent"
    /\ UNCHANGED <<frame, index, a, n, j, rlelen, decoder>>

CoderNext == \/ ScanFlush \/ ScanExtend \/ Literal \/ LiteralEnd \/ Escape
             \/ EscapeValue \/ EscapeCount \/ Advance \/ Finish

CoderSpec == CoderInit /\ [][CoderNext]_coder_vars

-----------------------------------------------------------------------------
Payload == 1 .. length - 1

(* Type invariant of the coder. *)
CoderTypeOK ==
    /\ length \in 0 .. MaxLength
    /\ scratchpad \in [0 .. length - 1 -> Values]
    /\ index \in 1 .. length + 1 /\ a \in Byte /\ n \in Byte /\ j \in Nat /\ rlelen \in Nat
    /\ at \in {"scan", "literal", "escape", "value", "count", "advance", "sent"}
    /\ outdata \in Seq(Byte) /\ decode \in {0, 1, 2} /\ val \in Byte

(* What the host has decoded is at every moment a prefix of the frame that  *)
(* was captured: runs that are full, escape bytes in the picture and the    *)
(* boundary between literals and runs included (misterpico.c:236-258,       *)
(* decode.py:89-101).                                                       *)
DecodedIsPrefix ==
    /\ Len(outdata) <= IF length = 0 THEN 0 ELSE length - 1
    /\ \A k \in 1 .. Len(outdata) : outdata[k] = scratchpad[k]

(* When the frame has been sent nothing is missing: the host has every byte *)
(* and waits for a new frame, not for the rest of an escape.                *)
Lossless ==
    at = "sent" => /\ \A k \in Payload : k <= Len(outdata) /\ outdata[k] = scratchpad[k]
                   /\ decode = 0

(* The coded frame is never more than twice the payload (one more byte when *)
(* the payload is odd): what rlepad must hold (misterpico.c:236-258).  And  *)
(* it grows by two bytes at most for each run of escape bytes, however long *)
(* the run: the datagram built from it at sharedbuf + 4 (misterpico.c:268)  *)
(* stays within SHAREDBUFLEN if a full picture has at most 510 of them, and *)
(* within the 1024 bytes decode.py:79 accepts if it has none.  Nothing in   *)
(* the code keeps a picture with more of them out.                          *)
EscapeRuns(m) ==
    Cardinality({k \in 1 .. m : scratchpad[k] = Esc /\ (k = 1 \/ scratchpad[k - 1] # Esc)})
ExpansionBounded ==
    at = "sent" /\ length > 0 =>
      /\ rlelen <= 2 * (length - 1) + ((length - 1) % 2)
      /\ rlelen <= length - 1 + 2 * EscapeRuns(length - 1)
=============================================================================
