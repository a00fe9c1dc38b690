---------------------------- MODULE OledRleProofs ----------------------------
(***************************************************************************)
(* Proofs about the OLED frame coder, for every frame, every length, every *)
(* escape byte but 0 and every limit on the length of a run.               *)
(***************************************************************************)
EXTENDS OledRle, FiniteSetTheorems, TLAPS

(* Appending one byte, and a run of equal bytes *)
LEMMA AppendByte ==
    ASSUME NEW s \in Seq(Byte), NEW x \in Byte
    PROVE  /\ Append(s, x) \in Seq(Byte)
           /\ Len(Append(s, x)) = Len(s) + 1
           /\ \A k \in 1 .. Len(s) : Append(s, x)[k] = s[k]
           /\ Append(s, x)[Len(s) + 1] = x
  OBVIOUS

LEMMA AppendRun ==
    ASSUME NEW s \in Seq(Byte), NEW x \in Byte, NEW m \in Nat
    PROVE  LET r == s \o [k \in 1 .. m |-> x] IN
           /\ r \in Seq(Byte)
           /\ Len(r) = Len(s) + m
           /\ \A k \in 1 .. Len(s) : r[k] = s[k]
           /\ \A k \in Len(s) + 1 .. Len(s) + m : r[k] = x
<1> DEFINE run == [k \in 1 .. m |-> x]
<1>1. run \in Seq(Byte) /\ Len(run) = m
  OBVIOUS
<1>2. \A k \in 1 .. m : run[k] = x
  OBVIOUS
<1> HIDE DEF run
<1> DEFINE r == s \o run
<1>3. r \in Seq(Byte) /\ Len(r) = Len(s) + m
  BY <1>1
<1>4. \A k \in 1 .. Len(s) : r[k] = s[k]
  BY <1>1
<1>5. ASSUME NEW k \in Len(s) + 1 .. Len(s) + m PROVE r[k] = x
  <2>1. k - Len(s) \in 1 .. m
    OBVIOUS
  <2>2. r[k] = run[k - Len(s)]
    BY <1>1, <2>1
  <2> QED
    BY <2>1, <2>2, <1>2
<1> QED
  BY <1>3, <1>4, <1>5 DEF run

-----------------------------------------------------------------------------
(* The inductive invariant.  At every moment the payload read so far is     *)
(* what the host has decoded followed by the run the encoder holds back:    *)
(* `Held' equal bytes a.  What each point of the loop knows besides:        *)
Held == IF at = "literal" THEN n - j ELSE n

Prefix ==
    /\ Len(outdata) <= IF length = 0 THEN 0 ELSE length - 1
    /\ \A k \in 1 .. Len(outdata) : outdata[k] = scratchpad[k]

RunHeld ==
    /\ index <= length
    /\ Len(outdata) + Held = index - 1
    /\ \A k \in Len(outdata) + 1 .. index - 1 : scratchpad[k] = a

AllDecoded == Len(outdata) = IF length = 0 THEN 0 ELSE length - 1

AtScan == at = "scan" =>
    /\ decode = 0
    /\ index <= length => RunHeld /\ (index = 1 => a = 0)
    /\ index > length => AllDecoded
AtLiteral == at = "literal" =>
    decode = 0 /\ a # Esc /\ j <= n /\ RunHeld
AtEscape == at \in {"escape", "value", "count"} =>
    /\ RunHeld
    /\ at = "escape" => decode = 0
    /\ at = "value" => decode = 1
    /\ at = "count" => decode = 2 /\ val = a
AtAdvance == at = "advance" =>
    /\ decode = 0 /\ RunHeld /\ n < MaxByte
    /\ n > 0 => index < length /\ scratchpad[index] = a
AtSent == at = "sent" => decode = 0 /\ AllDecoded

CoderInv == /\ CoderTypeOK /\ Prefix
            /\ AtScan /\ AtLiteral /\ AtEscape /\ AtAdvance /\ AtSent

LEMMA InitCoderInv == CoderInit => CoderInv
<1> SUFFICES ASSUME CoderInit PROVE CoderInv
  OBVIOUS
<1>1. outdata \in Seq(Byte) /\ Len(outdata) = 0
  BY DEF CoderInit
<1>2. 0 \in Byte /\ length \in Nat
  BY RleAssumption DEF CoderInit, Byte
<1>3. CoderTypeOK
  BY <1>1, <1>2 DEF CoderInit, CoderTypeOK
<1>4. Prefix
  BY <1>1, <1>2 DEF Prefix
<1> QED
  BY <1>1, <1>2, <1>3, <1>4 DEF CoderInit, CoderInv, AtScan, AtLiteral, AtEscape, AtAdvance,
     AtSent, RunHeld, Held, AllDecoded

(* Every action but EscapeCount and Literal leaves the decoded bytes alone. *)
LEMMA NextCoderInv == CoderInv /\ [CoderNext]_coder_vars => CoderInv'
<1> SUFFICES ASSUME CoderInv, [CoderNext]_coder_vars PROVE CoderInv'
  OBVIOUS
<1>0. /\ length \in Nat /\ index \in Nat \ {0} /\ a \in Byte /\ n \in Byte /\ n \in Nat
      /\ j \in Nat /\ rlelen \in Nat /\ outdata \in Seq(Byte) /\ Len(outdata) \in Nat
      /\ val \in Byte /\ MaxByte \in Nat /\ MinRun \in Nat /\ MinRun > 0
      /\ Esc \in Byte /\ Esc # 0 /\ n <= MaxByte /\ 0 \in Byte
      /\ MinRun <= MaxByte
  BY RleAssumption DEF CoderInv, CoderTypeOK, Byte
<1>1. CASE ScanFlush
  <2>1. CoderTypeOK'
    BY <1>1, <1>0 DEF CoderInv, CoderTypeOK, ScanFlush, frame, decoder
  <2>2. decode = 0 /\ RunHeld /\ (index = 1 => a = 0)
    BY <1>1, <1>0 DEF CoderInv, AtScan, ScanFlush
  <2>3. CASE at' = "literal"
    BY <1>1, <1>0, <2>1, <2>2, <2>3 DEF CoderInv, ScanFlush, frame, decoder, Prefix, AtScan,
       AtLiteral, AtEscape, AtAdvance, AtSent, RunHeld, Held
  <2>4. CASE at' = "escape"
    BY <1>1, <1>0, <2>1, <2>2, <2>4 DEF CoderInv, ScanFlush, frame, decoder, Prefix, AtScan,
       AtLiteral, AtEscape, AtAdvance, AtSent, RunHeld, Held
  <2> QED
    BY <1>1, <2>3, <2>4 DEF ScanFlush
<1>2. CASE ScanExtend
  <2>1. CoderTypeOK'
    BY <1>2, <1>0 DEF CoderInv, CoderTypeOK, ScanExtend, frame, decoder
  <2>2. decode = 0 /\ RunHeld
    BY <1>2, <1>0 DEF CoderInv, AtScan, ScanExtend
  <2>3. n < MaxByte /\ (n > 0 => index < length /\ scratchpad[index] = a)
    BY <1>2, <1>0, <2>2 DEF ScanExtend, RunEnds, RunHeld, Held
  <2> QED
    BY <1>2, <1>0, <2>1, <2>2, <2>3 DEF CoderInv, ScanExtend, frame, decoder, Prefix, AtScan,
       AtLiteral, AtEscape, AtAdvance, AtSent, RunHeld, Held
<1>3. CASE Literal
  <2>1. decode = 0 /\ a # Esc /\ j < n /\ RunHeld
    BY <1>3 DEF CoderInv, AtLiteral, Literal
  <2>2. outdata' = Append(outdata, a) /\ decode' = 0 /\ val' = val
    BY <1>3, <2>1 DEF Literal, Emit, Feed
  <2>3. /\ outdata' \in Seq(Byte) /\ Len(outdata') = Len(outdata) + 1
        /\ \A k \in 1 .. Len(outdata) : outdata'[k] = outdata[k]
        /\ outdata'[Len(outdata) + 1] = a
    BY <1>0, <2>2, AppendByte
  <2>4. CoderTypeOK'
    BY <1>3, <1>0, <2>2, <2>3 DEF CoderInv, CoderTypeOK, Literal, Emit, frame
  <2>5. Len(outdata) + 1 <= index - 1 /\ scratchpad[Len(outdata) + 1] = a
    BY <1>0, <1>3, <2>1 DEF Literal, RunHeld, Held
  <2>6. Prefix'
    BY <1>0, <1>3, <2>1, <2>3, <2>5 DEF CoderInv, Prefix, RunHeld, Literal, frame
  <2>7. AtLiteral'
    BY <1>0, <1>3, <2>1, <2>2, <2>3 DEF AtLiteral, RunHeld, Held, Literal, frame
  <2> QED
    BY <1>3, <2>4, <2>6, <2>7 DEF CoderInv, Literal, AtScan, AtEscape, AtAdvance, AtSent
<1>4. CASE LiteralEnd
  <2>1. decode = 0 /\ j = n /\ RunHeld
    BY <1>4 DEF CoderInv, AtLiteral, LiteralEnd
  <2>2. CoderTypeOK'
    BY <1>4, <1>0 DEF CoderInv, CoderTypeOK, LiteralEnd, frame, decoder
  <2> QED
    BY <1>4, <1>0, <2>1, <2>2 DEF CoderInv, LiteralEnd, frame, decoder, Prefix, AtScan,
       AtLiteral, AtEscape, AtAdvance, AtSent, RunHeld, Held
<1>5. CASE Escape
  <2>1. decode = 0 /\ RunHeld
    BY <1>5 DEF CoderInv, AtEscape, Escape
  <2>2. outdata' = outdata /\ decode' = 1 /\ val' = val
    BY <1>5, <2>1 DEF Escape, Emit, Feed
  <2>3. CoderTypeOK'
    BY <1>5, <1>0, <2>2 DEF CoderInv, CoderTypeOK, Escape, Emit, frame
  <2> QED
    BY <1>5, <1>0, <2>1, <2>2, <2>3 DEF CoderInv, Escape, frame, Prefix, AtScan,
       AtLiteral, AtEscape, AtAdvance, AtSent, RunHeld, Held
<1>6. CASE EscapeValue
  <2>1. decode = 1 /\ RunHeld
    BY <1>6 DEF CoderInv, AtEscape, EscapeValue
  <2>2. outdata' = outdata /\ decode' = 2 /\ val' = a
    BY <1>6, <2>1 DEF EscapeValue, Emit, Feed
  <2>3. CoderTypeOK'
    BY <1>6, <1>0, <2>2 DEF CoderInv, CoderTypeOK, EscapeValue, Emit, frame
  <2> QED
    BY <1>6, <1>0, <2>1, <2>2, <2>3 DEF CoderInv, EscapeValue, frame, Prefix, AtScan,
       AtLiteral, AtEscape, AtAdvance, AtSent, RunHeld, Held
<1>7. CASE EscapeCount
  <2>1. decode = 2 /\ val = a /\ RunHeld
    BY <1>7 DEF CoderInv, AtEscape, EscapeCount
  <2>2. outdata' = outdata \o [k \in 1 .. n |-> val] /\ decode' = 0 /\ val' = val
    <3>1. Feed(n)
      BY <1>7 DEF EscapeCount, Emit
    <3>2. decode # 0 /\ decode # 1
      BY <2>1
    <3> QED
      BY ONLY <3>1, <3>2, Zenon DEF Feed
  <2>3. /\ outdata' \in Seq(Byte) /\ Len(outdata') = Len(outdata) + n
        /\ \A k \in 1 .. Len(outdata) : outdata'[k] = outdata[k]
        /\ \A k \in Len(outdata) + 1 .. Len(outdata) + n : outdata'[k] = val
    <3>1. outdata \in Seq(Byte) /\ val \in Byte /\ n \in Nat
      BY <1>0
    <3> QED
      BY ONLY <2>2, <3>1, AppendRun
  <2>4. CoderTypeOK'
    BY <1>7, <1>0, <2>2, <2>3 DEF CoderInv, CoderTypeOK, EscapeCount, Emit, frame
  <2>5. Len(outdata) + n = index - 1 /\ index <= length
    BY <1>0, <1>7, <2>1 DEF EscapeCount, RunHeld, Held
  <2>6. Prefix'
    <3>1. ASSUME NEW k \in 1 .. Len(outdata') PROVE outdata'[k] = scratchpad[k]
      <4>1. CASE k \in 1 .. Len(outdata)
        BY <4>1, <2>3 DEF CoderInv, Prefix
      <4>2. CASE k \in Len(outdata) + 1 .. Len(outdata) + n
        BY <4>2, <2>1, <2>3, <2>5 DEF RunHeld
      <4> QED
        BY <4>1, <4>2, <2>3, <1>0
    <3> QED
      BY <3>1, <1>0, <1>7, <2>3, <2>5 DEF Prefix, EscapeCount, frame
  <2>7. AtAdvance'
    BY <1>0, <1>7, <2>2, <2>3, <2>5 DEF AtAdvance, RunHeld, Held, EscapeCount, frame
  <2> QED
    BY <1>7, <2>4, <2>6, <2>7 DEF CoderInv, EscapeCount, AtScan, AtLiteral, AtEscape, AtSent
<1>8. CASE Advance
  <2>1. decode = 0 /\ RunHeld /\ n < MaxByte /\ (n > 0 => index < length /\ scratchpad[index] = a)
    BY <1>8 DEF CoderInv, AtAdvance, Advance
  <2>2. n' = n + 1 /\ index' = index + 1 /\ a' = IF index < length THEN scratchpad[index] ELSE a
    BY <1>8, <1>0, <2>1 DEF Advance
  <2>3. a' \in Byte
    BY <1>0, <2>2, RleAssumption DEF CoderInv, CoderTypeOK, Byte
  <2>4. CoderTypeOK'
    <3>1. index' \in 1 .. length' + 1 /\ n' \in Byte
      BY <1>8, <1>0, <2>1, <2>2 DEF RunHeld, Byte, Advance, frame
    <3> QED
      BY <3>1, <1>8, <2>3 DEF CoderInv, CoderTypeOK, Advance, frame, decoder
  <2>5. AtScan'
    <3>1. CASE index < length
      <4>1. Len(outdata) + n = index - 1
        BY <1>8, <2>1 DEF RunHeld, Held, Advance
      <4>2. \A k \in Len(outdata) + 1 .. index : scratchpad[k] = a'
        BY <3>1, <4>1, <2>1, <2>2, <1>0 DEF RunHeld
      <4> QED
        BY <3>1, <4>1, <4>2, <1>8, <1>0, <2>1, <2>2 DEF AtScan, RunHeld, Held, Advance, frame, decoder
    <3>2. CASE index = length
      BY <3>2, <1>8, <1>0, <2>1, <2>2 DEF AtScan, RunHeld, Held, AllDecoded, Advance, frame, decoder
    <3> QED
      BY <3>1, <3>2, <2>1, <1>0 DEF RunHeld
  <2> QED
    BY <1>8, <2>4, <2>5 DEF CoderInv, Prefix, Advance, frame, decoder, AtLiteral, AtEscape,
       AtAdvance, AtSent
<1>9. CASE Finish
  BY <1>9, <1>0 DEF CoderInv, CoderTypeOK, Finish, frame, decoder, Prefix, AtScan,
     AtLiteral, AtEscape, AtAdvance, AtSent, AllDecoded
<1>10. CASE UNCHANGED coder_vars
  BY <1>10 DEF CoderInv, CoderTypeOK, coder_vars, frame, decoder, Prefix, AtScan,
     AtLiteral, AtEscape, AtAdvance, AtSent, AllDecoded, RunHeld, Held
<1> QED
  BY <1>1, <1>2, <1>3, <1>4, <1>5, <1>6, <1>7, <1>8, <1>9, <1>10 DEF CoderNext

THEOREM CoderCorrect == CoderSpec => []CoderInv
<1> QED
  BY InitCoderInv, NextCoderInv, PTL DEF CoderSpec

(* The type invariant: the locals of the encoder keep their ranges (the     *)
(* index never runs past length + 1), for every frame.                      *)
THEOREM CoderTypeCorrect == CoderSpec => []CoderTypeOK
<1>1. CoderInv => CoderTypeOK
  BY DEF CoderInv
<1> QED
  BY <1>1, CoderCorrect, PTL

(* What the host has decoded is a prefix of the captured frame, for every   *)
(* frame (misterpico.c:236-258, decode.py:89-101).                          *)
THEOREM PrefixCorrect == CoderSpec => []DecodedIsPrefix
<1>1. CoderInv => DecodedIsPrefix
  BY DEF CoderInv, Prefix, DecodedIsPrefix
<1> QED
  BY <1>1, CoderCorrect, PTL

(* The coding loses nothing: a frame that was sent has been decoded whole,  *)
(* for every frame of every length.                                         *)
THEOREM LosslessCorrect == CoderSpec => []Lossless
<1>1. CoderInv => Lossless
  <2> SUFFICES ASSUME CoderInv, at = "sent"
               PROVE  (\A k \in Payload : k <= Len(outdata) /\ outdata[k] = scratchpad[k]) /\ decode = 0
    BY DEF Lossless
  <2>1. decode = 0 /\ AllDecoded /\ length \in Nat
    BY DEF CoderInv, AtSent, CoderTypeOK
  <2> QED
    BY <2>1 DEF CoderInv, Prefix, AllDecoded, Payload
<1> QED
  BY <1>1, CoderCorrect, PTL

-----------------------------------------------------------------------------
(* The size of the coded frame, for runs that are escaped from three bytes  *)
(* on, as in the code.  Between two runs, a frame coded into more than twice *)
(* as many bytes has an odd number of them and ends with a lone escape byte, *)
(* so that something else comes next; the bytes of the sequence that is      *)
(* being written are counted in advance (Begun).                             *)
Begun == CASE at = "value" -> 1 [] at = "count" -> 2 [] OTHER -> 0
Coded == Len(outdata)
OtherNext == Coded + 1 < length => scratchpad[Coded + 1] # Esc

Sparse ==
    /\ rlelen <= 2 * Coded + 1 + Begun
    /\ rlelen = 2 * Coded + 1 + Begun => Coded % 2 = 1 /\ OtherNext
    /\ rlelen = 2 * Coded + Begun => Coded % 2 = 0 \/ OtherNext

(* Within a run of escape bytes that was too long for one sequence the two  *)
(* bytes its first sequence was given have been saved already.              *)
InEscapes ==
    /\ Coded > 0 /\ Coded + 1 < length
    /\ scratchpad[Coded] = Esc /\ scratchpad[Coded + 1] = Esc
Shrinks ==
    /\ rlelen <= Coded + 2 * EscapeRuns(Coded) + Begun
    /\ InEscapes => rlelen + 2 <= Coded + 2 * EscapeRuns(Coded) + Begun

(* What is flushed holds a byte at least, and is a run as long as it could be *)
Flushing ==
    /\ at = "scan" /\ index <= length => index = 1 \/ n >= 1
    /\ at \in {"escape", "value", "count"} =>
          /\ n >= 1 /\ (n >= MinRun \/ a = Esc)
          /\ n < MaxByte /\ index < length => scratchpad[index] # a

SizeInv == Sparse /\ Shrinks /\ Flushing

(* A longer prefix has no fewer runs, and one more if one starts behind it. *)
LEMMA RunsGrow ==
    ASSUME NEW m \in Nat, NEW k \in Nat
    PROVE  /\ EscapeRuns(m) \in Nat /\ EscapeRuns(m + k) \in Nat
           /\ EscapeRuns(m) <= EscapeRuns(m + k)
           /\ k >= 1 /\ scratchpad[m + 1] = Esc /\ (m = 0 \/ scratchpad[m] # Esc)
                => EscapeRuns(m) + 1 <= EscapeRuns(m + k)
<1> DEFINE Starts(p) == {q \in 1 .. p : scratchpad[q] = Esc /\ (q = 1 \/ scratchpad[q - 1] # Esc)}
<1>1. IsFiniteSet(1 .. m + k)
  BY FS_Interval
<1>2. Starts(m + k) \in SUBSET (1 .. m + k) /\ Starts(m) \in SUBSET Starts(m + k)
  OBVIOUS
<1>3. IsFiniteSet(Starts(m + k))
  BY <1>1, <1>2, FS_Subset
<1>4. IsFiniteSet(Starts(m)) /\ Cardinality(Starts(m)) <= Cardinality(Starts(m + k))
  BY <1>2, <1>3, FS_Subset
<1>5. Cardinality(Starts(m)) \in Nat /\ Cardinality(Starts(m + k)) \in Nat
  BY <1>3, <1>4, FS_CardinalityType
<1>6. ASSUME k >= 1, scratchpad[m + 1] = Esc, m = 0 \/ scratchpad[m] # Esc
      PROVE  Cardinality(Starts(m)) + 1 <= Cardinality(Starts(m + k))
  <2>1. Starts(m) \cup {m + 1} \in SUBSET Starts(m + k) /\ m + 1 \notin Starts(m)
    BY <1>6
  <2>2. Cardinality(Starts(m) \cup {m + 1}) = Cardinality(Starts(m)) + 1
    BY <1>4, <2>1, FS_AddElement
  <2>3. Cardinality(Starts(m) \cup {m + 1}) <= Cardinality(Starts(m + k))
    BY <1>3, <2>1, FS_Subset
  <2> QED
    BY <2>2, <2>3
<1> QED
  BY <1>4, <1>5, <1>6 DEF EscapeRuns

(* A step that adds to neither side *)
LEMMA SizeKept ==
    ASSUME Sparse, Shrinks, UNCHANGED <<frame, outdata, rlelen>>, Begun' = Begun
    PROVE  Sparse' /\ Shrinks'
  BY DEF Sparse, Shrinks, OtherNext, Coded, InEscapes, EscapeRuns, frame

LEMMA InitSizeInv == CoderInit => SizeInv
<1> SUFFICES ASSUME CoderInit PROVE SizeInv
  OBVIOUS
<1>1. Coded = 0 /\ rlelen = 0 /\ Begun = 0
  BY DEF CoderInit, Coded, Begun
<1>2. EscapeRuns(0) \in Nat
  BY RunsGrow
<1>3. Sparse /\ Shrinks
  BY <1>1, <1>2 DEF Sparse, Shrinks, InEscapes
<1> QED
  BY <1>3 DEF CoderInit, Flushing, SizeInv

LEMMA NextSizeInv ==
    ASSUME 3 <= MinRun, CoderInv, SizeInv, [CoderNext]_coder_vars
    PROVE  SizeInv'
<1>0. /\ length \in Nat /\ index \in Nat \ {0} /\ n \in Nat /\ j \in Nat /\ rlelen \in Nat
      /\ outdata \in Seq(Byte) /\ Coded \in Nat /\ MaxByte \in Nat /\ MinRun \in Nat
      /\ a \in Byte /\ Esc \in Byte /\ Esc # 0 /\ MinRun <= MaxByte
      /\ Sparse /\ Shrinks /\ Flushing
  BY RleAssumption DEF CoderInv, CoderTypeOK, Byte, Coded, SizeInv
<1>1. CASE ScanFlush
  <2>1. RunHeld /\ (index = 1 => a = 0) /\ index <= length /\ (index = 1 \/ n >= 1)
    BY <1>1, <1>0 DEF CoderInv, AtScan, ScanFlush, Flushing
  <2>2. UNCHANGED <<frame, outdata, rlelen>> /\ Begun' = Begun
    BY <1>1 DEF ScanFlush, Begun, decoder
  <2>3. at' = "escape" => /\ n >= 1 /\ (n >= MinRun \/ a = Esc)
                          /\ n < MaxByte /\ index < length => scratchpad[index] # a
    BY <1>1, <1>0, <2>1 DEF ScanFlush, RunEnds
  <2>4. Flushing'
    BY <1>1, <2>3 DEF Flushing, ScanFlush, frame
  <2> QED
    BY <1>0, <2>2, <2>4, SizeKept DEF SizeInv
<1>2. CASE ScanExtend
  <2>1. UNCHANGED <<frame, outdata, rlelen>> /\ Begun' = Begun /\ Flushing'
    BY <1>2 DEF ScanExtend, Begun, decoder, Flushing
  <2> QED
    BY <1>0, <2>1, SizeKept DEF SizeInv
<1>3. CASE Literal
  <2>1. decode = 0 /\ a # Esc /\ j < n /\ RunHeld
    BY <1>3 DEF CoderInv, AtLiteral, Literal
  <2>2. outdata' = Append(outdata, a) /\ rlelen' = rlelen + 1 /\ at = "literal" /\ at' = at
    BY <1>3, <2>1 DEF Literal, Emit, Feed
  <2>3. Coded' = Coded + 1
    BY <1>0, <2>2, AppendByte DEF Coded
  <2>4. Begun = 0 /\ Begun' = 0
    BY <2>2 DEF Begun
  <2>5. Sparse'
    BY <1>0, <2>2, <2>3, <2>4 DEF Sparse
  <2>6. Shrinks'
    <3>1. scratchpad' = scratchpad /\ scratchpad[Coded + 1] = a
      BY <1>0, <1>3, <2>1 DEF RunHeld, Held, Coded, Literal, frame
    <3>2. /\ EscapeRuns(Coded)' = EscapeRuns(Coded + 1)
          /\ EscapeRuns(Coded) \in Nat /\ EscapeRuns(Coded + 1) \in Nat
          /\ EscapeRuns(Coded) <= EscapeRuns(Coded + 1)
      BY <1>0, <2>3, <3>1, RunsGrow DEF EscapeRuns
    <3>3. ~InEscapes'
      BY <2>1, <2>3, <3>1 DEF InEscapes
    <3> QED
      BY <1>0, <2>2, <2>3, <2>4, <3>2, <3>3 DEF Shrinks
  <2> QED
    BY <2>2, <2>5, <2>6 DEF SizeInv, Flushing
<1>4. CASE LiteralEnd
  <2>1. UNCHANGED <<frame, outdata, rlelen>> /\ Begun' = Begun /\ Flushing'
    BY <1>4 DEF LiteralEnd, Begun, decoder, Flushing
  <2> QED
    BY <1>0, <2>1, SizeKept DEF SizeInv
<1>5. CASE Escape
  <2>1. decode = 0
    BY <1>5 DEF CoderInv, AtEscape, Escape
  <2>2. outdata' = outdata /\ rlelen' = rlelen + 1 /\ at = "escape" /\ at' = "value"
        /\ UNCHANGED <<frame, index, a, n, j>>
    BY <1>5, <2>1 DEF Escape, Emit, Feed
  <2>3. Begun = 0 /\ Begun' = 1 /\ Coded' = Coded
    BY <2>2 DEF Begun, Coded
  <2>4. Sparse' /\ Shrinks'
    <3>1. /\ EscapeRuns(Coded)' = EscapeRuns(Coded) /\ EscapeRuns(Coded) \in Nat
          /\ InEscapes' = InEscapes /\ OtherNext' = OtherNext
      BY <1>0, <2>2, <2>3, RunsGrow DEF EscapeRuns, InEscapes, OtherNext, frame
    <3> QED
      BY <1>0, <2>2, <2>3, <3>1 DEF Sparse, Shrinks
  <2> QED
    BY <1>0, <2>2, <2>4 DEF SizeInv, Flushing, frame
<1>6. CASE EscapeValue
  <2>1. decode = 1
    BY <1>6 DEF CoderInv, AtEscape, EscapeValue
  <2>2. outdata' = outdata /\ rlelen' = rlelen + 1 /\ at = "value" /\ at' = "count"
        /\ UNCHANGED <<frame, index, a, n, j>>
    BY <1>6, <2>1 DEF EscapeValue, Emit, Feed
  <2>3. Begun = 1 /\ Begun' = 2 /\ Coded' = Coded
    BY <2>2 DEF Begun, Coded
  <2>4. Sparse' /\ Shrinks'
    <3>1. /\ EscapeRuns(Coded)' = EscapeRuns(Coded) /\ EscapeRuns(Coded) \in Nat
          /\ InEscapes' = InEscapes /\ OtherNext' = OtherNext
      BY <1>0, <2>2, <2>3, RunsGrow DEF EscapeRuns, InEscapes, OtherNext, frame
    <3> QED
      BY <1>0, <2>2, <2>3, <3>1 DEF Sparse, Shrinks
  <2> QED
    BY <1>0, <2>2, <2>4 DEF SizeInv, Flushing, frame
<1>7. CASE EscapeCount
  <2>1. decode = 2 /\ val = a /\ RunHeld /\ at = "count"
    BY <1>7 DEF CoderInv, AtEscape, EscapeCount
  <2>2. outdata' = outdata \o [k \in 1 .. n |-> val] /\ rlelen' = rlelen + 1
    <3>1. Feed(n) /\ rlelen' = rlelen + 1
      BY <1>7 DEF EscapeCount, Emit
    <3>2. decode # 0 /\ decode # 1
      BY <2>1
    <3> QED
      BY ONLY <3>1, <3>2, Zenon DEF Feed
  <2>3. Coded' = Coded + n
    <3>1. outdata \in Seq(Byte) /\ val \in Byte /\ n \in Nat
      BY <1>0, <2>1
    <3> QED
      BY ONLY <2>2, <3>1, AppendRun DEF Coded
  <2>4. Begun = 2 /\ Begun' = 0 /\ UNCHANGED frame
    BY <1>7, <2>1 DEF Begun, EscapeCount
  <2>5. Coded + n = index - 1 /\ index <= length /\ n >= 1 /\ (n >= MinRun \/ a = Esc)
        /\ (n < MaxByte /\ index < length => scratchpad[index] # a)
    BY <1>0, <2>1 DEF RunHeld, Held, Coded, Flushing
  <2>6. scratchpad[Coded + 1] = a /\ Coded + 1 \in Payload
    BY <1>0, <2>1, <2>5 DEF RunHeld, Coded, Payload
  <2>7. Sparse'
    <3>1. CASE n >= 3
      <4>1. rlelen' < 2 * Coded'
        BY <1>0, <2>2, <2>3, <2>4, <3>1 DEF Sparse
      <4> QED
        BY <1>0, <2>2, <2>3, <2>4, <4>1 DEF Sparse
    <3>2. CASE n < 3
      <4>1. a = Esc /\ ~OtherNext
        BY <1>0, <2>5, <2>6, <3>2 DEF OtherNext, Payload
      <4>2. OtherNext'
        BY <1>0, <2>3, <2>4, <2>5, <3>2, <4>1 DEF OtherNext, frame
      <4>3. /\ rlelen <= 2 * Coded + 2
            /\ rlelen = 2 * Coded + 2 => Coded % 2 = 0
        BY <1>0, <2>4, <4>1 DEF Sparse
      <4>4. n = 1 \/ n = 2
        BY <1>0, <2>5, <3>2
      <4> QED
        BY <1>0, <2>2, <2>3, <2>4, <4>2, <4>3, <4>4 DEF Sparse
    <3> QED
      BY <1>0, <3>1, <3>2
  <2>8. Shrinks'
    <3>1. /\ EscapeRuns(Coded)' = EscapeRuns(Coded + n)
          /\ EscapeRuns(Coded) \in Nat /\ EscapeRuns(Coded + n) \in Nat
          /\ EscapeRuns(Coded) <= EscapeRuns(Coded + n)
      BY <1>0, <2>3, <2>4, RunsGrow DEF EscapeRuns, frame
    <3>2. rlelen' <= Coded + 2 * EscapeRuns(Coded) + 3
      BY <1>0, <2>2, <2>4, <3>1 DEF Shrinks
    <3>3. scratchpad[Coded + n] = a
      BY <1>0, <2>1, <2>5 DEF RunHeld, Coded
    <3>4. InEscapes' => a = Esc /\ n >= 3
      BY <1>0, <2>3, <2>4, <2>5, <3>3 DEF InEscapes, frame
    <3>5. CASE a # Esc
      BY <1>0, <2>2, <2>3, <2>4, <2>5, <3>1, <3>2, <3>4, <3>5 DEF Shrinks
    <3>6. CASE a = Esc /\ InEscapes
      <4>1. rlelen' <= Coded + 2 * EscapeRuns(Coded) + 1
        BY <1>0, <2>2, <2>4, <3>1, <3>6 DEF Shrinks
      <4> QED
        BY <1>0, <2>2, <2>3, <2>4, <2>5, <3>1, <3>4, <4>1 DEF Shrinks
    <3>7. CASE a = Esc /\ ~InEscapes
      <4>1. Coded = 0 \/ scratchpad[Coded] # Esc
        BY <1>0, <2>5, <2>6, <3>7 DEF InEscapes, Payload
      <4>2. EscapeRuns(Coded) + 1 <= EscapeRuns(Coded + n)
        BY <1>0, <2>5, <2>6, <3>7, <4>1, RunsGrow
      <4>3. rlelen' <= Coded' + 2 * EscapeRuns(Coded + n) + Begun'
        BY <1>0, <2>2, <2>3, <2>4, <2>5, <3>1, <3>2, <4>2
      <4>4. n >= 3 => rlelen' + 2 <= Coded' + 2 * EscapeRuns(Coded + n) + Begun'
        BY <1>0, <2>2, <2>3, <2>4, <3>1, <3>2, <4>2
      <4> QED
        BY <3>1, <3>4, <4>3, <4>4 DEF Shrinks
    <3> QED
      BY <3>5, <3>6, <3>7
  <2> QED
    BY <2>7, <2>8, <1>7 DEF SizeInv, Flushing, EscapeCount
<1>8. CASE Advance
  <2>1. UNCHANGED <<frame, outdata, rlelen>> /\ Begun' = Begun
    BY <1>8 DEF Advance, Begun, decoder
  <2>2. n < MaxByte
    BY <1>8 DEF CoderInv, AtAdvance, Advance
  <2>3. n' = n + 1 /\ at' = "scan"
    BY <1>0, <1>8, <2>2 DEF Advance
  <2>4. Flushing'
    BY <1>0, <2>3 DEF Flushing
  <2> QED
    BY <1>0, <2>1, <2>4, SizeKept DEF SizeInv
<1>9. CASE Finish
  <2>1. UNCHANGED <<frame, outdata, rlelen>> /\ Begun' = Begun /\ Flushing'
    BY <1>9 DEF Finish, Begun, decoder, Flushing
  <2> QED
    BY <1>0, <2>1, SizeKept DEF SizeInv
<1>10. CASE UNCHANGED coder_vars
  <2>1. UNCHANGED <<frame, outdata, rlelen>> /\ Begun' = Begun /\ Flushing'
    BY <1>0, <1>10 DEF coder_vars, frame, Begun, decoder, Flushing
  <2> QED
    BY <1>0, <2>1, SizeKept DEF SizeInv
<1> QED
  BY <1>1, <1>2, <1>3, <1>4, <1>5, <1>6, <1>7, <1>8, <1>9, <1>10 DEF CoderNext

(* The coded frame is never more than twice the payload (one more byte when *)
(* the payload is odd): what rlepad must hold (misterpico.c:236-258); and   *)
(* longer than the payload by at most two bytes for each run of the escape  *)
(* byte in it (what sharedbuf must hold, line 268).  For every frame, every *)
(* length and every limit on a run, if runs of less than three bytes are    *)
(* sent as they are.                                                        *)
THEOREM SizeBounded ==
    ASSUME 3 <= MinRun
    PROVE  CoderSpec => []ExpansionBounded
<1>1. CoderInv /\ SizeInv => ExpansionBounded
  <2> SUFFICES ASSUME CoderInv, SizeInv, at = "sent", length > 0
               PROVE  /\ rlelen <= 2 * (length - 1) + ((length - 1) % 2)
                      /\ rlelen <= length - 1 + 2 * EscapeRuns(length - 1)
    BY DEF ExpansionBounded
  <2>1. Coded = length - 1 /\ length \in Nat /\ rlelen \in Nat /\ Begun = 0
    BY DEF CoderInv, AtSent, AllDecoded, CoderTypeOK, Coded, Begun
  <2>2. rlelen <= length - 1 + 2 * EscapeRuns(length - 1)
    <3>1. rlelen <= Coded + 2 * EscapeRuns(Coded) + 0
      BY <2>1 DEF SizeInv, Shrinks
    <3>2. Coded \in Nat
      BY <2>1
    <3>3. EscapeRuns(Coded) \in Nat
      BY <3>2, RunsGrow, 0 \in Nat
    <3> QED
      BY <2>1, <3>1, <3>3
  <2>3. rlelen <= 2 * (length - 1) + ((length - 1) % 2)
    BY <2>1 DEF SizeInv, Sparse
  <2> QED
    BY <2>2, <2>3
<1>2. CoderInv /\ SizeInv /\ [CoderNext]_coder_vars => SizeInv'
  BY NextSizeInv
<1>3. CoderInit => SizeInv
  BY InitSizeInv
<1>4. CoderInit => CoderInv
  BY InitCoderInv
<1>5. CoderInv /\ [CoderNext]_coder_vars => CoderInv'
  BY NextCoderInv
<1> QED
  BY <1>1, <1>2, <1>3, <1>4, <1>5, PTL DEF CoderSpec
=============================================================================
