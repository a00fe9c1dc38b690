-------------------------- MODULE OledCaptureProofs --------------------------
(***************************************************************************)
(* The capture of OLED frames copies whole frames, in order, for every     *)
(* number and length of frames, depth of the FIFO and number of late       *)
(* bytes.                                                                  *)
(***************************************************************************)
EXTENDS OledCapture, FiniteSetTheorems, TLAPS

-----------------------------------------------------------------------------
(* The inductive invariant: first what holds however late interrupts come *)

(* A transaction was seen since the last end, kept or skipped *)
Marked ==
    /\ mem_address_written <=> skip \/ mem_address > 0
    /\ skip => mem_address = 0

(* What the interrupt handler has left to do *)
Serving ==
    /\ irq = "end" => intr_stat # {}
    /\ irq \in {"receive", "finish"} => transfer_in_progress
    /\ mem_address_written => transfer_in_progress

(* The master's transaction is one of the frames, or a command *)
Framed ==
    /\ bus.pos <= bus.len
    /\ ~bus.open => bus = Idle
    /\ bus.id # 0 => bus.id = Len(frames) /\ bus.len = frames[bus.id]

(* The bytes that wait are those of the transactions, one after the other *)
Follows(byte, pos, id) == pos = 0 \/ (pos = byte.pos + 1 /\ id = byte.id)

Chained ==
    /\ \A j \in 1 .. Len(fifo) - 1 : Follows(fifo[j], fifo[j + 1].pos, fifo[j + 1].id)
    /\ fifo # <<>> => Follows(fifo[Len(fifo)], bus.pos, bus.id)
    /\ \A j \in 1 .. Len(fifo) : fifo[j].pos = 0 => (fifo[j].ctl <=> fifo[j].id # 0)

(* A byte at `pos' of `id' starts a transaction or goes on with the bank's *)
Continues(pos, id) == pos = 0 \/ (mem_address <= pos /\ id = mem[bank][0])

Continued ==
    mem_address > 0 =>
        /\ fifo # <<>> => Continues(fifo[1].pos, fifo[1].id)
        /\ fifo = <<>> => Continues(bus.pos, bus.id)

(* Every byte is of a frame that was sent *)
Known ==
    /\ \A b \in Bank, k \in Place : mem[b][k] <= Len(frames)
    /\ \A j \in 1 .. Len(fifo) : fifo[j].id <= Len(frames)

(* Both banks hold bytes of one frame, the one that was completed at least one *)
Uniform(b, n) == \A k \in Place : k < n => mem[b][k] = mem[b][0]

Banks ==
    /\ Uniform(bank, mem_address)
    /\ len[bank] = 0
    /\ Uniform(1 - bank, len[1 - bank])
    /\ len[1 - bank] = 0 => read_bank = bank /\ pc = "check"

(* Until the banks are swapped, the copy is of the completed bank *)
CopyOf(b) ==
    /\ length = len[b]
    /\ \A k \in 1 .. Len(scratchpad) : scratchpad[k] = mem[b][k - 1]

Copying ==
    /\ pc = "copy" => Len(scratchpad) <= length
    /\ pc = "encode" => Len(scratchpad) = length
    /\ pc \in {"length", "copy"} /\ ~swapped => read_bank = 1 - bank
    /\ pc \in {"copy", "encode"} /\ ~swapped => CopyOf(1 - bank)
    /\ pc = "encode" /\ ~swapped => read_bank = bank

General ==
    /\ TypeOK /\ Marked /\ Serving /\ Framed /\ Chained /\ Continued /\ Known
    /\ Banks /\ Copying

(* Then what holds while they come in time *)

(* The bytes of a transaction arrive when those before were served *)
Prompt ==
    /\ bus.pos > 0 => ~Unserved
    /\ irq \in {"end", "finish"} => fifo = <<>>
    /\ bus.pos = 0 /\ (fifo # <<>> \/ mem_address_written) => Unserved

(* The bytes that wait are of the transaction the context is in *)
Matches(pos, id) ==
    /\ skip <=> id = 0
    /\ ~skip => mem_address = pos /\ id = mem[bank][0]

Single ==
    /\ \A j \in 2 .. Len(fifo) : fifo[j].pos # 0
    /\ fifo # <<>> => (fifo[1].pos = 0 <=> ~mem_address_written)
    /\ fifo # <<>> /\ mem_address_written => Matches(fifo[1].pos, fifo[1].id)
    /\ fifo = <<>> /\ bus.pos > 0 => mem_address_written /\ Matches(bus.pos, bus.id)

(* When a transaction is over, all of its frame has arrived *)
Ended ==
    bus.pos = 0 =>
        /\ fifo # <<>> /\ fifo[Len(fifo)].id # 0 =>
              fifo[Len(fifo)].pos + 1 = frames[fifo[Len(fifo)].id]
        /\ fifo = <<>> /\ mem_address > 0 => mem_address = frames[mem[bank][0]]

(* The banks hold frames, and the completed one a whole frame *)
Completed ==
    /\ mem_address > 0 => mem[bank][0] # 0
    /\ len[1 - bank] > 0 => mem[1 - bank][0] # 0 /\ len[1 - bank] = frames[mem[1 - bank][0]]

(* The last frame that was completed *)
Done == IF len[1 - bank] = 0 THEN 0 ELSE mem[1 - bank][0]

(* Frames are completed in the order they were sent *)
Ordered ==
    /\ mem_address > 0 => Done < mem[bank][0]
    /\ \A j \in 1 .. Len(fifo) : fifo[j].id # 0 => Done < fifo[j].id
    /\ bus.id # 0 => Done < bus.id
    /\ bus.id # 0 /\ bus.pos = 0 =>
          /\ mem_address > 0 => mem[bank][0] < bus.id
          /\ \A j \in 1 .. Len(fifo) : fifo[j].id < bus.id

(* None is shown twice *)
ShownBefore ==
    /\ shown <= Done
    /\ pc \in {"check", "encode"} /\ read_bank # bank => shown < Done
    /\ pc # "check" /\ ~swapped => shown < Done

InTime ==
    late = 0 =>
        /\ Prompt /\ Single /\ Ended /\ Completed /\ Ordered /\ ShownBefore

Inv == General /\ InTime

-----------------------------------------------------------------------------
(* The type invariant, in four parts *)

ContextTyped ==
    /\ mem \in [Bank -> [Place -> FrameId]] /\ mem_address \in 0 .. MaxLen
    /\ len \in [Bank -> 0 .. MaxLen] /\ bank \in Bank
    /\ skip \in BOOLEAN /\ mem_address_written \in BOOLEAN
    /\ swapped \in BOOLEAN

HandlerTyped ==
    /\ transfer_in_progress \in BOOLEAN
    /\ irq \in {"none", "receive", "finish", "end"}
    /\ intr_stat \subseteq intr /\ intr \subseteq {"start", "stop"}

MasterTyped ==
    /\ fifo \in Seq(Byte) /\ Len(fifo) <= MaxFifo
    /\ bus \in Transaction /\ frames \in Seq(1 .. MaxLen) /\ Len(frames) <= MaxFrames
    /\ late \in 0 .. MaxLate

LoopTyped ==
    /\ pc \in {"check", "length", "copy", "encode"} /\ read_bank \in Bank
    /\ length \in 0 .. MaxLen
    /\ scratchpad \in Seq(FrameId) /\ Len(scratchpad) <= MaxLen
    /\ shown \in FrameId

LEMMA TypeParts == TypeOK <=> ContextTyped /\ HandlerTyped /\ MasterTyped /\ LoopTyped
BY DEF TypeOK, ContextTyped, HandlerTyped, MasterTyped, LoopTyped

LEMMA TypePartsAfter ==
    TypeOK' <=> ContextTyped' /\ HandlerTyped' /\ MasterTyped' /\ LoopTyped'
BY DEF TypeOK, ContextTyped, HandlerTyped, MasterTyped, LoopTyped

LEMMA BoundsPositive == MaxLen \in Nat /\ MaxLen > 0 /\ 0 \in Place /\ MaxFrames \in Nat
BY CaptureAssumption DEF Place

(* The invariant holds at the start. *)
LEMMA InitInv == Init => Inv
<1> SUFFICES ASSUME Init PROVE Inv
  OBVIOUS
<1> USE CaptureAssumption, BoundsPositive DEF Init
<1>1. ContextTyped /\ HandlerTyped
  BY DEF ContextTyped, HandlerTyped, Bank, Place, FrameId
<1>2. MasterTyped
  BY DEF MasterTyped, Idle, Transaction, FrameId
<1>3. LoopTyped
  BY DEF LoopTyped, Bank, FrameId
<1>4. Marked
  BY DEF Marked
<1>9. Serving /\ Framed
  BY DEF Serving, Framed, Idle
<1>8. Chained /\ Continued
  BY DEF Chained, Continued
<1>5. Known /\ Banks /\ Copying
  BY DEF Known, Banks, Copying, Uniform, Bank, Place
<1>6. Prompt /\ Single /\ Ended
  BY DEF Prompt, Single, Ended, Idle
<1>7. Completed /\ Ordered /\ ShownBefore
  BY DEF Completed, Ordered, ShownBefore, Done, Idle, Bank
<1> QED
  BY <1>1, <1>2, <1>3, <1>4, <1>5, <1>6, <1>7, <1>8, <1>9, TypeParts DEF Inv, General, InTime

-----------------------------------------------------------------------------
(* What a step leaves alone keeps the parts that do not mention it *)

LEMMA ContextStays ==
    ASSUME UNCHANGED <<mem, mem_address, len, skip, mem_address_written, bank>>
    PROVE  /\ Marked' = Marked
           /\ ContextTyped /\ swapped' \in BOOLEAN => ContextTyped'
           /\ \A b, n : Uniform(b, n)' = Uniform(b, n)
           /\ Done' = Done
BY DEF Marked, ContextTyped, Uniform, Done

LEMMA BusStays ==
    ASSUME UNCHANGED <<mem, mem_address, len, skip, mem_address_written, bank,
                       fifo, bus, frames>>
    PROVE  /\ Framed' = Framed /\ Chained' = Chained /\ Continued' = Continued
           /\ Known' = Known
           /\ Single' = Single /\ Ended' = Ended /\ Completed' = Completed
           /\ Ordered' = Ordered
<1>1. Framed' = Framed /\ Chained' = Chained /\ Known' = Known
  BY DEF Framed, Chained, Known, Follows
<1>2. Continued' = Continued
  BY DEF Continued, Continues
<1>3. Single' = Single
  BY DEF Single, Matches
<1>4. Ended' = Ended /\ Completed' = Completed
  BY DEF Ended, Completed
<1>5. Ordered' = Ordered
  BY DEF Ordered, Done
<1> QED
  BY <1>1, <1>2, <1>3, <1>4, <1>5

LEMMA LoopStays ==
    ASSUME UNCHANGED <<mem, mem_address, len, bank, swapped, loop>>
    PROVE  /\ LoopTyped' = LoopTyped /\ Banks' = Banks /\ Copying' = Copying
           /\ ShownBefore' = ShownBefore
<1>1. LoopTyped' = LoopTyped /\ Banks' = Banks
  BY DEF LoopTyped, Banks, Uniform, loop
<1>2. Copying' = Copying
  BY DEF Copying, CopyOf, loop
<1>3. ShownBefore' = ShownBefore
  BY DEF ShownBefore, Done, loop
<1> QED
  BY <1>1, <1>2, <1>3

-----------------------------------------------------------------------------
(* The interrupt handler around the calls of i2c_slave_handler *)

LEMMA EnterKeepsInv == ASSUME Inv, Enter PROVE Inv'
<1> USE DEF Inv, General, InTime
<1>1. UNCHANGED <<context, fifo, intr, master, loop>>
  BY DEF Enter
<1>2. ContextTyped' /\ MasterTyped' /\ LoopTyped'
  BY <1>1, TypeParts DEF ContextTyped, MasterTyped, LoopTyped, context, master, loop
<1>3. HandlerTyped' /\ Serving'
  BY TypeParts DEF HandlerTyped, Enter, Serving, context, Marked
<1>4. late = 0 => Prompt'
  BY <1>1, TypeParts DEF Prompt, Enter, Unserved, context, master, HandlerTyped
<1> QED
  BY <1>1, <1>2, <1>3, <1>4, TypePartsAfter, ContextStays, BusStays, LoopStays
     DEF context, master

LEMMA ReceivedKeepsInv == ASSUME Inv, Received PROVE Inv'
<1> USE DEF Inv, General, InTime
<1>1. UNCHANGED <<context, transfer_in_progress, intr_stat, fifo, intr, master, loop>>
  BY DEF Received
<1>2. ContextTyped' /\ MasterTyped' /\ LoopTyped'
  BY <1>1, TypeParts DEF ContextTyped, MasterTyped, LoopTyped, context, master, loop
<1>3. HandlerTyped' /\ Serving'
  BY TypeParts DEF HandlerTyped, Received, Rest, Serving, context
<1>4. late = 0 => Prompt'
  BY <1>1, TypeParts DEF Prompt, Received, Rest, Unserved, context, master, HandlerTyped
<1> QED
  BY <1>1, <1>2, <1>3, <1>4, TypePartsAfter, ContextStays, BusStays, LoopStays
     DEF context, master

LEMMA ServeEndKeepsInv == ASSUME Inv, ServeEnd PROVE Inv'
<1> USE DEF Inv, General, InTime
<1>1. UNCHANGED <<context, transfer_in_progress, fifo, master, loop>>
  BY DEF ServeEnd
<1>2. ContextTyped' /\ MasterTyped' /\ LoopTyped'
  BY <1>1, TypeParts DEF ContextTyped, MasterTyped, LoopTyped, context, master, loop
<1>3. HandlerTyped' /\ Serving'
  BY TypeParts DEF HandlerTyped, ServeEnd, Rest, Serving, context
<1>4. late = 0 => Prompt'
  BY <1>1, TypeParts DEF Prompt, ServeEnd, Serving, Rest, Unserved, context, master, HandlerTyped
<1> QED
  BY <1>1, <1>2, <1>3, <1>4, TypePartsAfter, ContextStays, BusStays, LoopStays
     DEF context, master

-----------------------------------------------------------------------------
(* main_i2c_loop *)

(* A step of the loop has to keep only the parts about the loop *)
LEMMA LoopStepInv ==
    ASSUME Inv,
           UNCHANGED <<mem, mem_address, len, skip, mem_address_written, bank,
                       handler, fifo, intr, master>>,
           swapped' \in BOOLEAN, LoopTyped', Banks', Copying', late = 0 => ShownBefore'
    PROVE  Inv'
<1> USE DEF Inv, General, InTime
<1>1. ContextTyped' /\ HandlerTyped' /\ MasterTyped'
  BY ContextStays, TypeParts DEF HandlerTyped, MasterTyped, handler, master
<1>2. Serving'
  BY DEF Serving, handler
<1>3. Prompt' = Prompt
  BY DEF Prompt, Unserved, handler, master
<1> QED
  BY <1>1, <1>2, <1>3, TypePartsAfter, ContextStays, BusStays DEF master

LEMMA CheckKeepsInv == ASSUME Inv, Check PROVE Inv'
<1> USE DEF Inv, General, InTime
<1>1. LoopTyped' /\ swapped' \in BOOLEAN
  BY TypeParts DEF Check, LoopTyped
<1>2. Banks'
  BY ContextStays DEF Check, Banks
<1>3. Copying'
  BY TypeParts DEF Check, Copying, ContextTyped, LoopTyped, Bank
<1>4. late = 0 => ShownBefore'
  BY ContextStays DEF Check, ShownBefore
<1> QED
  BY <1>1, <1>2, <1>3, <1>4, LoopStepInv DEF Check

LEMMA ReadLengthKeepsInv == ASSUME Inv, ReadLength PROVE Inv'
<1> USE DEF Inv, General, InTime
<1>1. LoopTyped' /\ swapped' \in BOOLEAN
  BY TypeParts, BoundsPositive DEF ReadLength, LoopTyped, ContextTyped, context
<1>2. Banks'
  BY ContextStays DEF ReadLength, Banks, context
<1>3. Copying'
  BY TypeParts DEF ReadLength, Copying, CopyOf, ContextTyped, LoopTyped, Bank, context
<1>4. late = 0 => ShownBefore'
  BY ContextStays DEF ReadLength, ShownBefore, context
<1> QED
  BY <1>1, <1>2, <1>3, <1>4, LoopStepInv DEF ReadLength, context

LEMMA CopyKeepsInv == ASSUME Inv, Copy PROVE Inv'
<1> USE DEF Inv, General, InTime
<1>1. Len(scratchpad) \in Place /\ mem[read_bank][Len(scratchpad)] \in FrameId
  BY TypeParts, BoundsPositive DEF Copy, LoopTyped, ContextTyped, Place
<1>2. LoopTyped' /\ swapped' \in BOOLEAN
  BY <1>1, TypeParts, BoundsPositive DEF Copy, LoopTyped, ContextTyped, context, Place
<1>3. Banks'
  BY ContextStays DEF Copy, Banks, context
<1>4. Copying'
  <2>1. ASSUME ~swapped PROVE CopyOf(1 - bank)'
    BY <1>1, <2>1, TypeParts DEF Copy, Copying, CopyOf, LoopTyped, context
  <2> QED
    BY <2>1, TypeParts DEF Copy, Copying, LoopTyped, context
<1>5. late = 0 => ShownBefore'
  BY ContextStays DEF Copy, ShownBefore, context
<1> QED
  BY <1>2, <1>3, <1>4, <1>5, LoopStepInv DEF Copy, context

LEMMA SetBankKeepsInv == ASSUME Inv, SetBank PROVE Inv'
<1> USE DEF Inv, General, InTime
<1>1. LoopTyped' /\ swapped' \in BOOLEAN
  BY TypeParts DEF SetBank, LoopTyped, ContextTyped, context
<1>2. Banks'
  BY ContextStays DEF SetBank, Banks, context
<1>3. Copying'
  BY TypeParts DEF SetBank, Copying, CopyOf, LoopTyped, context
<1>4. late = 0 => ShownBefore'
  BY ContextStays DEF SetBank, ShownBefore, context
<1> QED
  BY <1>1, <1>2, <1>3, <1>4, LoopStepInv DEF SetBank, context

(* An undisturbed copy starts with a byte of the last frame completed *)
LEMMA CopyIsDone ==
    ASSUME Inv, pc = "encode", ~swapped
    PROVE  /\ length > 0 /\ Len(scratchpad) = length
           /\ scratchpad[1] = Done /\ scratchpad[1] \in FrameId
           /\ \A k \in 1 .. Len(scratchpad) : scratchpad[k] = Done
<1> USE DEF Inv, General
<1>1. 1 - bank \in Bank /\ length = len[1 - bank] /\ Len(scratchpad) = length
  BY TypeParts DEF ContextTyped, Bank, Copying, CopyOf
<1>2. length > 0 /\ length <= MaxLen /\ length \in Nat
  BY <1>1, TypeParts, BoundsPositive DEF Banks, LoopTyped
<1>3. \A k \in 1 .. Len(scratchpad) : scratchpad[k] = mem[1 - bank][k - 1]
  BY DEF Copying, CopyOf
<1>4. \A k \in 1 .. Len(scratchpad) : mem[1 - bank][k - 1] = mem[1 - bank][0]
  BY <1>1, <1>2, BoundsPositive DEF Banks, Uniform, Place
<1>5. mem[1 - bank][0] \in FrameId /\ Done = mem[1 - bank][0]
  BY <1>1, <1>2, TypeParts, BoundsPositive DEF ContextTyped, Done
<1> QED
  BY <1>1, <1>2, <1>3, <1>4, <1>5

LEMMA SendFrameKeepsInv == ASSUME Inv, SendFrame PROVE Inv'
<1> USE DEF Inv, General, InTime
<1>1. LoopTyped' /\ swapped' \in BOOLEAN
  BY CopyIsDone, TypeParts DEF SendFrame, Lapped, LoopTyped, ContextTyped, context
<1>2. Banks'
  BY ContextStays, CopyIsDone DEF SendFrame, Banks, context
<1>3. Copying'
  BY DEF SendFrame, Copying
<1>4. late = 0 => ShownBefore'
  <2>1. Done' = Done /\ UNCHANGED <<swapped, read_bank, bank>> /\ pc = "encode" /\ pc' = "check"
    BY ContextStays DEF SendFrame, context
  <2>2. CASE swapped
    BY <2>1, <2>2 DEF SendFrame, Lapped, ShownBefore
  <2>3. CASE ~swapped
    BY <2>1, <2>3, CopyIsDone, BoundsPositive
       DEF SendFrame, Lapped, ShownBefore, Copying, FrameId
  <2> QED
    BY <2>2, <2>3
<1> QED
  BY <1>1, <1>2, <1>3, <1>4, LoopStepInv DEF SendFrame, context

-----------------------------------------------------------------------------
(* The bus master *)

(* A step of the master has to keep only the parts about the bus *)
LEMMA MasterStepInv ==
    ASSUME Inv, UNCHANGED <<context, handler, loop>>,
           MasterTyped', intr \subseteq intr', intr' \subseteq {"start", "stop"},
           Framed', Chained', Continued', Known',
           late' = 0 => late = 0,
           late' = 0 => Prompt' /\ Single' /\ Ended' /\ Completed' /\ Ordered'
    PROVE  Inv'
<1> USE DEF Inv, General, InTime
<1>1. ContextTyped' /\ HandlerTyped' /\ LoopTyped'
  BY ContextStays, LoopStays, TypeParts DEF HandlerTyped, handler, context, ContextTyped
<1>2. Serving' /\ Marked'
  BY ContextStays DEF Serving, handler, context
<1> QED
  BY <1>1, <1>2, TypePartsAfter, LoopStays DEF context

(* Done, and what the context and the FIFO hold, are frames that were sent *)
LEMMA SentBefore ==
    ASSUME Inv
    PROVE  /\ Len(frames) \in Nat /\ Done \in Nat /\ Done <= Len(frames)
           /\ mem[bank][0] \in 0 .. Len(frames) /\ mem[1 - bank][0] \in 0 .. Len(frames)
           /\ \A j \in 1 .. Len(fifo) : fifo[j] \in Byte /\ fifo[j].id \in 0 .. Len(frames)
           /\ fifo # <<>> => Len(fifo) \in 1 .. Len(fifo)
<1> USE DEF Inv, General
<1>1. Len(frames) \in Nat /\ bank \in Bank /\ 1 - bank \in Bank
  BY TypeParts DEF MasterTyped, ContextTyped, Bank
<1>2. \A b \in Bank : mem[b][0] \in FrameId /\ mem[b][0] <= Len(frames)
  BY TypeParts, BoundsPositive DEF ContextTyped, Known
<1>3. \A j \in 1 .. Len(fifo) : fifo[j] \in Byte
  BY TypeParts DEF MasterTyped
<1>4. \A j \in 1 .. Len(fifo) : fifo[j].id \in 0 .. Len(frames)
  BY <1>1, <1>3 DEF Known, Byte, FrameId
<1>5. fifo # <<>> => Len(fifo) \in 1 .. Len(fifo)
  BY TypeParts DEF MasterTyped
<1> QED
  BY <1>1, <1>2, <1>3, <1>4, <1>5 DEF Done, FrameId

LEMMA BeginKeepsInv ==
    ASSUME Inv, NEW id \in FrameId, NEW n \in 1 .. MaxLen, Begin(id, n),
           frames' \in Seq(1 .. MaxLen), Len(frames') <= MaxFrames,
           Len(frames) <= Len(frames'),
           \A k \in 1 .. Len(frames) : frames'[k] = frames[k],
           id # 0 => id = Len(frames') /\ id > Len(frames) /\ n = frames'[id]
    PROVE  Inv'
<1> USE DEF Inv, General, InTime
<1>1. /\ UNCHANGED <<context, handler, fifo, late, loop>>
      /\ bus = Idle /\ bus' = [id |-> id, pos |-> 0, len |-> n, open |-> TRUE]
      /\ intr' = intr \cup {"start"}
  BY DEF Begin, Framed
<1>2. bus.pos = 0 /\ bus.id = 0 /\ bus'.pos = 0 /\ bus'.id = id /\ bus'.len = n /\ bus'.open
  BY <1>1 DEF Idle
<1>3. UNCHANGED <<mem, mem_address, len, bank, skip, mem_address_written, irq>>
  BY <1>1 DEF context, handler
<1>4. MasterTyped'
  <2>1. bus' \in Transaction
    BY <1>1, BoundsPositive DEF Transaction
  <2> QED
    BY <1>1, <2>1, TypeParts DEF MasterTyped
<1>5. intr \subseteq intr' /\ intr' \subseteq {"start", "stop"}
  BY <1>1, TypeParts DEF HandlerTyped
<1>6. Framed'
  BY <1>2 DEF Framed
<1>7. Chained'
  BY <1>1, <1>2 DEF Chained, Follows
<1>8. Continued'
  BY <1>1, <1>2, <1>3 DEF Continued, Continues
<1>9. Known'
  <2>1. \A b \in Bank, k \in Place : mem[b][k] <= Len(frames')
    <3>1. \A b \in Bank, k \in Place : mem[b][k] \in Nat /\ mem[b][k] <= Len(frames)
      BY TypeParts DEF ContextTyped, FrameId, Known
    <3> QED
      BY <3>1, SentBefore
  <2>2. \A j \in 1 .. Len(fifo) : fifo[j].id <= Len(frames')
    BY SentBefore
  <2> QED
    BY <1>1, <1>3, <2>1, <2>2 DEF Known
<1>10. ASSUME late = 0 PROVE Prompt' /\ Single'
  <2>1. Prompt'
    BY <1>1, <1>2, <1>3, <1>10 DEF Prompt, Unserved
  <2>2. Single'
    BY <1>1, <1>2, <1>3, <1>10 DEF Single, Matches
  <2> QED
    BY <2>1, <2>2
<1>11. ASSUME late = 0 PROVE Ended'
  <2>1. CASE fifo # <<>>
    <3> DEFINE last == fifo[Len(fifo)]
    <3>1. last.id # 0 => last.id \in 1 .. Len(frames)
      BY <2>1, SentBefore
    <3>2. last.id # 0 => last.pos + 1 = frames[last.id]
      BY <1>2, <1>11, <2>1 DEF Ended
    <3>3. last.id # 0 => last.pos + 1 = frames'[last.id]
      BY <3>1, <3>2
    <3> QED
      BY <1>1, <2>1, <3>3 DEF Ended
  <2>2. CASE fifo = <<>>
    BY <1>1, <1>2, <1>3, <1>11, <2>2, SentBefore DEF Ended, Completed
  <2> QED
    BY <2>1, <2>2
<1>12. ASSUME late = 0 PROVE Completed'
  BY <1>1, <1>2, <1>3, <1>12, SentBefore DEF Completed
<1>13. ASSUME late = 0 PROVE Ordered'
  <2>1. Done' = Done
    BY <1>3, ContextStays
  <2> QED
    BY <1>1, <1>2, <1>3, <1>13, <2>1, SentBefore DEF Ordered, FrameId
<1> QED
  BY <1>1, <1>4, <1>5, <1>6, <1>7, <1>8, <1>9, <1>10, <1>11, <1>12, <1>13, MasterStepInv

LEMMA StartFrameKeepsInv == ASSUME Inv, StartFrame PROVE Inv'
<1>1. PICK n \in 1 .. MaxLen : frames' = Append(frames, n) /\ Begin(Len(frames) + 1, n)
  BY DEF StartFrame
<1>2. frames \in Seq(1 .. MaxLen) /\ Len(frames) < MaxFrames
  BY TypeParts DEF StartFrame, Inv, General, MasterTyped
<1>3. Len(frames) + 1 \in FrameId
  BY <1>2, BoundsPositive DEF FrameId
<1>4. /\ frames' \in Seq(1 .. MaxLen) /\ Len(frames') = Len(frames) + 1
      /\ \A k \in 1 .. Len(frames) : frames'[k] = frames[k]
      /\ frames'[Len(frames) + 1] = n
  BY <1>1, <1>2
<1> QED
  BY <1>1, <1>2, <1>3, <1>4, BeginKeepsInv, BoundsPositive

LEMMA StartCommandKeepsInv == ASSUME Inv, StartCommand PROVE Inv'
<1>1. PICK n \in 1 .. MaxLen : Begin(0, n)
  BY DEF StartCommand
<1>2. frames \in Seq(1 .. MaxLen) /\ Len(frames) <= MaxFrames /\ frames' = frames
  BY TypeParts DEF StartCommand, Inv, General, MasterTyped
<1>3. 0 \in FrameId
  BY BoundsPositive DEF FrameId
<1> QED
  BY <1>1, <1>2, <1>3, BeginKeepsInv

LEMMA StopKeepsInv == ASSUME Inv, Stop PROVE Inv'
<1> USE DEF Inv, General, InTime
<1>1. /\ UNCHANGED <<context, handler, fifo, frames, late, loop>>
      /\ bus.pos = bus.len /\ bus.open /\ bus' = Idle /\ intr' = intr \cup {"stop"}
  BY DEF Stop
<1>2. /\ bus'.pos = 0 /\ bus'.id = 0 /\ ~bus'.open /\ bus'.len = 0
      /\ bus.pos \in Nat /\ bus.id \in Nat
  BY <1>1, TypeParts DEF Idle, MasterTyped, Transaction, FrameId
<1>3. UNCHANGED <<mem, mem_address, len, bank, skip, mem_address_written, irq>>
  BY <1>1 DEF context, handler
<1>4. MasterTyped'
  <2>1. bus' \in Transaction
    BY <1>1, BoundsPositive DEF Transaction, Idle, FrameId
  <2> QED
    BY <1>1, <2>1, TypeParts DEF MasterTyped
<1>5. intr \subseteq intr' /\ intr' \subseteq {"start", "stop"}
  BY <1>1, TypeParts DEF HandlerTyped
<1>6. Framed'
  BY <1>1, <1>2 DEF Framed
<1>7. Chained'
  BY <1>1, <1>2 DEF Chained, Follows
<1>8. Continued' /\ Known'
  BY <1>1, <1>2, <1>3 DEF Continued, Continues, Known
<1>9. ASSUME late = 0 PROVE Prompt' /\ Single'
  <2>1. Prompt'
    BY <1>1, <1>2, <1>3, <1>9 DEF Prompt, Unserved
  <2>2. Single'
    BY <1>1, <1>2, <1>3, <1>9 DEF Single, Matches
  <2> QED
    BY <2>1, <2>2
<1>10. ASSUME late = 0 PROVE Ended'
  <2>1. CASE bus.pos = 0
    BY <1>1, <1>3, <1>10, <2>1 DEF Ended
  <2>2. CASE bus.pos > 0 /\ fifo # <<>>
    BY <1>1, <1>3, <2>2, SentBefore DEF Ended, Chained, Follows, Framed, Byte, Place
  <2>3. CASE bus.pos > 0 /\ fifo = <<>>
    BY <1>1, <1>3, <1>10, <2>3, TypeParts
       DEF Ended, Single, Matches, Framed, Marked, ContextTyped
  <2> QED
    BY <1>2, <2>1, <2>2, <2>3
<1>11. ASSUME late = 0 PROVE Completed' /\ Ordered'
  <2>1. Done' = Done
    BY <1>3, ContextStays
  <2> QED
    BY <1>1, <1>2, <1>3, <1>11, <2>1 DEF Completed, Ordered
<1> QED
  BY <1>1, <1>4, <1>5, <1>6, <1>7, <1>8, <1>9, <1>10, <1>11, MasterStepInv

LEMMA SendByteKeepsInv == ASSUME Inv, SendByte PROVE Inv'
<1> USE DEF Inv, General, InTime
<1>1. PICK ctl \in BOOLEAN :
          /\ bus.pos = 0 => ctl = (bus.id # 0)
          /\ fifo' = Append(fifo, [pos |-> bus.pos, ctl |-> ctl, id |-> bus.id])
  BY DEF SendByte
<1> DEFINE byte == [pos |-> bus.pos, ctl |-> ctl, id |-> bus.id]
<1>2. /\ UNCHANGED <<context, handler, intr, frames, loop>>
      /\ bus.open /\ bus.pos < bus.len /\ Len(fifo) < MaxFifo
      /\ bus' = [bus EXCEPT !.pos = @ + 1]
      /\ late' = IF Unserved THEN late + 1 ELSE late
      /\ late' <= MaxLate
  BY DEF SendByte
<1>3. UNCHANGED <<mem, mem_address, len, bank, skip, mem_address_written, irq>>
  BY <1>2 DEF context, handler
<1>4. /\ bus \in Transaction /\ bus.pos \in Nat /\ bus.id \in FrameId /\ bus.len \in 0 .. MaxLen
      /\ bus'.pos = bus.pos + 1 /\ bus'.id = bus.id /\ bus'.len = bus.len /\ bus'.open = bus.open
      /\ fifo \in Seq(Byte) /\ Len(fifo) \in Nat
  <2>1. bus \in Transaction /\ fifo \in Seq(Byte)
    BY TypeParts DEF MasterTyped
  <2>2. bus.pos \in Nat /\ bus.id \in FrameId /\ bus.len \in 0 .. MaxLen
    BY <2>1 DEF Transaction
  <2>3. bus'.pos = bus.pos + 1
    BY <1>2, <2>1 DEF Transaction
  <2>4. bus'.id = bus.id /\ bus'.len = bus.len /\ bus'.open = bus.open
    BY <1>2, <2>1 DEF Transaction
  <2> QED
    BY <2>1, <2>2, <2>3, <2>4, SMT
<1>5. byte \in Byte /\ byte.pos = bus.pos /\ byte.id = bus.id /\ byte.ctl = ctl
  BY <1>2, <1>4, BoundsPositive DEF Byte, Place
<1> HIDE DEF byte
<1>6. /\ fifo' \in Seq(Byte) /\ Len(fifo') = Len(fifo) + 1 /\ fifo' # <<>>
      /\ \A j \in 1 .. Len(fifo) : fifo'[j] = fifo[j]
      /\ fifo'[Len(fifo) + 1] = byte
  BY <1>1, <1>4, <1>5 DEF byte
<1>7. fifo # <<>> => Len(fifo) > 0 /\ fifo'[1] = fifo[1]
  BY <1>4, <1>6
<1>8. fifo = <<>> => Len(fifo) = 0 /\ fifo'[1] = byte
  BY <1>6
<1>9. MasterTyped'
  <2>1. bus' \in Transaction
    BY <1>2, <1>4, BoundsPositive DEF Transaction
  <2>2. late' \in 0 .. MaxLate
    BY <1>2, TypeParts, CaptureAssumption DEF MasterTyped
  <2>3. Len(fifo') <= MaxFifo
    BY <1>2, <1>4, <1>6, CaptureAssumption
  <2> QED
    BY <1>2, <1>6, <2>1, <2>2, <2>3, TypeParts DEF MasterTyped
<1>10. intr \subseteq intr' /\ intr' \subseteq {"start", "stop"}
  BY <1>2, TypeParts DEF HandlerTyped
<1>11. Framed'
  BY <1>2, <1>4, BoundsPositive DEF Framed
<1>12. Chained'
  <2>1. ASSUME NEW j \in 1 .. Len(fifo') - 1
        PROVE  Follows(fifo'[j], fifo'[j + 1].pos, fifo'[j + 1].id)
    <3>1. CASE j < Len(fifo)
      BY <1>4, <1>6, <2>1, <3>1 DEF Chained
    <3>2. CASE j = Len(fifo)
      BY <1>4, <1>5, <1>6, <2>1, <3>2 DEF Chained
    <3> QED
      BY <1>4, <1>6, <3>1, <3>2
  <2>2. Follows(fifo'[Len(fifo')], bus'.pos, bus'.id)
    BY <1>4, <1>5, <1>6 DEF Follows
  <2>3. ASSUME NEW j \in 1 .. Len(fifo'), fifo'[j].pos = 0
        PROVE  fifo'[j].ctl <=> fifo'[j].id # 0
    <3>1. CASE j <= Len(fifo)
      BY <1>4, <1>6, <2>3, <3>1 DEF Chained
    <3>2. CASE j = Len(fifo) + 1
      BY <1>1, <1>5, <1>6, <2>3, <3>2
    <3> QED
      BY <1>4, <1>6, <3>1, <3>2
  <2>4. Chained' <=> /\ \A j \in 1 .. Len(fifo') - 1 :
                            Follows(fifo'[j], fifo'[j + 1].pos, fifo'[j + 1].id)
                     /\ fifo' # <<>> => Follows(fifo'[Len(fifo')], bus'.pos, bus'.id)
                     /\ \A j \in 1 .. Len(fifo') :
                            fifo'[j].pos = 0 => (fifo'[j].ctl <=> fifo'[j].id # 0)
    BY DEF Chained, Follows
  <2> QED
    BY <2>1, <2>2, <2>3, <2>4
<1>13. Continued'
  BY <1>3, <1>5, <1>6, <1>7, <1>8 DEF Continued, Continues
<1>14. Known'
  <2>1. bus.id <= Len(frames)
    BY <1>4, TypeParts DEF Framed, FrameId, MasterTyped
  <2>2. \A j \in 1 .. Len(fifo') : fifo'[j].id <= Len(frames)
    BY <1>4, <1>5, <1>6, <2>1 DEF Known
  <2> QED
    BY <1>2, <1>3, <2>2 DEF Known
<1>15. late' = 0 => late = 0 /\ ~Unserved
  BY <1>2, TypeParts DEF MasterTyped
<1>16. ASSUME late' = 0 PROVE Prompt'
  BY <1>2, <1>3, <1>4, <1>6, <1>15, <1>16, TypeParts DEF Prompt, Unserved, Serving, HandlerTyped
<1>17. ASSUME late' = 0 PROVE Single'
  <2>1. \A j \in 2 .. Len(fifo') : fifo'[j].pos # 0
    <3>1. fifo # <<>> => byte.pos # 0
      BY <1>5, <1>15, <1>17 DEF Prompt
    <3>2. \A j \in 2 .. Len(fifo) : fifo'[j].pos # 0
      BY <1>4, <1>6, <1>15, <1>17 DEF Single
    <3> QED
      BY <1>4, <1>6, <1>8, <3>1, <3>2
  <2>2. fifo'[1].pos = 0 <=> ~mem_address_written
    BY <1>4, <1>5, <1>7, <1>8, <1>15, <1>17 DEF Single, Prompt
  <2>3. mem_address_written => Matches(fifo'[1].pos, fifo'[1].id)
    <3>1. CASE fifo # <<>>
      BY <1>7, <1>15, <1>17, <3>1 DEF Single
    <3>2. CASE fifo = <<>>
      BY <1>4, <1>5, <1>8, <1>15, <1>17, <3>2 DEF Single, Prompt
    <3> QED
      BY <3>1, <3>2
  <2> QED
    BY <1>3, <1>6, <2>1, <2>2, <2>3 DEF Single, Matches
<1>18. ASSUME late' = 0 PROVE Ended' /\ Completed'
  BY <1>2, <1>3, <1>4, <1>15, <1>18 DEF Ended, Completed
<1>19. ASSUME late' = 0 PROVE Ordered'
  <2>1. Done' = Done
    BY <1>3, ContextStays
  <2>2. \A j \in 1 .. Len(fifo') : fifo'[j].id # 0 => Done < fifo'[j].id
    BY <1>4, <1>5, <1>6, <1>15, <1>19 DEF Ordered
  <2> QED
    BY <1>3, <1>4, <1>15, <1>19, <2>1, <2>2 DEF Ordered
<1> QED
  BY <1>2, <1>9, <1>10, <1>11, <1>12, <1>13, <1>14, <1>15, <1>16, <1>17, <1>18, <1>19,
     MasterStepInv

-----------------------------------------------------------------------------
(* i2c_slave_handler *)

(* What the end of a transfer does: there is nothing left to skip or store, *)
(* and the banks are swapped if there was a frame.                          *)
LEMMA FinishedEffect ==
    ASSUME Inv, Finished
    PROVE  /\ irq = "finish" /\ fifo = <<>> /\ irq' = Rest(intr_stat)
           /\ UNCHANGED <<mem, intr_stat, fifo, intr, master, loop>>
           /\ mem_address' = 0 /\ ~mem_address_written' /\ skip' = FALSE
           /\ mem_address_written' = FALSE /\ transfer_in_progress' = FALSE
           /\ \/ /\ mem_address > 0
                 /\ len' = [len EXCEPT ![bank] = mem_address, ![1 - bank] = 0]
                 /\ bank' = 1 - bank /\ swapped' = TRUE
              \/ mem_address = 0 /\ UNCHANGED <<len, bank, swapped>>
<1> USE DEF Inv, General
<1>1. /\ irq = "finish" /\ fifo = <<>> /\ irq' = Rest(intr_stat)
      /\ UNCHANGED <<mem, intr_stat, fifo, intr, master, loop>>
      /\ Swap(mem_address_written)
      /\ mem_address' = AddressAfter(mem_address_written)
      /\ mem_address_written' = FALSE /\ skip' = (skip /\ ~mem_address_written)
      /\ transfer_in_progress' = FALSE
  BY DEF Finished
<1>2. /\ mem_address \in Nat /\ skip \in BOOLEAN /\ mem_address_written \in BOOLEAN
      /\ swapped \in BOOLEAN
  BY TypeParts, BoundsPositive DEF ContextTyped
<1>3. skip' = FALSE
  BY <1>1, <1>2 DEF Marked
<1>4. CASE mem_address > 0
  <2>1. Completes(mem_address_written)
    BY <1>2, <1>4 DEF Completes, Marked
  <2> QED
    BY <1>1, <1>3, <1>4, <2>1 DEF Swap, BankAfter, AddressAfter
<1>5. CASE mem_address = 0
  <2>1. ~Completes(mem_address_written)
    BY <1>2, <1>5 DEF Completes, Marked
  <2> QED
    BY <1>1, <1>2, <1>3, <1>5, <2>1 DEF Swap, BankAfter, AddressAfter
<1>6. mem_address > 0 \/ mem_address = 0
  BY <1>2
<1> QED
  BY <1>4, <1>5, <1>6, Zenon

(* What a swap makes of the banks *)
LEMMA SwapBanks ==
    ASSUME Inv, len' = [len EXCEPT ![bank] = mem_address, ![1 - bank] = 0],
           bank' = 1 - bank
    PROVE  /\ bank \in Bank /\ bank' \in Bank /\ 1 - bank' = bank /\ bank # 1 - bank
           /\ len'[bank'] = 0 /\ len'[bank] = mem_address
           /\ len' \in [Bank -> 0 .. MaxLen]
<1>1. bank \in Bank /\ len \in [Bank -> 0 .. MaxLen] /\ mem_address \in 0 .. MaxLen
  BY TypeParts DEF Inv, General, ContextTyped
<1>2. 1 - bank \in Bank /\ 1 - (1 - bank) = bank /\ bank # 1 - bank
  BY <1>1 DEF Bank
<1> QED
  BY <1>1, <1>2, BoundsPositive

LEMMA FinishedKeepsInv == ASSUME Inv, Finished PROVE Inv'
<1> USE DEF Inv, General, InTime
<1>1. /\ irq = "finish" /\ fifo = <<>> /\ fifo' = <<>>
      /\ UNCHANGED <<mem, intr_stat, intr, bus, frames, late, loop>>
      /\ mem_address' = 0 /\ skip' = FALSE
      /\ mem_address_written' = FALSE /\ transfer_in_progress' = FALSE
      /\ irq' \in {"none", "end"} /\ (irq' = "end" => intr_stat # {})
  BY FinishedEffect DEF Rest, master
<1>2. \/ /\ mem_address > 0
         /\ len' = [len EXCEPT ![bank] = mem_address, ![1 - bank] = 0]
         /\ bank' = 1 - bank /\ swapped' = TRUE
      \/ mem_address = 0 /\ UNCHANGED <<len, bank, swapped>>
  BY FinishedEffect
<1>3. mem_address \in Nat /\ bank \in Bank
  BY TypeParts, BoundsPositive DEF ContextTyped
<1>4. ContextTyped'
  <2>1. mem' \in [Bank -> [Place -> FrameId]]
    BY <1>1, TypeParts DEF ContextTyped
  <2>3. mem_address' \in 0 .. MaxLen
    BY <1>1, BoundsPositive
  <2>4. skip' \in BOOLEAN /\ mem_address_written' \in BOOLEAN
    BY <1>1, Zenon
  <2>2. len' \in [Bank -> 0 .. MaxLen] /\ bank' \in Bank /\ swapped' \in BOOLEAN
    BY <1>2, SwapBanks, TypeParts DEF ContextTyped
  <2> QED
    BY <2>1, <2>2, <2>3, <2>4 DEF ContextTyped
<1>5. HandlerTyped' /\ MasterTyped' /\ LoopTyped'
  BY <1>1, TypeParts DEF HandlerTyped, MasterTyped, LoopTyped, loop
<1>6. Marked' /\ Serving' /\ Continued'
  BY <1>1 DEF Marked, Serving, Continued
<1>7. Framed' /\ Chained' /\ Known'
  BY <1>1 DEF Framed, Chained, Follows, Known
<1>8. Banks'
  <2>1. Uniform(bank, 0)' /\ Uniform(1 - bank, 0)'
    BY DEF Uniform, Place
  <2>2. CASE mem_address > 0
    <3>1. Uniform(bank, mem_address) /\ mem' = mem
      BY <1>1 DEF Banks
    <3> QED
      BY <1>1, <1>2, <1>3, <2>2, <3>1, SwapBanks DEF Banks, Uniform, Place
  <2>3. CASE mem_address = 0
    BY <1>1, <1>2, <2>3 DEF Banks, Uniform, loop
  <2> QED
    BY <1>3, <2>2, <2>3
<1>9. Copying'
  <2>1. CASE mem_address > 0
    BY <1>1, <1>2, <2>1 DEF Copying, loop
  <2>2. CASE mem_address = 0
    BY <1>1, <1>2, <2>2 DEF Copying, CopyOf, loop
  <2> QED
    BY <1>3, <2>1, <2>2
<1>10. ASSUME late = 0
       PROVE  bus.pos = 0 /\ Prompt' /\ Single' /\ Ended'
  <2>1. bus.pos = 0
    BY <1>1, <1>10, TypeParts DEF Prompt, Unserved, MasterTyped, Transaction
  <2>2. Prompt'
    BY <1>1, <2>1 DEF Prompt
  <2>3. Single'
    BY <1>1, <2>1 DEF Single
  <2>4. Ended'
    BY <1>1, <2>1 DEF Ended
  <2> QED
    BY <2>1, <2>2, <2>3, <2>4
<1>11. ASSUME late = 0
       PROVE  Completed' /\ Ordered' /\ ShownBefore'
  <2>1. CASE mem_address > 0
    <3>1. /\ len'[1 - bank'] = mem_address /\ mem'[1 - bank'] = mem[bank]
          /\ bus.pos = 0
      BY <1>1, <1>2, <1>10, <1>11, <2>1, SwapBanks
    <3>2. Done' = mem[bank][0] /\ Done < mem[bank][0] /\ Done \in Nat /\ mem[bank][0] \in Nat
      BY <1>11, <2>1, <3>1, SentBefore DEF Done, Ordered
    <3>3. Completed'
      BY <1>1, <1>11, <2>1, <3>1 DEF Completed, Ended
    <3>4. Ordered'
      BY <1>1, <1>11, <2>1, <3>1, <3>2 DEF Ordered
    <3>5. ShownBefore'
      <4>1. shown \in Nat
        BY TypeParts, BoundsPositive DEF LoopTyped, FrameId
      <4> QED
        BY <1>1, <1>11, <3>2, <4>1 DEF ShownBefore, loop
    <3> QED
      BY <3>3, <3>4, <3>5
  <2>2. CASE mem_address = 0
    <3>1. Done' = Done
      BY <1>1, <1>2, <2>2 DEF Done
    <3> QED
      BY <1>1, <1>2, <1>11, <2>2, <3>1 DEF Completed, Ordered, ShownBefore, loop
  <2> QED
    BY <1>3, <2>1, <2>2
<1> QED
  BY <1>1, <1>4, <1>5, <1>6, <1>7, <1>8, <1>9, <1>10, <1>11, TypePartsAfter

(* What one byte does: it ends the frame before it and starts one, or a     *)
(* transaction to skip; it is skipped; or it is stored.                     *)
EndAndStore(byte) ==
    /\ mem_address > 0 /\ byte.pos = 0
    /\ len' = [len EXCEPT ![bank] = mem_address, ![1 - bank] = 0]
    /\ bank' = 1 - bank /\ swapped' = TRUE /\ skip' = FALSE
    /\ mem' = [mem EXCEPT ![1 - bank][0] = byte.id] /\ mem_address' = 1

EndAndSkip(byte) ==
    /\ mem_address > 0 /\ byte.pos = 0
    /\ len' = [len EXCEPT ![bank] = mem_address, ![1 - bank] = 0]
    /\ bank' = 1 - bank /\ swapped' = TRUE /\ skip' = TRUE
    /\ mem' = mem /\ mem_address' = 0

SkipByte(byte) ==
    /\ mem_address = 0 /\ (skip \/ ~byte.ctl)
    /\ UNCHANGED <<len, bank, swapped, mem, mem_address>> /\ skip' = TRUE

StoreByte(byte) ==
    /\ ~skip /\ (mem_address = 0 => byte.ctl) /\ (mem_address > 0 => byte.pos > 0)
    /\ UNCHANGED <<len, bank, swapped>> /\ skip' = FALSE
    /\ mem' = [mem EXCEPT ![bank][mem_address] = byte.id] /\ mem_address' = mem_address + 1

LEMMA TakeByteEffect ==
    ASSUME Inv, TakeByte
    PROVE  /\ irq \in {"receive", "finish"} /\ fifo # <<>> /\ fifo[1] \in Byte
           /\ fifo' = Tail(fifo) /\ mem_address_written' = TRUE
           /\ UNCHANGED <<handler, intr, master, loop>>
           /\ \/ EndAndStore(fifo[1]) \/ EndAndSkip(fifo[1])
              \/ SkipByte(fifo[1]) \/ StoreByte(fifo[1])
<1> USE DEF Inv, General
<1> DEFINE byte == fifo[1]
<1>1. /\ irq \in {"receive", "finish"} /\ fifo # <<>> /\ fifo' = Tail(fifo)
      /\ mem_address_written' = TRUE /\ UNCHANGED <<handler, intr, master, loop>>
  BY DEF TakeByte
<1>2. byte \in Byte /\ byte.pos \in Nat
  <2>1. byte \in Byte
    BY <1>1, TypeParts DEF MasterTyped
  <2> QED
    BY <2>1, BoundsPositive DEF Byte, Place
<1>3. Head(fifo) = byte
  BY <1>1, TypeParts DEF MasterTyped
<1>4. /\ mem_address \in Nat /\ skip \in BOOLEAN /\ swapped \in BOOLEAN
  BY TypeParts, BoundsPositive DEF ContextTyped
<1> SUFFICES EndAndStore(byte) \/ EndAndSkip(byte) \/ SkipByte(byte) \/ StoreByte(byte)
  BY <1>1, <1>2
<1> HIDE DEF byte
<1>5. /\ Swap(EndsFrame(byte)) /\ skip' = Skips(byte)
      /\ \/ Skips(byte) /\ mem_address' = AddressAfter(EndsFrame(byte)) /\ mem' = mem
         \/ ~Skips(byte) /\ Store(AddressAfter(EndsFrame(byte)), BankAfter(EndsFrame(byte)), byte.id)
  BY <1>3 DEF TakeByte
<1>6. EndsFrame(byte) \in BOOLEAN /\ Skips(byte) \in BOOLEAN
  BY DEF EndsFrame, Skips
<1>9. /\ Skips(byte) => /\ skip' = TRUE /\ mem' = mem
                        /\ mem_address' = AddressAfter(EndsFrame(byte))
      /\ ~Skips(byte) => /\ skip' = FALSE
                         /\ Store(AddressAfter(EndsFrame(byte)), BankAfter(EndsFrame(byte)), byte.id)
  <2>1. skip' = Skips(byte)
    BY <1>5
  <2>2. Skips(byte) => skip' = TRUE
    BY <1>6, <2>1, Zenon
  <2>3. ~Skips(byte) => skip' = FALSE
    BY <1>6, <2>1, Zenon
  <2> QED
    BY <1>5, <2>2, <2>3
<1>7. CASE EndsFrame(byte)
  <2>1. mem_address > 0 /\ byte.pos = 0 /\ ~skip
    BY <1>4, <1>7 DEF EndsFrame, Marked
  <2>2. Completes(EndsFrame(byte))
    BY <1>7, <2>1 DEF Completes
  <2>3. AddressAfter(EndsFrame(byte)) = 0 /\ BankAfter(EndsFrame(byte)) = 1 - bank
    BY <2>2 DEF AddressAfter, BankAfter
  <2>4. /\ len' = [len EXCEPT ![bank] = mem_address, ![1 - bank] = 0]
        /\ bank' = 1 - bank /\ swapped' = TRUE
    BY <1>5, <2>2, <2>3 DEF Swap
  <2>5. Skips(byte) <=> ~byte.ctl
    BY <1>7, <2>3 DEF Skips
  <2>6. CASE Skips(byte)
    BY <1>9, <2>1, <2>3, <2>4, <2>6 DEF EndAndSkip
  <2>7. CASE ~Skips(byte)
    BY <1>9, <2>1, <2>3, <2>4, <2>7 DEF EndAndStore, Store
  <2> QED
    BY <2>6, <2>7
<1>8. CASE ~EndsFrame(byte)
  <2>1. mem_address > 0 => byte.pos > 0
    BY <1>2, <1>4, <1>8 DEF EndsFrame
  <2>2. ~Completes(EndsFrame(byte))
    BY <1>8 DEF Completes
  <2>3. AddressAfter(EndsFrame(byte)) = mem_address /\ BankAfter(EndsFrame(byte)) = bank
    BY <2>2 DEF AddressAfter, BankAfter
  <2>4. UNCHANGED <<len, bank, swapped>>
    BY <1>4, <1>5, <2>2, <2>3 DEF Swap
  <2>5. Skips(byte) <=> skip \/ (mem_address = 0 /\ ~byte.ctl)
    BY <1>8, <2>3 DEF Skips
  <2>6. CASE Skips(byte)
    <3>1. mem_address = 0
      BY <2>5, <2>6 DEF Marked
    <3> QED
      BY <1>9, <2>3, <2>4, <2>5, <2>6, <3>1 DEF SkipByte
  <2>7. CASE ~Skips(byte)
    BY <1>9, <2>1, <2>3, <2>4, <2>5, <2>7 DEF StoreByte, Store
  <2> QED
    BY <2>6, <2>7
<1> QED
  BY <1>7, <1>8

(* The FIFO without its first byte *)
LEMMA FifoTail ==
    ASSUME Inv, fifo # <<>>, fifo' = Tail(fifo)
    PROVE  /\ fifo' \in Seq(Byte) /\ Len(fifo') = Len(fifo) - 1
           /\ Len(fifo) \in Nat \ {0} /\ Len(fifo) <= MaxFifo
           /\ \A j \in 1 .. Len(fifo') : fifo'[j] = fifo[j + 1]
           /\ fifo' # <<>> => Len(fifo') > 0 /\ fifo'[1] = fifo[2] /\ fifo'[Len(fifo')] = fifo[Len(fifo)]
           /\ fifo' = <<>> => Len(fifo) = 1
<1>1. fifo \in Seq(Byte) /\ Len(fifo) <= MaxFifo
  BY TypeParts DEF Inv, General, MasterTyped
<1>2. /\ fifo' \in Seq(Byte) /\ Len(fifo') = Len(fifo) - 1 /\ Len(fifo) \in Nat \ {0}
      /\ \A j \in 1 .. Len(fifo') : fifo'[j] = fifo[j + 1]
  <2>1. Len(fifo) \in Nat \ {0}
    BY <1>1
  <2>2. fifo' \in Seq(Byte) /\ Len(fifo') = Len(fifo) - 1
    BY <1>1, <2>1
  <2>3. \A j \in 1 .. Len(fifo') : fifo'[j] = fifo[j + 1]
    BY <1>1, <2>1
  <2> QED
    BY <2>1, <2>2, <2>3
<1>3. fifo' # <<>> => Len(fifo') > 0
  BY <1>2
<1>4. fifo' = <<>> => Len(fifo) = 1
  <2>1. fifo' = <<>> => Len(fifo') = 0
    OBVIOUS
  <2> QED
    BY <1>2, <2>1
<1> QED
  BY <1>1, <1>2, <1>3, <1>4

(* What comes after the first byte of the FIFO follows it *)
LEMMA NextFollows ==
    ASSUME Inv, fifo # <<>>, fifo' = Tail(fifo)
    PROVE  /\ fifo' # <<>> => Follows(fifo[1], fifo'[1].pos, fifo'[1].id)
           /\ fifo' = <<>> => Follows(fifo[1], bus.pos, bus.id)
<1>1. fifo' # <<>> => 1 \in 1 .. Len(fifo) - 1
  BY FifoTail
<1> QED
  BY <1>1, FifoTail DEF Inv, General, Chained

(* A byte that is stored stays inside its bank, and is of the frame there *)
LEMMA StoreInBounds ==
    ASSUME Inv, fifo # <<>>, StoreByte(fifo[1])
    PROVE  /\ mem_address \in Place /\ fifo[1] \in Byte /\ mem_address <= fifo[1].pos + 1
           /\ mem_address' \in 1 .. MaxLen /\ mem_address' <= fifo[1].pos + 1
           /\ mem_address > 0 => fifo[1].id = mem[bank][0]
<1> USE DEF Inv, General
<1>1. fifo[1] \in Byte
  BY TypeParts DEF MasterTyped
<1>2. fifo[1].pos \in 0 .. MaxLen - 1 /\ mem_address \in Nat /\ MaxLen \in Nat \ {0}
  BY <1>1, TypeParts, BoundsPositive DEF Byte, Place, ContextTyped
<1>3. mem_address > 0 => mem_address <= fifo[1].pos /\ fifo[1].id = mem[bank][0]
  BY <1>2 DEF StoreByte, Continued, Continues
<1> QED
  BY <1>1, <1>2, <1>3 DEF Place, StoreByte

LEMMA TakeByteKeepsContextTyped == ASSUME Inv, TakeByte PROVE ContextTyped'
<1> DEFINE byte == fifo[1]
<1>1. /\ byte \in Byte /\ fifo # <<>> /\ mem_address_written' = TRUE
      /\ \/ EndAndStore(byte) \/ EndAndSkip(byte) \/ SkipByte(byte) \/ StoreByte(byte)
  BY TakeByteEffect
<1>2. byte.id \in FrameId /\ byte.pos \in Place
  BY <1>1 DEF Byte
<1>3. ContextTyped
  BY TypeParts DEF Inv, General
<1>4. StoreByte(byte) => mem_address \in Place /\ mem_address' \in 0 .. MaxLen
  BY <1>1, StoreInBounds, BoundsPositive
<1> HIDE DEF byte
<1>5. bank \in Bank /\ 1 - bank \in Bank /\ mem \in [Bank -> [Place -> FrameId]]
  BY <1>3 DEF ContextTyped, Bank
<1>6. mem' \in [Bank -> [Place -> FrameId]]
  BY <1>1, <1>2, <1>4, <1>5, BoundsPositive DEF EndAndStore, EndAndSkip, SkipByte, StoreByte
<1>7. mem_address' \in 0 .. MaxLen
  BY <1>1, <1>3, <1>4, BoundsPositive
     DEF EndAndStore, EndAndSkip, SkipByte, ContextTyped
<1>8. len' \in [Bank -> 0 .. MaxLen] /\ bank' \in Bank
  BY <1>1, <1>3, SwapBanks DEF EndAndStore, EndAndSkip, SkipByte, StoreByte, ContextTyped
<1>9. swapped' \in BOOLEAN /\ skip' \in BOOLEAN /\ mem_address_written' \in BOOLEAN
  BY <1>1, <1>3, Zenon DEF EndAndStore, EndAndSkip, SkipByte, StoreByte, ContextTyped
<1> QED
  BY <1>6, <1>7, <1>8, <1>9 DEF ContextTyped

(* What the bank holds after a byte is of the byte's frame *)
LEMMA TakeByteStores ==
    ASSUME Inv, TakeByte
    PROVE  /\ mem_address' > 0 => /\ mem'[bank'][0] = fifo[1].id
                                  /\ mem_address' <= fifo[1].pos + 1
           /\ Uniform(bank, mem_address)'
<1> DEFINE byte == fifo[1]
<1>1. /\ byte \in Byte /\ fifo # <<>>
      /\ \/ EndAndStore(byte) \/ EndAndSkip(byte) \/ SkipByte(byte) \/ StoreByte(byte)
  BY TakeByteEffect
<1>2. byte.pos \in Nat /\ 0 \in Place /\ Place \subseteq Nat
  BY <1>1, BoundsPositive DEF Byte, Place
<1>3. /\ bank \in Bank /\ 1 - bank \in Bank /\ mem \in [Bank -> [Place -> FrameId]]
      /\ mem_address \in Nat
  BY TypeParts, BoundsPositive DEF Inv, General, ContextTyped, Bank
<1>4. Uniform(bank, mem_address)
  BY DEF Inv, General, Banks
<1>5. StoreByte(byte) => /\ mem_address \in Place /\ mem_address' <= byte.pos + 1
                         /\ mem_address > 0 => byte.id = mem[bank][0]
  BY <1>1, StoreInBounds
<1> HIDE DEF byte
<1>6. CASE EndAndStore(byte)
  BY <1>2, <1>3, <1>6 DEF EndAndStore, Uniform, byte
<1>7. CASE EndAndSkip(byte) \/ SkipByte(byte)
  <2>1. mem_address' = 0
    BY <1>7 DEF EndAndSkip, SkipByte
  <2>2. \A k \in Place : ~(k < 0)
    BY BoundsPositive DEF Place
  <2> QED
    BY <2>1, <2>2 DEF Uniform
<1>8. CASE StoreByte(byte)
  <2>1. mem'[bank'][0] = byte.id
    BY <1>2, <1>3, <1>5, <1>8 DEF StoreByte
  <2>2. ASSUME NEW k \in Place, k < mem_address' PROVE mem'[bank'][k] = byte.id
    <3>1. CASE k = mem_address
      BY <1>3, <1>8, <3>1 DEF StoreByte
    <3>2. CASE k < mem_address
      BY <1>2, <1>3, <1>4, <1>5, <1>8, <3>2 DEF StoreByte, Uniform
    <3> QED
      BY <1>2, <1>3, <1>8, <2>2, <3>1, <3>2 DEF StoreByte
  <2> QED
    BY <1>5, <1>8, <2>1, <2>2 DEF Uniform, byte
<1> QED
  BY <1>1, <1>6, <1>7, <1>8

LEMMA TakeByteKeepsBanks == ASSUME Inv, TakeByte PROVE Banks' /\ Copying'
<1> DEFINE byte == fifo[1]
<1>1. /\ byte \in Byte /\ UNCHANGED loop
      /\ \/ EndAndStore(byte) \/ EndAndSkip(byte) \/ SkipByte(byte) \/ StoreByte(byte)
  BY TakeByteEffect
<1>2. /\ bank \in Bank /\ 1 - bank \in Bank /\ bank # 1 - bank /\ 1 - (1 - bank) = bank
      /\ mem \in [Bank -> [Place -> FrameId]] /\ mem_address \in Nat
      /\ len \in [Bank -> 0 .. MaxLen]
  BY TypeParts, BoundsPositive DEF Inv, General, ContextTyped, Bank
<1>3. Banks /\ Copying
  BY DEF Inv, General
<1>4. Uniform(bank, mem_address)'
  BY TakeByteStores
<1> HIDE DEF byte
<1>5. CASE EndAndStore(byte) \/ EndAndSkip(byte)
  <2>1. /\ 1 - bank' = bank /\ len'[bank'] = 0 /\ len'[1 - bank'] = mem_address
        /\ mem_address > 0 /\ mem'[1 - bank'] = mem[bank] /\ swapped' = TRUE
    BY <1>2, <1>5, SwapBanks DEF EndAndStore, EndAndSkip
  <2>2. Uniform(1 - bank, len[1 - bank])'
    BY <1>3, <2>1 DEF Uniform, Banks
  <2>3. Banks'
    BY <1>2, <1>4, <2>1, <2>2 DEF Banks
  <2> QED
    BY <1>1, <1>3, <2>1, <2>3 DEF Copying, loop
<1>6. CASE SkipByte(byte) \/ StoreByte(byte)
  <2>1. /\ UNCHANGED <<len, bank, swapped>> /\ mem'[1 - bank] = mem[1 - bank]
    BY <1>2, <1>6 DEF SkipByte, StoreByte
  <2>2. Uniform(1 - bank, len[1 - bank])'
    BY <1>3, <2>1 DEF Uniform, Banks
  <2>3. Banks'
    BY <1>1, <1>3, <1>4, <2>1, <2>2 DEF Banks, loop
  <2>4. CopyOf(1 - bank)' = CopyOf(1 - bank)
    BY <1>1, <2>1 DEF CopyOf, loop
  <2> QED
    BY <1>1, <1>3, <2>1, <2>3, <2>4 DEF Copying, loop
<1> QED
  BY <1>1, <1>5, <1>6

(* While interrupts come in time, a byte is stored if it is of a frame, and *)
(* never ends one.                                                          *)
LEMMA TakeByteInTime ==
    ASSUME Inv, TakeByte, late = 0
    PROVE  /\ irq = "receive" /\ UNCHANGED <<len, bank, swapped>>
           /\ mem' [1 - bank] = mem[1 - bank]
           /\ skip' <=> fifo[1].id = 0
           /\ fifo[1].id = 0 => mem_address' = 0
           /\ fifo[1].id # 0 => /\ mem_address' = fifo[1].pos + 1
                                /\ mem'[bank][0] = fifo[1].id
<1> DEFINE byte == fifo[1]
<1>1. /\ byte \in Byte /\ fifo # <<>> /\ irq \in {"receive", "finish"}
      /\ \/ EndAndStore(byte) \/ EndAndSkip(byte) \/ SkipByte(byte) \/ StoreByte(byte)
  BY TakeByteEffect
<1>2. /\ byte.pos \in Nat /\ 1 \in 1 .. Len(fifo)
      /\ bank \in Bank /\ 1 - bank \in Bank /\ bank # 1 - bank
      /\ mem \in [Bank -> [Place -> FrameId]] /\ mem_address \in Nat
      /\ skip \in BOOLEAN /\ mem_address_written \in BOOLEAN
  BY <1>1, TypeParts, BoundsPositive
     DEF Inv, General, ContextTyped, MasterTyped, Bank, Byte, Place
<1>3. irq = "receive"
  BY <1>1 DEF Inv, InTime, Prompt
<1>4. byte.pos = 0 <=> ~mem_address_written
  BY <1>1 DEF Inv, InTime, Single
<1>5. mem_address_written => Matches(byte.pos, byte.id)
  BY <1>1 DEF Inv, InTime, Single
<1>6. byte.pos = 0 => (byte.ctl <=> byte.id # 0)
  BY <1>1, <1>2 DEF Inv, General, Chained
<1>7. (mem_address_written <=> skip \/ mem_address > 0) /\ (skip => mem_address = 0)
  BY DEF Inv, General, Marked
<1>8. ~EndAndStore(byte) /\ ~EndAndSkip(byte)
  BY <1>4, <1>7 DEF EndAndStore, EndAndSkip
<1> HIDE DEF byte
<1>9. CASE SkipByte(byte)
  <2>1. byte.id = 0
    BY <1>2, <1>4, <1>5, <1>6, <1>7, <1>9 DEF SkipByte, Matches
  <2> QED
    BY <1>2, <1>3, <1>9, <2>1 DEF SkipByte, byte
<1>10. CASE StoreByte(byte)
  <2>1. byte.id # 0 /\ mem_address = byte.pos
    BY <1>2, <1>4, <1>5, <1>6, <1>7, <1>10 DEF StoreByte, Matches
  <2>2. UNCHANGED <<len, bank, swapped>> /\ mem'[1 - bank] = mem[1 - bank] /\ ~skip'
    BY <1>2, <1>10 DEF StoreByte
  <2>3. mem_address' = byte.pos + 1
    BY <1>10, <2>1 DEF StoreByte
  <2>4. mem'[bank][0] = byte.id
    BY <1>2, <2>2, <2>3, TakeByteStores DEF byte
  <2> QED
    BY <1>3, <2>1, <2>2, <2>3, <2>4 DEF byte
<1> QED
  BY <1>1, <1>8, <1>9, <1>10

LEMMA TakeByteKeepsInTime == ASSUME Inv, TakeByte, late = 0 PROVE InTime'
<1> DEFINE byte == fifo[1]
<1>1. /\ fifo # <<>> /\ byte \in Byte /\ fifo' = Tail(fifo) /\ mem_address_written' = TRUE
      /\ UNCHANGED <<irq, intr, bus, frames, loop>>
  BY TakeByteEffect DEF handler, master
<1>2. /\ irq = "receive" /\ UNCHANGED <<len, bank, swapped>> /\ mem'[1 - bank] = mem[1 - bank]
      /\ skip' <=> byte.id = 0
      /\ byte.id = 0 => mem_address' = 0
      /\ byte.id # 0 => mem_address' = byte.pos + 1 /\ mem'[bank][0] = byte.id
  BY TakeByteInTime
<1>3. byte.pos \in Nat /\ byte.id \in Nat /\ 1 \in 1 .. Len(fifo)
  <2>1. byte.pos \in Nat /\ byte.id \in Nat
    BY <1>1, BoundsPositive DEF Byte, Place, FrameId
  <2>2. 1 \in 1 .. Len(fifo)
    BY <1>1, FifoTail
  <2> QED
    BY <2>1, <2>2
<1>4. /\ fifo' # <<>> => Follows(byte, fifo'[1].pos, fifo'[1].id)
      /\ fifo' = <<>> => Follows(byte, bus.pos, bus.id)
  BY <1>1, NextFollows
<1>5. Done' = Done
  BY <1>2 DEF Done
<1>6. mem_address' > 0 <=> byte.id # 0
  BY <1>2, <1>3
<1> HIDE DEF byte
<1>7. Prompt'
  BY <1>1, <1>2 DEF Inv, InTime, Prompt, Unserved
<1>8. Single'
  <2>1. \A j \in 1 .. Len(fifo') : fifo'[j].pos # 0
    <3>1. \A j \in 2 .. Len(fifo) : fifo[j].pos # 0
      BY DEF Inv, InTime, Single
    <3> QED
      BY <1>1, <3>1, FifoTail
  <2>2. fifo' # <<>> => fifo'[1].pos # 0 /\ Matches(fifo[1].pos, fifo[1].id)'
    <3>1. fifo' # <<>> => 1 \in 1 .. Len(fifo')
      BY <1>1, FifoTail
    <3>2. fifo' # <<>> => fifo'[1].pos # 0
      BY <2>1, <3>1
    <3>3. fifo' # <<>> => fifo'[1].pos = byte.pos + 1 /\ fifo'[1].id = byte.id
      BY <1>4, <3>2 DEF Follows
    <3> QED
      BY <1>2, <3>2, <3>3 DEF Matches
  <2>3. fifo' = <<>> /\ bus'.pos > 0 => Matches(bus.pos, bus.id)'
    BY <1>1, <1>2, <1>4 DEF Follows, Matches
  <2>4. \A j \in 2 .. Len(fifo') : fifo'[j].pos # 0
    BY <1>1, <2>1, FifoTail
  <2> QED
    <3>1. mem_address_written'
      BY <1>1
    <3> QED
      BY <2>2, <2>3, <2>4, <3>1 DEF Single
<1>9. Ended'
  <2>1. Ended
    BY DEF Inv, InTime
  <2>2. CASE fifo' # <<>>
    BY <1>1, <2>1, <2>2, FifoTail DEF Ended
  <2>3. CASE fifo' = <<>>
    <3>1. fifo[Len(fifo)] = byte
      BY <1>1, <2>3, FifoTail DEF byte
    <3> QED
      BY <1>1, <1>2, <1>6, <2>1, <2>3, <3>1 DEF Ended
  <2> QED
    BY <2>2, <2>3
<1>10. Completed'
  BY <1>1, <1>2, <1>6 DEF Inv, InTime, Completed
<1>11. Ordered'
  <2>1. Ordered
    BY DEF Inv, InTime
  <2>2. mem_address' > 0 => Done < mem'[bank][0]
    BY <1>2, <1>3, <1>6, <2>1 DEF Ordered, byte
  <2>3. \A j \in 1 .. Len(fifo') : fifo'[j].id # 0 => Done < fifo'[j].id
    BY <1>1, <2>1, FifoTail DEF Ordered
  <2>4. bus.id # 0 /\ bus.pos = 0 => /\ mem_address' > 0 => mem'[bank][0] < bus.id
                                     /\ \A j \in 1 .. Len(fifo') : fifo'[j].id < bus.id
    <3>1. bus.id # 0 /\ bus.pos = 0 => \A j \in 1 .. Len(fifo) : fifo[j].id < bus.id
      BY <2>1 DEF Ordered
    <3> QED
      BY <1>1, <1>2, <1>3, <1>6, <3>1, FifoTail DEF byte
  <2> QED
    BY <1>1, <1>2, <1>5, <2>1, <2>2, <2>3, <2>4 DEF Ordered
<1>12. ShownBefore'
  BY <1>1, <1>2, <1>5 DEF Inv, InTime, ShownBefore, loop
<1> QED
  BY <1>7, <1>8, <1>9, <1>10, <1>11, <1>12 DEF InTime

LEMMA TakeByteKeepsInv == ASSUME Inv, TakeByte PROVE Inv'
<1> DEFINE byte == fifo[1]
<1>1. /\ fifo # <<>> /\ byte \in Byte /\ fifo' = Tail(fifo) /\ mem_address_written' = TRUE
      /\ irq \in {"receive", "finish"}
      /\ UNCHANGED <<transfer_in_progress, irq, intr_stat, intr, bus, frames, late, loop>>
      /\ \/ EndAndStore(byte) \/ EndAndSkip(byte) \/ SkipByte(byte) \/ StoreByte(byte)
  BY TakeByteEffect DEF handler, master
<1>2. byte.pos \in Nat /\ byte.id \in Nat /\ byte.id <= Len(frames)
  BY <1>1, SentBefore, BoundsPositive, FifoTail DEF Byte, Place, FrameId
<1>3. /\ fifo' # <<>> => Follows(byte, fifo'[1].pos, fifo'[1].id)
      /\ fifo' = <<>> => Follows(byte, bus.pos, bus.id)
  BY <1>1, NextFollows
<1>4. mem_address' > 0 => mem'[bank'][0] = byte.id /\ mem_address' <= byte.pos + 1
  BY TakeByteStores
<1>5. ContextTyped'
  BY TakeByteKeepsContextTyped
<1> HIDE DEF byte
<1>6. HandlerTyped' /\ MasterTyped' /\ LoopTyped'
  <2>1. HandlerTyped /\ MasterTyped /\ LoopTyped
    BY TypeParts DEF Inv, General
  <2>2. HandlerTyped' /\ LoopTyped'
    BY <1>1, <2>1 DEF HandlerTyped, LoopTyped, loop
  <2>3. fifo' \in Seq(Byte) /\ Len(fifo') <= MaxFifo
    BY <1>1, FifoTail, CaptureAssumption
  <2> QED
    BY <1>1, <2>1, <2>2, <2>3 DEF MasterTyped
<1>7. Marked'
  <2>1. mem_address \in Nat
    BY TypeParts, BoundsPositive DEF Inv, General, ContextTyped
  <2> QED
    BY <1>1, <2>1 DEF Marked, EndAndStore, EndAndSkip, SkipByte, StoreByte
<1>8. Serving'
  BY <1>1 DEF Inv, General, Serving
<1>9. Framed'
  BY <1>1 DEF Inv, General, Framed
<1>10. Chained'
  <2>1. Chained
    BY DEF Inv, General
  <2>2. \A j \in 1 .. Len(fifo') - 1 : Follows(fifo'[j], fifo'[j + 1].pos, fifo'[j + 1].id)
    BY <1>1, <2>1, FifoTail DEF Chained
  <2>3. \A j \in 1 .. Len(fifo') : fifo'[j].pos = 0 => (fifo'[j].ctl <=> fifo'[j].id # 0)
    BY <1>1, <2>1, FifoTail DEF Chained
  <2>4. fifo' # <<>> => Follows(fifo'[Len(fifo')], bus.pos, bus.id)
    BY <1>1, <2>1, FifoTail DEF Chained
  <2> QED
    BY <1>1, <2>2, <2>3, <2>4 DEF Chained, Follows
<1>11. Continued'
  BY <1>1, <1>2, <1>3, <1>4, <1>5, BoundsPositive DEF Continued, Continues, Follows, ContextTyped
<1>12. Known'
  <2>1. Known /\ mem \in [Bank -> [Place -> FrameId]] /\ bank \in Bank /\ 1 - bank \in Bank
    BY TypeParts DEF Inv, General, ContextTyped, Bank
  <2>2. \A b \in Bank, k \in Place : mem'[b][k] <= Len(frames)
    BY <1>1, <1>2, <2>1 DEF Known, EndAndStore, EndAndSkip, SkipByte, StoreByte
  <2>3. \A j \in 1 .. Len(fifo') : fifo'[j].id <= Len(frames)
    BY <1>1, <2>1, FifoTail DEF Known
  <2> QED
    BY <1>1, <2>2, <2>3 DEF Known
<1>13. Banks' /\ Copying'
  BY TakeByteKeepsBanks
<1>14. InTime'
  BY <1>1, TakeByteKeepsInTime DEF InTime
<1> QED
  BY <1>5, <1>6, <1>7, <1>8, <1>9, <1>10, <1>11, <1>12, <1>13, <1>14, TypePartsAfter
     DEF Inv, General

-----------------------------------------------------------------------------
(* The invariant holds, and what it implies *)

LEMMA StutterKeepsInv == ASSUME Inv, UNCHANGED vars PROVE Inv'
<1> USE DEF Inv, General, InTime
<1>1. UNCHANGED <<mem, mem_address, len, skip, mem_address_written, bank, swapped,
                  handler, fifo, intr, master>> /\ UNCHANGED loop
  BY DEF vars, context
<1>2. LoopTyped' /\ Banks' /\ Copying' /\ (late = 0 => ShownBefore')
  BY <1>1, LoopStays, TypeParts
<1>3. swapped' \in BOOLEAN
  BY <1>1, TypeParts DEF ContextTyped
<1> QED
  BY <1>1, <1>2, <1>3, LoopStepInv

LEMMA NextKeepsInv == Inv /\ [Next]_vars => Inv'
<1> SUFFICES ASSUME Inv, [Next]_vars PROVE Inv'
  OBVIOUS
<1>1. CASE Interrupt
  BY <1>1, EnterKeepsInv, TakeByteKeepsInv, ReceivedKeepsInv, ServeEndKeepsInv,
     FinishedKeepsInv DEF Interrupt
<1>2. CASE Master
  BY <1>2, StartFrameKeepsInv, StartCommandKeepsInv, SendByteKeepsInv, StopKeepsInv DEF Master
<1>3. CASE MainLoop
  BY <1>3, CheckKeepsInv, ReadLengthKeepsInv, CopyKeepsInv, SetBankKeepsInv,
     SendFrameKeepsInv DEF MainLoop
<1>4. CASE UNCHANGED vars
  BY <1>4, StutterKeepsInv
<1> QED
  BY <1>1, <1>2, <1>3, <1>4 DEF Next

LEMMA InvInductive == Spec => []Inv
<1> QED
  BY InitInv, NextKeepsInv, PTL DEF Spec

(* Type correctness: among others, mem_address never leaves a bank however  *)
(* late the interrupts come, as long as no transaction is longer than one.  *)
THEOREM OledCaptureTypeOK == Spec => []TypeOK
<1>1. Inv => TypeOK
  BY DEF Inv, General
<1> QED
  BY <1>1, InvInductive, PTL

(* With interrupts in time, a copy that was not lapped is one whole frame   *)
(* (misterpico.c:155-196, 224-232).                                         *)
THEOREM OledCaptureWholeFrame == Spec => []WholeFrame
<1>1. ASSUME Inv PROVE WholeFrame
  <2> SUFFICES ASSUME late = 0, pc = "encode", ~swapped
               PROVE  \E id \in 1 .. Len(frames) : scratchpad = [k \in 1 .. frames[id] |-> id]
    BY DEF WholeFrame, Lapped
  <2>1. /\ length > 0 /\ Len(scratchpad) = length
        /\ \A k \in 1 .. Len(scratchpad) : scratchpad[k] = Done
    BY <1>1, CopyIsDone
  <2>2. length = len[1 - bank]
    BY <1>1 DEF Inv, General, Copying, CopyOf
  <2>3. Done = mem[1 - bank][0] /\ Done # 0 /\ length = frames[Done]
    BY <1>1, <2>1, <2>2 DEF Inv, InTime, Completed, Done
  <2>4. Done \in 1 .. Len(frames)
    BY <1>1, <2>3, SentBefore
  <2>5. scratchpad \in Seq(FrameId)
    BY <1>1, TypeParts DEF Inv, General, LoopTyped
  <2>6. scratchpad = [k \in 1 .. Len(scratchpad) |-> scratchpad[k]]
    BY <2>5
  <2>7. scratchpad = [k \in 1 .. frames[Done] |-> Done]
    BY <2>1, <2>3, <2>6
  <2> QED
    BY <2>4, <2>7
<1> QED
  BY <1>1, InvInductive, PTL

(* However late the interrupts come, a copy that was not lapped has bytes   *)
(* of one frame only (misterpico.c:159-171).                                *)
THEOREM OledCaptureNeverMixed == Spec => []NeverMixed
<1>1. ASSUME Inv PROVE NeverMixed
  <2> SUFFICES ASSUME pc = "encode", ~swapped PROVE Cardinality(Ids(scratchpad)) <= 1
    BY DEF NeverMixed, Lapped
  <2>1. Ids(scratchpad) \subseteq {Done}
    BY <1>1, CopyIsDone DEF Ids
  <2>2. IsFiniteSet({Done}) /\ Cardinality({Done}) = 1
    BY FS_Singleton
  <2> QED
    BY <2>1, <2>2, FS_Subset
<1> QED
  BY <1>1, InvInductive, PTL

(* With interrupts in time, frames come out in the order they were sent and *)
(* none comes out twice (misterpico.c:224, 232).                            *)
THEOREM OledCaptureShownInOrder == Spec => []ShownInOrder
<1>1. ASSUME Inv PROVE ShownInOrder
  <2> SUFFICES ASSUME late = 0, pc = "encode", ~swapped PROVE scratchpad[1] > shown
    BY DEF ShownInOrder, Lapped
  <2>1. scratchpad[1] = Done /\ Done \in Nat
    BY <1>1, CopyIsDone, SentBefore
  <2>2. shown < Done /\ shown \in Nat
    BY <1>1, TypeParts, BoundsPositive
       DEF Inv, General, InTime, ShownBefore, LoopTyped, FrameId
  <2> QED
    BY <2>1, <2>2
<1> QED
  BY <1>1, InvInductive, PTL
=============================================================================
