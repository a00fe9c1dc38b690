----------------------------- MODULE OledCapture -----------------------------
(***************************************************************************)
(* Capture of the OLED traffic of an MT32-Pi (misterpico.c built with      *)
(* PORT_OLED): the I2C slave interrupt of core 1 (pico_i2c_slave) fills    *)
(* one of two banks, i2c_slave_handler swaps them at the end of a frame,   *)
(* and main_i2c_loop, which the interrupt may preempt anywhere, copies the *)
(* bank that was completed.  Bytes may arrive while the interrupt runs.    *)
(*                                                                         *)
(* A bus byte is [pos, ctl, id]: its place in its transaction (the FIFO    *)
(* flags a byte whose place is 0), whether its value is 0x40, and the      *)
(* frame it is of (0: a command, which starts with another control byte).  *)
(* Memory holds the frame each byte is of, which is what the properties    *)
(* tell apart.                                                             *)
(***************************************************************************)
EXTENDS Naturals, Sequences, FiniteSets

CONSTANTS
    MaxFrames,  \* bound: frames the master sends
    MaxLen,     \* bound: bytes of a transaction
    MaxFifo,    \* bound: bytes that wait for the interrupt (FIFO depth)
    MaxLate     \* bound: bytes that arrive before a START or STOP is served

ASSUME CaptureAssumption ==
    /\ MaxFrames \in Nat /\ MaxLen \in Nat \ {0} /\ MaxFifo \in Nat \ {0}
    /\ MaxLate \in Nat

Bank == {0, 1}
Place == 0 .. MaxLen - 1

VARIABLES
    mem, mem_address, len, skip, mem_address_written, bank,  \* context
    transfer_in_progress,  \* i2c_slave_t
    irq, intr_stat,        \* what the interrupt is doing; what it has left to serve
    fifo, intr,            \* receive FIFO; START and STOP not yet cleared
    bus,                   \* the transaction on the bus
    frames,                \* length of each frame sent so far
    pc, read_bank, length, scratchpad,  \* main_i2c_loop
    swapped,               \* history: the banks were swapped since `Check'
    late,                  \* history: bytes that came before a START or STOP was served
    shown                  \* history: the last frame copied undisturbed

context == <<mem, mem_address, len, skip, mem_address_written, bank, swapped>>
handler == <<transfer_in_progress, irq, intr_stat>>
master == <<bus, frames, late>>
loop == <<pc, read_bank, length, scratchpad, shown>>
vars == <<context, handler, fifo, intr, master, loop>>

Idle == [id |-> 0, pos |-> 0, len |-> 0, open |-> FALSE]

Init ==
    /\ mem = [b \in Bank |-> [k \in Place |-> 0]] /\ mem_address = 0
    /\ len = [b \in Bank |-> 0] /\ bank = 0
    /\ skip = FALSE /\ mem_address_written = FALSE
    /\ transfer_in_progress = FALSE /\ irq = "none" /\ intr_stat = {}
    /\ fifo = <<>> /\ intr = {}
    /\ bus = Idle /\ frames = <<>> /\ late = 0
    /\ pc = "check" /\ read_bank = 0 /\ length = 0 /\ scratchpad = <<>>
    /\ swapped = FALSE /\ shown = 0

-----------------------------------------------------------------------------
(* i2c_slave_handler, called with I2C_SLAVE_RECEIVE and I2C_SLAVE_FINISH *)

(* Mutant of Completes: the end of a skipped transaction swaps too *)
CompletesAlways(ends) == ends

(* Whether an end is the end of a frame, and not of a skipped transaction *)
Completes(ends) == ends /\ ~skip

AddressAfter(ends) == IF Completes(ends) THEN 0 ELSE mem_address
BankAfter(ends) == IF Completes(ends) THEN 1 - bank ELSE bank

(* Note the length of the frame and turn to the other bank *)
Swap(ends) ==
    /\ len' = IF Completes(ends) THEN [len EXCEPT ![bank] = mem_address, ![1 - bank] = 0]
                                 ELSE len
    /\ bank' = BankAfter(ends)
    /\ swapped' = (swapped \/ Completes(ends))

(* Mutant of EndsFrame: the flag of the byte is not looked at *)
NeverEndsFrame(byte) == FALSE

(* A flagged byte ends the frame before it, in case the interrupt for its   *)
(* STOP has not come yet.                                                   *)
EndsFrame(byte) == byte.pos = 0 /\ mem_address # 0

(* A transaction that does not start with 0x40 is skipped *)
Skips(byte) ==
    \/ skip /\ ~EndsFrame(byte)
    \/ AddressAfter(EndsFrame(byte)) = 0 /\ ~byte.ctl

Store(at, b, id) ==
    /\ mem' = [mem EXCEPT ![b][at] = id]
    /\ mem_address' = at + 1

(* One byte out of the FIFO *)
TakeByte ==
    /\ irq \in {"receive", "finish"} /\ fifo # <<>>
    /\ LET byte == Head(fifo)
           ends == EndsFrame(byte)
       IN  /\ Swap(ends)
           /\ skip' = Skips(byte)
           /\ \/ Skips(byte) /\ mem_address' = AddressAfter(ends) /\ mem' = mem
              \/ ~Skips(byte) /\ Store(AddressAfter(ends), BankAfter(ends), byte.id)
    /\ mem_address_written' = TRUE
    /\ fifo' = Tail(fifo)
    /\ UNCHANGED <<handler, intr, master, loop>>

(* What is left for i2c_slave_irq_handler once `events' have been served *)
Rest(events) == IF events = {} THEN "none" ELSE "end"

(* The end of I2C_SLAVE_RECEIVE: the FIFO is empty *)
Received ==
    /\ irq = "receive" /\ fifo = <<>>
    /\ irq' = Rest(intr_stat)
    /\ UNCHANGED <<context, transfer_in_progress, intr_stat, fifo, intr, master, loop>>

(* The end of I2C_SLAVE_FINISH, and of finish_transfer *)
Finished ==
    /\ irq = "finish" /\ fifo = <<>>
    /\ Swap(mem_address_written)
    /\ mem_address' = AddressAfter(mem_address_written)
    /\ mem_address_written' = FALSE
    /\ skip' = (skip /\ ~mem_address_written)
    /\ transfer_in_progress' = FALSE
    /\ irq' = Rest(intr_stat)
    /\ UNCHANGED <<mem, intr_stat, fifo, intr, master, loop>>

-----------------------------------------------------------------------------
(* i2c_slave_irq_handler: it serves what it found when it read intr_stat *)

Enter ==
    /\ irq = "none" /\ (fifo # <<>> \/ intr # {})
    /\ intr_stat' = intr
    /\ irq' = IF fifo # <<>> THEN "receive" ELSE "end"
    /\ transfer_in_progress' = (transfer_in_progress \/ fifo # <<>>)
    /\ UNCHANGED <<context, fifo, intr, master, loop>>

(* START before STOP; finish_transfer calls the handler during a transfer *)
ServeEnd ==
    /\ irq = "end"
    /\ LET event == IF "start" \in intr_stat THEN "start" ELSE "stop"
       IN  intr' = intr \ {event} /\ intr_stat' = intr_stat \ {event}
    /\ irq' = IF transfer_in_progress THEN "finish" ELSE Rest(intr_stat')
    /\ UNCHANGED <<context, transfer_in_progress, fifo, master, loop>>

Interrupt == Enter \/ TakeByte \/ Received \/ ServeEnd \/ Finished

-----------------------------------------------------------------------------
(* The bus master.  A frame is 0x40 and its bytes; anything else is a       *)
(* command transaction.  The interrupt for a START or STOP is served before *)
(* the next byte arrives (the address byte is longer than the interrupt     *)
(* takes), or late.                                                         *)
Begin(id, n) ==
    /\ ~bus.open
    /\ bus' = [id |-> id, pos |-> 0, len |-> n, open |-> TRUE]
    /\ intr' = intr \cup {"start"}
    /\ UNCHANGED <<context, handler, fifo, late, loop>>

StartFrame ==
    /\ Len(frames) < MaxFrames
    /\ \E n \in 1 .. MaxLen :
         /\ frames' = Append(frames, n)
         /\ Begin(Len(frames) + 1, n)

StartCommand ==
    /\ \E n \in 1 .. MaxLen : Begin(0, n)
    /\ UNCHANGED frames

Unserved == intr # {} \/ irq = "finish"

SendByte ==
    /\ bus.open /\ bus.pos < bus.len /\ Len(fifo) < MaxFifo
    /\ late' = IF Unserved THEN late + 1 ELSE late
    /\ late' <= MaxLate
    /\ \E ctl \in BOOLEAN :
         /\ bus.pos = 0 => ctl = (bus.id # 0)
         /\ fifo' = Append(fifo, [pos |-> bus.pos, ctl |-> ctl, id |-> bus.id])
    /\ bus' = [bus EXCEPT !.pos = @ + 1]
    /\ UNCHANGED <<context, handler, intr, frames, loop>>

Stop ==
    /\ bus.open /\ bus.pos = bus.len
    /\ bus' = Idle
    /\ intr' = intr \cup {"stop"}
    /\ UNCHANGED <<context, handler, fifo, frames, late, loop>>

-----------------------------------------------------------------------------
(* main_i2c_loop, between two interrupts *)

(* The banks were swapped since the loop found a bank completed *)
Lapped == swapped

Check ==
    /\ irq = "none" /\ pc = "check" /\ read_bank # bank
    /\ pc' = "length" /\ swapped' = FALSE
    /\ UNCHANGED <<mem, mem_address, len, skip, mem_address_written, bank, handler,
                   fifo, intr, master, read_bank, length, scratchpad, shown>>

(* Mutant of ReadLength: the copy goes on where the last one ended *)
ReadLengthOnly ==
    /\ irq = "none" /\ pc = "length"
    /\ length' = len[read_bank]
    /\ pc' = "copy"
    /\ UNCHANGED <<context, handler, fifo, intr, master, read_bank, scratchpad, shown>>

ReadLength ==
    /\ irq = "none" /\ pc = "length"
    /\ length' = len[read_bank] /\ scratchpad' = <<>>
    /\ pc' = "copy"
    /\ UNCHANGED <<context, handler, fifo, intr, master, read_bank, shown>>

(* memcpy, a byte at a time *)
Copy ==
    /\ irq = "none" /\ pc = "copy" /\ Len(scratchpad) < length
    /\ scratchpad' = Append(scratchpad, mem[read_bank][Len(scratchpad)])
    /\ UNCHANGED <<context, handler, fifo, intr, master, pc, read_bank, length, shown>>

(* Mutant of SetBank: read_bank is not updated *)
SetNothing ==
    /\ irq = "none" /\ pc = "copy" /\ Len(scratchpad) = length
    /\ pc' = "encode"
    /\ UNCHANGED <<context, handler, fifo, intr, master, read_bank, length, scratchpad, shown>>

SetBank ==
    /\ irq = "none" /\ pc = "copy" /\ Len(scratchpad) = length
    /\ read_bank' = bank
    /\ pc' = "encode"
    /\ UNCHANGED <<context, handler, fifo, intr, master, length, scratchpad, shown>>

(* run-length coding and do_send: the module OledRle *)
SendFrame ==
    /\ irq = "none" /\ pc = "encode"
    /\ shown' = IF Lapped \/ length = 0 THEN shown ELSE scratchpad[1]
    /\ pc' = "check"
    /\ UNCHANGED <<context, handler, fifo, intr, master, read_bank, length, scratchpad>>

MainLoop == Check \/ ReadLength \/ Copy \/ SetBank \/ SendFrame
Master == StartFrame \/ StartCommand \/ SendByte \/ Stop

Next == Interrupt \/ Master \/ MainLoop

Spec == Init /\ [][Next]_vars

(* The interrupt runs to its end, and leaves main_i2c_loop time again and   *)
(* again, however many transactions the master sends.                       *)
FairSpec == Spec /\ WF_vars(Interrupt) /\ SF_vars(MainLoop)

-----------------------------------------------------------------------------
Ids(s) == {s[k] : k \in 1 .. Len(s)}

FrameId == 0 .. MaxFrames
Byte == [pos : Place, ctl : BOOLEAN, id : FrameId]
Transaction == [id : FrameId, pos : 0 .. MaxLen, len : 0 .. MaxLen, open : BOOLEAN]

(* Type invariant of the capture. *)
TypeOK ==
    /\ mem \in [Bank -> [Place -> FrameId]] /\ mem_address \in 0 .. MaxLen
    /\ len \in [Bank -> 0 .. MaxLen] /\ bank \in Bank
    /\ skip \in BOOLEAN /\ mem_address_written \in BOOLEAN
    /\ transfer_in_progress \in BOOLEAN
    /\ irq \in {"none", "receive", "finish", "end"}
    /\ intr_stat \subseteq intr /\ intr \subseteq {"start", "stop"}
    /\ fifo \in Seq(Byte) /\ Len(fifo) <= MaxFifo
    /\ bus \in Transaction /\ frames \in Seq(1 .. MaxLen) /\ Len(frames) <= MaxFrames
    /\ pc \in {"check", "length", "copy", "encode"} /\ read_bank \in Bank
    /\ length \in 0 .. MaxLen
    /\ scratchpad \in Seq(FrameId) /\ Len(scratchpad) <= MaxLen
    /\ swapped \in BOOLEAN /\ shown \in FrameId /\ late \in 0 .. MaxLate

(* While interrupts come in time, a frame that is copied while the banks    *)
(* are not swapped is one frame of the master, whole: no byte of a command, *)
(* of another frame or of the frame that is arriving, although its          *)
(* interrupt preempts the copy (misterpico.c:155-196, 224-232).             *)
WholeFrame ==
    late = 0 /\ pc = "encode" /\ ~Lapped =>
        \E id \in 1 .. Len(frames) : scratchpad = [k \in 1 .. frames[id] |-> id]

(* When the interrupt for a STOP comes late, a copy that was not lapped     *)
(* still never mixes two frames: the flagged first byte of the next one     *)
(* ends the one before (misterpico.c:159-171).                              *)
NeverMixed == pc = "encode" /\ ~Lapped => Cardinality(Ids(scratchpad)) <= 1

(* While interrupts come in time, frames come out in the order they were    *)
(* sent, and none comes out twice, whatever number of them was lost in      *)
(* between (misterpico.c:224, 232).  A late one may end a frame after its   *)
(* first byte, and the rest comes out as a second frame.                    *)
ShownInOrder ==
    late = 0 /\ pc = "encode" /\ ~Lapped => scratchpad[1] > shown

(* A bank that was completed is looked at unless the next frame completes   *)
(* first and hides it, and the frame that is looked at is shown unless a    *)
(* swap disturbs its copy (misterpico.c:224-232).                           *)
CompletedIsShown ==
    /\ (pc = "check" /\ read_bank # bank) ~> (pc = "length" \/ read_bank = bank)
    /\ \A id \in 1 .. MaxFrames :
         (pc = "length" /\ ~Lapped /\ mem[read_bank][0] = id) ~> (shown = id \/ Lapped)
=============================================================================
