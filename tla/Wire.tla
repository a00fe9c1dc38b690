-------------------------------- MODULE Wire --------------------------------
(***************************************************************************)
(* The Wire library of pico_i2c_slave: a program with a master (Wire1) on  *)
(* the bus of a slave (Wire), the 256 byte memory of example_mem_wire.cpp. *)
(* The bus goes on while the slave's interrupt is pending at most MaxLate  *)
(* times; a byte at 100 kHz takes 90 us.  Another device on the bus may    *)
(* refuse its address or a byte.  Handler i2c_slave_irq_handler runs       *)
(* without being interrupted, from one reading of intr_stat.               *)
(***************************************************************************)
EXTENDS Integers, Sequences

CONSTANTS
    Length,       \* WIRE_BUFFER_LENGTH of each, a compile-time choice
    MemSize,      \* 256
    MaxData,      \* bound: bytes of one write() and one requestFrom()
    MaxTransfers, \* bound
    MaxLate       \* bound

Wires == {"Wire", "Wire1"}
ASSUME WireAssumption ==
    /\ Length \in [Wires -> 1 .. 255]
    /\ MemSize \in Nat \ {0} /\ MaxData \in Nat \ {0}
    /\ MaxTransfers \in Nat /\ MaxLate \in Nat

Byte == 0 .. MemSize - 1
Data == UNION {[1 .. n -> Byte] : n \in 1 .. MaxData}
Device == {"slave", "other"}
NO_ADDRESS == "none"

VARIABLES
    mode,                  \* Unassigned, Master or Slave
    registered,            \* i2c_slaves[] knows the instance
    txAddress, pos,        \* of Wire1; pos of the slave is used in the handler only
    buf,                   \* buf_, up to bufLen_
    status,                \* what endTransmission returned last
    mem, mem_address,      \* the example's memory
    transfer_in_progress,
    fifo, intr, reply,     \* the slave's hardware: received, pending, to be sent
    bus, to, stop,         \* the transfer: idle, write, read, or held without a stop
    taken, count, got,     \* bytes taken of a write; bytes asked and got in a read
    late, transfers,
    expect, cursor, wanted \* history: what the memory should hold and be at, and
                           \* what the last read should have given

program == <<mode, registered, txAddress, pos, buf, status>>
slave == <<mem, mem_address, transfer_in_progress>>
history == <<expect, cursor, wanted>>
wire_vars == <<program, slave, fifo, intr, reply, bus, to, stop, taken, count, got,
          late, transfers, history>>

Least(a, b) == IF a < b THEN a ELSE b
First(n, s) == SubSeq(s, 1, Least(n, Len(s)))

(* slave_on_receive: an address, and bytes from there on, wrapping around *)
AddressAfter(bytes) == (bytes[1] + Len(bytes) - 1) % MemSize
Stored(m, bytes) ==
    [a \in Byte |->
        LET writes == {k \in 2 .. Len(bytes) : (bytes[1] + k - 2) % MemSize = a}
        IN IF writes = {} THEN m[a]
           ELSE bytes[CHOOSE k \in writes : \A j \in writes : j <= k]]

WireInit ==
    /\ mode = [w \in Wires |-> "unassigned"] /\ registered = [w \in Wires |-> FALSE]
    /\ txAddress = NO_ADDRESS /\ pos = 0 /\ buf = [w \in Wires |-> <<>>] /\ status = 0
    /\ mem = [a \in Byte |-> 0] /\ mem_address = 0 /\ transfer_in_progress = FALSE
    /\ fifo = <<>> /\ intr = {} /\ reply = <<>>
    /\ bus = "idle" /\ to = "other" /\ stop = TRUE
    /\ taken = 0 /\ count = 0 /\ got = <<>> /\ late = 0 /\ transfers = 0
    /\ expect = mem /\ cursor = 0 /\ wanted = <<>>

-----------------------------------------------------------------------------
(* The program *)
Free == bus \in {"idle", "held"}
Master == mode["Wire1"] = "master"

(* begin(): whatever the mode was, i2c_slave_deinit is called unless there  *)
(* was none; it forgets the instance.  A master that begins again fails the *)
(* assertion of i2c_slave.c:130; as here, it goes on where assertions are   *)
(* compiled out.                                                            *)
BeginMaster ==
    /\ txAddress = NO_ADDRESS /\ Free
    /\ mode' = [mode EXCEPT !["Wire1"] = "master"]
    /\ registered' = [registered EXCEPT !["Wire1"] = FALSE]
    /\ buf' = [buf EXCEPT !["Wire1"] = <<>>] /\ pos' = 0 /\ wanted' = <<>>
    /\ UNCHANGED <<txAddress, status, slave, fifo, intr, reply, bus, to, stop,
                   taken, count, got, late, transfers, expect, cursor>>

(* begin(address), while the bus is quiet *)
BeginSlave ==
    /\ bus = "idle" /\ intr = {}
    /\ mode' = [mode EXCEPT !["Wire"] = "slave"]
    /\ registered' = [registered EXCEPT !["Wire"] = TRUE]
    /\ buf' = [buf EXCEPT !["Wire"] = <<>>] /\ transfer_in_progress' = FALSE
    /\ UNCHANGED <<txAddress, pos, status, mem, mem_address, fifo, intr, reply, bus,
                   to, stop, taken, count, got, late, transfers, history>>

BeginTransmission(address) ==
    /\ Master /\ Free /\ txAddress = NO_ADDRESS /\ transfers < MaxTransfers
    /\ txAddress' = address
    /\ buf' = [buf EXCEPT !["Wire1"] = <<>>] /\ pos' = 0 /\ wanted' = <<>>
    /\ UNCHANGED <<mode, registered, status, slave, fifo, intr, reply, bus, to, stop,
                   taken, count, got, late, transfers, expect, cursor>>

(* Mutant of Write: the size of the buffer is forgotten *)
WriteAll(data) ==
    /\ Master /\ Free /\ txAddress # NO_ADDRESS
    /\ buf' = [buf EXCEPT !["Wire1"] = @ \o data]
    /\ UNCHANGED <<mode, registered, txAddress, pos, status, slave, fifo, intr, reply,
                   bus, to, stop, taken, count, got, late, transfers, history>>

(* write(value) and write(data, size): what does not fit is left out *)
Write(data) ==
    /\ Master /\ Free /\ txAddress # NO_ADDRESS
    /\ buf' = [buf EXCEPT !["Wire1"] = @ \o First(Length["Wire1"] - Len(@), data)]
    /\ UNCHANGED <<mode, registered, txAddress, pos, status, slave, fifo, intr, reply,
                   bus, to, stop, taken, count, got, late, transfers, history>>

(* read() *)
Read ==
    /\ Master /\ Free /\ txAddress = NO_ADDRESS /\ pos < Len(buf["Wire1"])
    /\ pos' = pos + 1
    /\ UNCHANGED <<mode, registered, txAddress, buf, status, slave, fifo, intr, reply,
                   bus, to, stop, taken, count, got, late, transfers, history>>

(* The bus tells the slave something; it may not wait for the interrupt *)
Raise(event) ==
    /\ intr' = IF registered["Wire"] THEN intr \cup {event} ELSE intr
    /\ intr # {} => late < MaxLate
    /\ late' = IF intr = {} THEN late ELSE late + 1

(* endTransmission calls i2c_write_blocking, which wants a byte at least *)
EndTransmission(sendStop) ==
    /\ Master /\ Free /\ txAddress # NO_ADDRESS /\ buf["Wire1"] # <<>>
    /\ bus' = "write" /\ to' = txAddress /\ stop' = sendStop /\ taken' = 0
    /\ transfers' = transfers + 1
    /\ Raise("start")
    /\ UNCHANGED <<program, slave, fifo, reply, count, got, history>>

RequestFrom(address, n, sendStop) ==
    /\ Master /\ Free /\ txAddress = NO_ADDRESS /\ transfers < MaxTransfers
    /\ bus' = "read" /\ to' = address /\ stop' = sendStop
    /\ count' = Least(n, Length["Wire1"]) /\ got' = <<>>
    /\ transfers' = transfers + 1
    /\ Raise("start")
    /\ IF address = "slave" /\ registered["Wire"]
         THEN /\ wanted' = [i \in 1 .. count' |-> expect[(cursor + i - 1) % MemSize]]
              /\ cursor' = (cursor + count') % MemSize
         ELSE wanted' = <<>> /\ UNCHANGED cursor
    /\ UNCHANGED <<program, slave, fifo, reply, taken, expect>>

-----------------------------------------------------------------------------
(* The bus *)
Answers == to = "slave" /\ registered["Wire"]

SendByte ==
    /\ bus = "write" /\ Answers /\ taken < Len(buf["Wire1"])
    /\ fifo' = Append(fifo, buf["Wire1"][taken + 1]) /\ taken' = taken + 1
    /\ Raise("rx_full")
    /\ UNCHANGED <<program, slave, reply, bus, to, stop, count, got, transfers, history>>

(* How many bytes i2c_write_blocking says were taken, -1 if nobody answered *)
Taken == IF Answers THEN {Len(buf["Wire1"])} \cap {taken}
         ELSE IF to = "slave" THEN {-1} ELSE -1 .. Len(buf["Wire1"])

(* A transfer ends with a stop, at an error too *)
Ends(complete) ==
    IF stop \/ ~complete THEN bus' = "idle" /\ Raise("stop")
    ELSE bus' = "held" /\ UNCHANGED <<intr, late>>

(* endTransmission clears bufLen_ before it compares the result with it *)
EndReturns(n) ==
    /\ txAddress' = NO_ADDRESS
    /\ buf' = [buf EXCEPT !["Wire1"] = <<>>]
    /\ status' = IF n < 0 THEN 4 ELSE IF n < Len(buf'["Wire1"]) THEN 3 ELSE 0

WriteEnds ==
    /\ bus = "write"
    /\ \E n \in Taken :
         /\ Ends(n = Len(buf["Wire1"]))
         /\ EndReturns(n)
    /\ LET bytes == First(Length["Wire"], buf["Wire1"])
       IN IF Answers THEN expect' = Stored(expect, bytes) /\ cursor' = AddressAfter(bytes)
          ELSE UNCHANGED <<expect, cursor>>
    /\ UNCHANGED <<mode, registered, pos, slave, fifo, reply, to, stop, taken, count, got,
                   transfers, wanted>>

(* The slave holds the clock from RD_REQ until it has something to send *)
AskByte ==
    /\ bus = "read" /\ Answers /\ Len(got) < count
    /\ reply = <<>> /\ "rd_req" \notin intr
    /\ Raise("rd_req")
    /\ UNCHANGED <<program, slave, fifo, reply, bus, to, stop, taken, count, got, transfers,
                   history>>

GetByte ==
    /\ bus = "read" /\ reply # <<>>
    /\ got' = Append(got, Head(reply)) /\ reply' = Tail(reply)
    /\ UNCHANGED <<program, slave, fifo, intr, bus, to, stop, taken, count, late, transfers,
                   history>>

(* requestFrom: an error counts as nothing read; another device sends zeros *)
ReadEnds ==
    /\ bus = "read"
    /\ Answers => Len(got) = count
    /\ \E bytes \in IF Answers THEN {got}
                    ELSE IF to = "slave" THEN {<<>>} ELSE {<<>>, [i \in 1 .. count |-> 0]} :
         /\ Ends(bytes # <<>>)
         /\ buf' = [buf EXCEPT !["Wire1"] = bytes]
    /\ pos' = 0
    /\ UNCHANGED <<mode, registered, txAddress, status, slave, fifo, reply, to, stop,
                   taken, count, got, transfers, history>>

-----------------------------------------------------------------------------
(* The slave's interrupt: i2c_slave_irq_handler, handleEvent and the        *)
(* example's handlers                                                       *)

(* Mutant of Receive: bytes are stored past the end of the buffer *)
ReceiveAll == IF "rx_full" \in intr THEN buf["Wire"] \o fifo ELSE buf["Wire"]

(* I2C_SLAVE_RECEIVE: everything in the FIFO, what does not fit discarded *)
Receive == IF "rx_full" \in intr THEN First(Length["Wire"], buf["Wire"] \o fifo)
           ELSE buf["Wire"]

(* Mutant of Requested: the address stays where it is *)
RequestedSame == mem_address

(* I2C_SLAVE_REQUEST and slave_on_request *)
Requested == IF "rd_req" \in intr THEN (mem_address + 1) % MemSize ELSE mem_address
Request == reply' = IF "rd_req" \in intr THEN Append(reply, mem[mem_address]) ELSE reply

(* I2C_SLAVE_FINISH, if a transfer is in progress, and slave_on_receive *)
Began == transfer_in_progress \/ intr \cap {"rx_full", "rd_req"} # {}
(* Mutant of Finishes: a repeated start does not end a transfer *)
FinishesAtStop == "stop" \in intr /\ Began

Finishes == intr \cap {"start", "stop"} # {} /\ Began

Interrupt ==
    /\ intr # {} /\ intr' = {}
    /\ fifo' = IF "rx_full" \in intr THEN <<>> ELSE fifo
    /\ Request
    /\ transfer_in_progress' = (Began /\ ~Finishes)
    /\ IF Finishes /\ Receive # <<>>
         THEN /\ mem' = Stored(mem, Receive) /\ mem_address' = AddressAfter(Receive)
              /\ buf' = [buf EXCEPT !["Wire"] = <<>>]
         ELSE /\ buf' = [buf EXCEPT !["Wire"] = Receive]
              /\ mem_address' = Requested /\ UNCHANGED mem
    /\ UNCHANGED <<mode, registered, txAddress, pos, status, bus, to, stop, taken,
                   count, got, late, transfers, history>>

Program ==
    \/ BeginMaster \/ BeginSlave
    \/ \E address \in Device : BeginTransmission(address)
    \/ \E data \in Data : Write(data)
    \/ Read
    \/ \E sendStop \in BOOLEAN : EndTransmission(sendStop)
    \/ \E address \in Device, n \in 1 .. MaxData, sendStop \in BOOLEAN :
          RequestFrom(address, n, sendStop)

WireNext == Program \/ SendByte \/ WriteEnds \/ AskByte \/ GetByte \/ ReadEnds \/ Interrupt

WireSpec == WireInit /\ [][WireNext]_wire_vars

-----------------------------------------------------------------------------
(* Every variable has its type; in particular nothing is ever stored past   *)
(* the end of buf_, however late the interrupts are.                        *)
WireTypeOK ==
    /\ mode \in [Wires -> {"unassigned", "master", "slave"}] /\ registered \in [Wires -> BOOLEAN]
    /\ \A w \in Wires : buf[w] \in Seq(Byte) /\ Len(buf[w]) <= Length[w]
    /\ pos \in 0 .. Len(buf["Wire1"])
    /\ txAddress \in Device \cup {NO_ADDRESS} /\ status \in {0, 3, 4}
    /\ txAddress # NO_ADDRESS => pos = 0
    /\ mem \in [Byte -> Byte] /\ mem_address \in Byte /\ transfer_in_progress \in BOOLEAN
    /\ intr \subseteq {"start", "stop", "rx_full", "rd_req"} /\ Len(reply) <= 1
    /\ bus \in {"idle", "held", "write", "read"}

(* While interrupts are served in time, and once the bus is at rest, the    *)
(* memory holds what the transmissions to the slave wrote, each from the    *)
(* address in its first byte, and continues where the last one or the last  *)
(* read stopped; whether a transfer ended with a stop or ran into the next, *)
(* and whatever else was on the bus.                                        *)
Written == late = 0 /\ bus = "idle" /\ intr = {} => mem = expect /\ mem_address = cursor

(* While interrupts are served in time, requestFrom gives the bytes that    *)
(* were written there, also split over two requests.                        *)
ReadsBack == late = 0 /\ bus # "read" /\ wanted # <<>> => buf["Wire1"] = wanted

(* assert(wire.bufLen_ == 0) of I2C_SLAVE_REQUEST: while interrupts are     *)
(* served in time, what was written before a read has been handed over when *)
(* the read asks.  A late one finds a repeated start and a request together *)
(* and serves the request first (i2c_slave.c:73, 82).                       *)
RequestsFindNothing == late = 0 /\ "rd_req" \in intr => Receive = <<>>

(* Wire.h:96 of endTransmission: "3 if transfer was interrupted by the slave *)
(* via NACK."  A write that was to keep the bus and ends with a stop was    *)
(* interrupted, so it is not told as a success.  The code clears bufLen_    *)
(* before it compares the bytes taken with it (Wire.cpp:65, 68) and returns *)
(* 0 for it.                                                                *)
InterruptionIsTold ==
    [][bus = "write" /\ ~stop /\ bus' = "idle" => status' \in {3, 4}]_wire_vars
=============================================================================
