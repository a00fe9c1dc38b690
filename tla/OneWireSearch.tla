---------------------------- MODULE OneWireSearch ----------------------------
(***************************************************************************)
(* pico_1wire_search_rom and find_next_device of pico_1wire.c: every pass  *)
(* over the bus follows one ROM code bit by bit and remembers where it can *)
(* turn the other way next time (last_discrepancy).                        *)
(*                                                                         *)
(* A ROM code is a function from 1 .. Width to 0 .. 1; bit 1 is sent       *)
(* first.  The bus is the wired AND of the devices that still take part.   *)
(* Devices come and go and a read slot may be misread at any moment.       *)
(* The hook loop_1(), which write_byte calls, is taken to return; with     *)
(* misterpico's loop_1 no call of the library would.                       *)
(***************************************************************************)
EXTENDS Naturals, Sequences, FiniteSets

CONSTANTS
    Width,           \* 64
    Valid,           \* the ROM codes whose last byte is the CRC of the others
    addr_list_size,
    MaxChanges,      \* bound: devices that come or go
    MaxNoise         \* bound: bits that are misread

Bit == 1 .. Width
Code == [Bit -> 0 .. 1]

ASSUME SearchAssumption ==
    /\ Width \in Nat \ {0}
    /\ Valid \subseteq Code
    /\ addr_list_size \in Nat \ {0}
    /\ MaxChanges \in Nat /\ MaxNoise \in Nat

VARIABLES
    present,           \* the devices on the bus, by their ROM codes
    listening,         \* those that take part in this pass
    pc, result,        \* where search_rom is, and what it returned
    addr_list, rom_addr, done, last_discrepancy,  \* of search_rom
    rom_bit_index, discrepancy,                   \* of find_next_device
    changes, noise,    \* how often the bus changed, and was misread
    seen, disturbed    \* history: the devices there were since the call, and
                       \* whether it met a change or a misread bit

search == <<addr_list, rom_addr, done, last_discrepancy>>
pass == <<listening, rom_bit_index, discrepancy>>
outside == <<present, changes, noise, seen, disturbed>>
vars == <<search, pass, outside, pc, result>>

-----------------------------------------------------------------------------
Init ==
    /\ present \in SUBSET Valid
    /\ listening = {}
    /\ pc = "idle" /\ result = 0
    /\ addr_list = <<>> /\ rom_addr = [b \in Bit |-> 0]
    /\ done = FALSE /\ last_discrepancy = 0
    /\ rom_bit_index = 1 /\ discrepancy = 0
    /\ changes = 0 /\ noise = 0 /\ seen = present /\ disturbed = FALSE

Return(status) == pc' = "returned" /\ result' = status

(* The start of search_rom, up to its reset of the bus *)
Call ==
    /\ pc \in {"idle", "returned"}
    /\ addr_list' = <<>> /\ rom_addr' = [b \in Bit |-> 0]
    /\ done' = FALSE /\ last_discrepancy' = 0
    /\ seen' = present /\ disturbed' = FALSE
    /\ IF present = {} THEN Return(1) ELSE pc' = "next" /\ UNCHANGED result
    /\ UNCHANGED <<pass, present, changes, noise>>

(* The start of find_next_device.  When it returns false, search_rom         *)
(* returns 0.                                                                *)
NoMore ==
    /\ pc = "next" /\ done
    /\ done' = FALSE
    /\ Return(0)
    /\ UNCHANGED <<addr_list, rom_addr, last_discrepancy, pass, outside>>

NobodyLeft ==
    /\ pc = "next" /\ ~done /\ present = {}
    /\ last_discrepancy' = 0
    /\ Return(0)
    /\ UNCHANGED <<addr_list, rom_addr, done, pass, outside>>

Start ==
    /\ pc = "next" /\ ~done /\ present # {}
    /\ listening' = present
    /\ rom_bit_index' = 1 /\ discrepancy' = 0
    /\ pc' = "bit"
    /\ UNCHANGED <<search, outside, result>>

(* What two read slots return: the bit and its complement, each the AND of  *)
(* what the devices send                                                    *)
BusReads(devices, b) ==
    <<IF \A d \in devices : d[b] = 1 THEN 1 ELSE 0,
      IF \A d \in devices : d[b] = 0 THEN 1 ELSE 0>>

(* One of the two may be misread *)
Reads(r) ==
    LET bus == BusReads(listening, rom_bit_index) IN
    \/ r = bus /\ UNCHANGED <<noise, disturbed>>
    \/ /\ noise < MaxNoise
       /\ r \in {<<1 - bus[1], bus[2]>>, <<bus[1], 1 - bus[2]>>}
       /\ noise' = noise + 1 /\ disturbed' = TRUE

(* The way the pass goes on, and whether a later pass goes the other way *)
Direction(r) ==
    IF r # <<0, 0>> THEN r[1]
    ELSE IF rom_bit_index = last_discrepancy THEN 1
    ELSE IF rom_bit_index > last_discrepancy THEN 0
    ELSE rom_addr[rom_bit_index]

(* Mutant of Postponed: only discrepancies after the last one count *)
PostponedAfterOnly(r) == r = <<0, 0>> /\ rom_bit_index > last_discrepancy

Postponed(r) ==
    /\ r = <<0, 0>>
    /\ rom_bit_index # last_discrepancy
    /\ Direction(r) = 0

(* Mutant of NoAnswer: the bit is read again until somebody answers *)
NoAnswerRetries ==
    /\ pc = "bit" /\ rom_bit_index <= Width
    /\ Reads(<<1, 1>>)
    /\ last_discrepancy' = 0
    /\ UNCHANGED <<addr_list, rom_addr, done, pass, pc, result, present, changes, seen>>

(* Both bits are 1: nobody takes part any more, and find_next_device        *)
(* returns false                                                            *)
NoAnswer ==
    /\ pc = "bit" /\ rom_bit_index <= Width
    /\ Reads(<<1, 1>>)
    /\ last_discrepancy' = 0
    /\ Return(0)
    /\ UNCHANGED <<addr_list, rom_addr, done, pass, present, changes, seen>>

(* A bit is read and the way is written; who disagrees drops out *)
FollowBit ==
    /\ pc = "bit" /\ rom_bit_index <= Width
    /\ \E r \in (0 .. 1) \X (0 .. 1) :
         /\ r # <<1, 1>> /\ Reads(r)
         /\ rom_addr' = [rom_addr EXCEPT ![rom_bit_index] = Direction(r)]
         /\ discrepancy' = IF Postponed(r) THEN rom_bit_index ELSE discrepancy
         /\ listening' = {d \in listening : d[rom_bit_index] = Direction(r)}
    /\ rom_bit_index' = rom_bit_index + 1
    /\ UNCHANGED <<addr_list, done, last_discrepancy, pc, result, present, changes, seen>>

(* Mutant of Found: the checksum is not looked at *)
FoundUnchecked ==
    /\ pc = "bit" /\ rom_bit_index > Width
    /\ last_discrepancy' = discrepancy
    /\ done' = (discrepancy = 0)
    /\ \/ Len(addr_list) >= addr_list_size /\ Return(2) /\ UNCHANGED addr_list
       \/ /\ Len(addr_list) < addr_list_size
          /\ addr_list' = Append(addr_list, rom_addr)
          /\ pc' = "next" /\ UNCHANGED result
    /\ UNCHANGED <<rom_addr, pass, outside>>

(* find_next_device returns true; search_rom checks the code and lists it *)
Found ==
    /\ pc = "bit" /\ rom_bit_index > Width
    /\ last_discrepancy' = discrepancy
    /\ done' = (discrepancy = 0)
    /\ \/ /\ rom_addr \notin Valid
          /\ pc' = "next" /\ UNCHANGED <<addr_list, result>>
       \/ /\ rom_addr \in Valid /\ Len(addr_list) >= addr_list_size
          /\ Return(2) /\ UNCHANGED addr_list
       \/ /\ rom_addr \in Valid /\ Len(addr_list) < addr_list_size
          /\ addr_list' = Append(addr_list, rom_addr)
          /\ pc' = "next" /\ UNCHANGED result
    /\ UNCHANGED <<rom_addr, pass, outside>>

SearchStep == NoMore \/ NobodyLeft \/ Start \/ NoAnswer \/ FollowBit \/ Found

(* A device is plugged in, and takes part from the next pass on; or one is  *)
(* pulled out                                                               *)
Plug ==
    /\ changes < MaxChanges
    /\ \E d \in Valid \ present : present' = present \cup {d} /\ seen' = seen \cup {d}
    /\ changes' = changes + 1 /\ disturbed' = TRUE
    /\ UNCHANGED <<search, pass, pc, result, noise>>

Unplug ==
    /\ changes < MaxChanges
    /\ \E d \in present : present' = present \ {d} /\ listening' = listening \ {d}
    /\ changes' = changes + 1 /\ disturbed' = TRUE
    /\ UNCHANGED <<search, rom_bit_index, discrepancy, pc, result, noise, seen>>

Next == Call \/ SearchStep \/ Plug \/ Unplug

Spec == Init /\ [][Next]_vars

(* search_rom runs to its end *)
FairSpec == Spec /\ WF_vars(SearchStep)

-----------------------------------------------------------------------------
(* Type invariant of the search. *)
TypeOK ==
    /\ present \subseteq Valid /\ listening \subseteq Valid /\ seen \subseteq Valid
    /\ pc \in {"idle", "next", "bit", "returned"} /\ result \in 0 .. 2
    /\ addr_list \in Seq(Valid) /\ Len(addr_list) <= addr_list_size
    /\ rom_addr \in Code
    /\ done \in BOOLEAN /\ disturbed \in BOOLEAN
    /\ last_discrepancy \in 0 .. Width /\ discrepancy \in 0 .. Width
    /\ rom_bit_index \in 1 .. Width + 1
    /\ changes \in 0 .. MaxChanges /\ noise \in 0 .. MaxNoise

(* A listed address is the code of a device that was on the bus, whoever    *)
(* came or went meanwhile and although one bit was misread: a code put      *)
(* together from two devices, or from a device and a misread bit, has no    *)
(* valid CRC (pico_1wire.c:208-231, 410-425).                               *)
Listed == {addr_list[n] : n \in 1 .. Len(addr_list)}
ListedIsReal == Listed \subseteq seen

Before(c, d) == \E b \in Bit : c[b] < d[b] /\ \A j \in 1 .. b - 1 : c[j] = d[j]

(* On a bus that nothing disturbs the search lists devices once and in the  *)
(* order of their codes, the bit sent first being the most significant, and *)
(* passes none over: what lies below a listed device is listed.  When it    *)
(* returns it has listed all and says 0, or there is none and it says 1, or *)
(* the list is too short and it says 2 (pico_1wire.c:215-233, 389-430).     *)
Complete ==
    ~disturbed =>
      /\ \A m, n \in 1 .. Len(addr_list) : m < n => Before(addr_list[m], addr_list[n])
      /\ \A d \in present, c \in Listed : Before(d, c) => d \in Listed
      /\ pc = "returned" =>
           /\ result = 0 => Listed = present /\ present # {}
           /\ result = 1 => present = {}
           /\ result = 2 => /\ Len(addr_list) = addr_list_size
                            /\ Cardinality(present) > addr_list_size

(* The search returns, although what it finds may change while it runs      *)
(* (pico_1wire.c:409).                                                      *)
SearchReturns == (pc \in {"next", "bit"}) ~> (pc = "returned")
=============================================================================
