------------------------------ MODULE HostSides ------------------------------
(***************************************************************************)
(* What the three programs for the host have in common: decode.py,         *)
(* st-decode.py and ep-decode.py.  One of them runs at a time (`program'). *)
(* It reads the board's serial port and takes its stream apart, which is   *)
(* modelled here, and serves clients on three TCP ports, which HostBridge  *)
(* and HostDecoder model.  The board and the clients are here too.         *)
(*                                                                         *)
(* A byte of the stream is [v, of, first]: its value, the packet it is of  *)
(* and whether it is the packet's first.  Values are the ones the framing  *)
(* compares; a picture's payload has no runs here (the module OledRle has  *)
(* them), so that it decodes to as many bytes as it has.  Silence, pieces  *)
(* of any size and timeouts are the choice of how many bytes a read gets.  *)
(***************************************************************************)
EXTENDS Naturals, Sequences, SequencesExt, FiniteSets, FiniteSetsExt

CONSTANTS
    Programs,           \* those of "decode", "st" and "ep" that are looked at
    PortOf,             \* the ports clients connect to, one after the other
    MaxOled, MaxPwm,    \* 1024 and 8: the longest payloads accepted
    FrameSize, Rows,    \* 1024 and 64: bytes and rows of a picture
    Texts, PwmData, OledData,  \* bound: what the board sends
    Server, Unbound,    \* the listening socket; a local of Python before it is assigned
    MaxLoad,            \* bound: packets, connections, commands and faults together
    MaxAhead            \* bound: bytes myread has in stock

Ports == {"raw", "oled", "pwm"}
Clients == DOMAIN PortOf

SO == 14          \* 0x0e starts a packet
PICTURE == 65     \* 0x41
DUTY == 80        \* 0x50

ASSUME HostAssumption ==
    /\ Programs \subseteq {"decode", "st", "ep"} /\ PortOf \in Seq(Ports)
    /\ MaxOled \in Nat /\ MaxPwm \in Nat /\ FrameSize \in Nat /\ Rows \in Nat \ {0}
    /\ MaxLoad \in Nat /\ MaxAhead \in Nat
    /\ Texts \subseteq Nat \ {SO} /\ PwmData \subseteq Seq(Nat) /\ OledData \subseteq Seq(Nat)

(* No bytes received are like a local that has none *)
ASSUME UnboundAssumption == Unbound \notin Seq(Clients \X Nat)

VARIABLES
    program,             \* the one that runs
    sent, coming,        \* the board: its packets; bytes not read from the port yet
    readfifo, pc, length,  \* myread's buffer, the place, bytes of payload expected
    port, todo,          \* the port that is dealt with, and items for it
    outputs,             \* per port, the connections
    link, inbox, got,    \* each client: connection, unread commands, items received
    asked, written, lost,  \* history: commands each client sent; those written to the board,
                           \* those that were lost
    resets,              \* history: connections that were reset
    slipped, torn,       \* history: see below
    load                 \* packets, connections, commands and faults so far (bound)

board == <<program, sent, coming>>
stream == <<readfifo, length, slipped, torn>>
serial == <<stream, pc, port, todo>>
clients == <<link, inbox, got, asked, resets>>
sides == <<board, serial, outputs, clients, written, lost, load>>

SidesInit ==
    /\ program \in Programs
    /\ sent = <<>> /\ coming = <<>>
    /\ readfifo = <<>> /\ pc = "top" /\ length = 0 /\ port = "raw" /\ todo = <<>>
    /\ slipped = FALSE /\ torn = FALSE
    /\ outputs = [p \in Ports |-> {}]
    /\ link = [c \in Clients |-> "none"] /\ inbox = [c \in Clients |-> <<>>]
    /\ got = [c \in Clients |-> <<>>] /\ asked = [c \in Clients |-> 0]
    /\ written = <<>> /\ lost = {} /\ resets = 0 /\ load = 0

Counted == load < MaxLoad /\ load' = load + 1

-----------------------------------------------------------------------------
(* The board.  A byte of text is a packet of its own. *)
Packet == {[kind |-> "raw", data |-> <<b>>] : b \in Texts} \cup
          {[kind |-> "pwm", data |-> d] : d \in PwmData} \cup
          {[kind |-> "oled", data |-> d] : d \in OledData}

Values(packet) ==
    CASE packet.kind = "raw" -> packet.data
      [] packet.kind = "pwm" -> <<SO, DUTY, Len(packet.data)>> \o packet.data
      [] packet.kind = "oled" -> <<SO, PICTURE, Len(packet.data) % 256, Len(packet.data) \div 256>>
                                 \o packet.data

Bytes(n, values) == [k \in 1 .. Len(values) |-> [v |-> values[k], of |-> n, first |-> k = 1]]

BoardSends ==
    /\ Counted /\ pc # "ended"
    /\ \E packet \in Packet :
         /\ sent' = Append(sent, packet)
         /\ coming' = coming \o Bytes(Len(sent) + 1, Values(packet))
    /\ UNCHANGED <<program, serial, outputs, clients, written, lost>>

-----------------------------------------------------------------------------
(* Taking the stream apart.  History: `slipped', a packet's end may have    *)
(* been missed; `torn', a field or buffer was cut and joined to what came   *)
(* later.                                                                   *)
Rest == readfifo \o coming
Goto(label) == pc' = label
Is(s, v) == s # <<>> /\ s[1].v = v

(* myread(ser, n), when k bytes have come before its timeout: what there is *)
(* of the n bytes; the pops of ep-decode.py lose all that is short of n     *)
Arrivals(n) == {k \in 0 .. Len(coming) : Len(readfifo) + k <= n + MaxAhead}
Taken(k) == readfifo \o SubSeq(coming, 1, k)
EpRead(s, n) == IF n <= Len(s) THEN SubSeq(s, 1, n) ELSE <<>>
Read(k, n) ==
    IF program = "ep" THEN EpRead(Taken(k), n)
    ELSE SubSeq(Taken(k), 1, IF n < Len(Taken(k)) THEN n ELSE Len(Taken(k)))

(* Mutant of MyRead: what is read ahead is thrown away *)
MyReadOnly(k, n) ==
    /\ readfifo' = <<>>
    /\ coming' = SubSeq(coming, k + 1, Len(coming))
    /\ UNCHANGED <<program, sent, outputs, clients, written, lost, load>>

MyRead(k, n) ==
    /\ readfifo' = SubSeq(Taken(k), n + 1, Len(Taken(k)))
    /\ coming' = SubSeq(coming, k + 1, Len(coming))
    /\ UNCHANGED <<program, sent, outputs, clients, written, lost, load>>

(* What starts no packet is text; an empty read goes on at `silent' *)
ReadFirst(silent) ==
    /\ pc = "first"
    /\ \E k \in Arrivals(1) :
         /\ MyRead(k, 1)
         /\ LET d == Read(k, 1) IN
            \/ d = <<>> /\ Goto(silent) /\ UNCHANGED <<port, todo>>
            \/ Is(d, SO) /\ Goto("kind") /\ UNCHANGED <<port, todo>>
            \/ /\ d # <<>> /\ ~Is(d, SO)
               /\ Goto("put") /\ port' = "raw"
               /\ todo' = <<[from |-> d[1].of, row |-> 0]>>
    /\ UNCHANGED <<length, slipped, torn>>

(* An empty read goes on at `silent', a kind nobody knows at `other' *)
ReadKind(silent, other) ==
    /\ pc = "kind"
    /\ \E k \in Arrivals(1) :
         /\ MyRead(k, 1)
         /\ LET e == Read(k, 1) IN
            \/ e = <<>> /\ Goto(silent) /\ UNCHANGED port
            \/ Is(e, PICTURE) /\ Goto("length") /\ port' = "oled"
            \/ Is(e, DUTY) /\ Goto("length") /\ port' = "pwm"
            \/ e # <<>> /\ ~Is(e, PICTURE) /\ ~Is(e, DUTY) /\ Goto(other) /\ UNCHANGED port
         /\ slipped' = (slipped \/ Taken(k) = <<>>)
    /\ UNCHANGED <<length, todo, torn>>

(* int.from_bytes(..., 'little') of as many bytes as there are *)
FromBytes(s) == (IF Len(s) >= 1 THEN s[1].v ELSE 0) + (IF Len(s) = 2 THEN 256 * s[2].v ELSE 0)
(* Mutant of Size: a byte for every length *)
SizeOne == 1

Size == IF port = "oled" THEN 2 ELSE 1

Longest == IF port = "oled" THEN MaxOled ELSE MaxPwm

ReadLength ==
    /\ pc = "length"
    /\ \E k \in Arrivals(Size) :
         LET field == Read(k, Size) IN
         /\ MyRead(k, Size)
         /\ length' = FromBytes(field)
         /\ Goto(IF length' \in 1 .. Longest THEN "data" ELSE "top")
         /\ slipped' = (slipped \/ Len(field) < Size \/ length' > Longest)
         /\ torn' = (torn \/ Len(field) \in 1 .. Size - 1)
    /\ UNCHANGED <<port, todo>>

(* History: the packet whose payload these bytes are, or 0 *)
PacketOf(s) ==
    IF \A b \in ToSet(s) : b.of = s[1].of
    THEN IF sent[s[1].of].data = [k \in 1 .. Len(s) |-> s[k].v] THEN s[1].of ELSE 0
    ELSE 0

(* The rows of a picture, or one line for each duty cycle *)
Items(s) == [k \in 1 .. (IF port = "oled" THEN Rows ELSE Len(s)) |-> [from |-> PacketOf(s), row |-> k]]

(* Mutant of ReadData: only an empty payload is refused *)
ReadDataShort(picture) ==
    /\ pc = "data"
    /\ \E k \in Arrivals(length) :
         LET payload == Read(k, length) IN
         /\ MyRead(k, length)
         /\ slipped' = (slipped \/ Len(payload) < length)
         /\ IF payload = <<>> THEN Goto("top") /\ UNCHANGED todo
            ELSE Goto("put") /\ todo' = Items(payload)
    /\ length' = 0
    /\ UNCHANGED <<port, torn>>

(* A picture with bytes missing raises where its rows are made, any other  *)
(* goes on at `picture'                                                    *)
ReadData(picture) ==
    /\ pc = "data"
    /\ \E k \in Arrivals(length) :
         LET payload == Read(k, length) IN
         /\ MyRead(k, length)
         /\ slipped' = (slipped \/ Len(payload) < length)
         /\ \/ Len(payload) < length /\ Goto("top") /\ UNCHANGED todo
            \/ /\ Len(payload) = length /\ port = "oled" /\ length < FrameSize
               /\ Goto("sleep") /\ UNCHANGED todo
            \/ /\ Len(payload) = length /\ port = "oled" /\ length >= FrameSize
               /\ Goto(picture) /\ todo' = IF picture = "put" THEN Items(payload) ELSE todo
            \/ /\ Len(payload) = length /\ port = "pwm"
               /\ Goto("put") /\ todo' = Items(payload)
    /\ length' = 0
    /\ UNCHANGED <<port, torn>>

(* The serial port fails in any read, perhaps after its first part *)
ReadFails ==
    /\ pc \in {"first", "kind", "length", "data"}
    /\ Counted
    /\ \E k \in Arrivals(Size) :
         readfifo' = Taken(k) /\ coming' = SubSeq(coming, k + 1, Len(coming))
    /\ slipped' = (slipped \/ pc # "first")
    /\ length' = 0
    /\ Goto("sleep")
    /\ UNCHANGED <<program, sent, port, todo, torn, outputs, clients, written, lost>>

(* Five seconds later the port is opened again: what came meanwhile is gone, *)
(* what is in readfifo is not                                               *)
Reopen ==
    /\ pc = "sleep"
    /\ \E k \in 0 .. Len(coming) :
         /\ coming' = SubSeq(coming, k + 1, Len(coming))
         /\ slipped' = (slipped \/ k > 0)
         /\ torn' = (torn \/ (k > 0 /\ readfifo # <<>>))
    /\ Goto("top")
    /\ UNCHANGED <<program, sent, readfifo, length, port, todo, outputs, clients, written, lost, load>>

(* After 65 seconds; ep-decode.py does not look at the time *)
PicoEnds ==
    /\ pc \in {"top", "sleep"} /\ program # "ep"
    /\ Goto("ended")
    /\ UNCHANGED <<board, stream, port, todo, outputs, clients, written, lost, load>>

-----------------------------------------------------------------------------
(* Programs that connect to a port while it is served, once each and in turn *)
OfPort(p) == {c \in Clients : PortOf[c] = p}
Client == <<board, serial, outputs, got, written, lost>>

Connect(c) ==
    /\ link[c] = "none" /\ (c > 1 => link[c - 1] # "none")
    /\ Counted
    /\ link' = [link EXCEPT ![c] = "waiting"]
    /\ UNCHANGED <<Client, inbox, asked, resets>>

SendCommand(c) ==
    /\ link[c] \in {"waiting", "open"}
    /\ Counted
    /\ asked' = [asked EXCEPT ![c] = @ + 1]
    /\ inbox' = [inbox EXCEPT ![c] = Append(@, <<c, asked'[c]>>)]
    /\ UNCHANGED <<Client, link, resets>>

Leave(c) ==
    /\ link[c] = "open"
    /\ \/ link' = [link EXCEPT ![c] = "eof"] /\ UNCHANGED resets
       \/ link' = [link EXCEPT ![c] = "reset"] /\ resets' = resets + 1
    /\ UNCHANGED <<Client, inbox, asked, load>>
=============================================================================
