-------------------------------- MODULE Host --------------------------------
(***************************************************************************)
(* The host programs between the board and their clients: whichever of     *)
(* them runs, together with the board that sends, the serial port that     *)
(* fails and the clients that come, ask and leave.                         *)
(***************************************************************************)
EXTENDS HostBridge, HostDecoder

vars == <<program, sides, bvars, dvars>>

Init == SidesInit /\ BridgeInit /\ DecoderInit

(* Whether the process that serves this client runs *)
Served(c) == IF program = "decode" THEN tpc[PortOf[c]] # "ended" ELSE pc # "ended"

Decode(A) == program = "decode" /\ A /\ UNCHANGED dvars
StEp(A) == program # "decode" /\ A /\ UNCHANGED bvars
Around(A) == A /\ UNCHANGED <<bvars, dvars>>

Next ==
    \/ Decode(TakeCommand) \/ Decode(Framing) \/ Decode(PutItem)
    \/ \E p \in Ports :
         \/ Decode(Select(p)) \/ Decode(Accept(p))
         \/ Decode(Recv(p)) \/ Decode(RecvFails(p)) \/ Decode(PutCommands(p))
         \/ Decode(GetItem(p)) \/ Decode(Send(p))
    \/ Decode(MainEnds)
    \/ StEp(Start) \/ StEp(StFraming) \/ StEp(EpFraming)
    \/ StEp(AppendItem) \/ StEp(Raises)
    \/ StEp(SkipPort) \/ StEp(Poll) \/ StEp(AcceptOne) \/ StEp(RecvRaises)
    \/ StEp(StRecv) \/ StEp(StSend)
    \/ StEp(EpHangUp) \/ StEp(EpRecvSend) \/ StEp(EpReturn)
    \/ StEp(WriteCommands)
    \/ Around(BoardSends) \/ Around(ReadFails) \/ Around(PicoEnds)
    \/ \E c \in Clients :
         Served(c) /\ (Around(Connect(c)) \/ Around(SendCommand(c)) \/ Around(Leave(c)))

(* The processes of decode.py run; nothing else has to happen, its end *)
(* included                                                            *)
Spec ==
    /\ Init /\ [][Next]_vars
    /\ WF_vars(Decode(Picoio)) /\ \A p \in Ports : WF_vars(Decode(Tcpio(p)))

-----------------------------------------------------------------------------
Command == Clients \X (1 .. MaxLoad)
Chunk == Seq(Command)
Item == [from : 0 .. MaxLoad, row : 0 .. Max({Rows, MaxPwm})]
Held(p) == qd[p] \o qs[p] \o outdata[p]

(* Every variable of the programs keeps its range: each queue its bound,  *)
(* no length beyond what a packet may have, connections only of clients   *)
(* of the port.                                                           *)
TypeOK ==
    /\ \A b \in ToSet(Rest) : b.of \in 1 .. Len(sent)
    /\ pc \in {"top", "first", "kind", "length", "data", "put", "sleep", "ended",
               "serve", "handle", "write"}
    /\ pc = "data" => length \in 1 .. Longest
    /\ port \in Ports /\ ToSet(todo) \subseteq Item /\ (pc = "put" <=> todo # <<>>)
    /\ Len(qin) <= InSize /\ ToSet(qin) \subseteq Chunk
    /\ \A p \in Ports :
         /\ Len(qs[p]) <= OutSize[p] /\ ToSet(Held(p)) \subseteq Item
         /\ tpc[p] \in {"select", "handle", "put", "get", "send", "ended"}
         /\ readable[p] \subseteq OfPort(p) \cup {Server}
         /\ writable[p] \subseteq OfPort(p) /\ outputs[p] \subseteq OfPort(p)
         /\ tpc[p] = "put" => data[p] \notin {Unbound, <<>>}
         /\ data[p] = Unbound \/ data[p] \in Chunk
    /\ events \subseteq OfPort(port) \cup {Server} /\ able \subseteq OfPort(port)
    /\ ending \subseteq events /\ (events \cup able # {} => pc = "handle")
    /\ indata \in Chunk /\ (received = Unbound \/ received \in Chunk)
    /\ broken => program = "st"

(* Unless a read was cut short, a length refused or the port opened again, *)
(* the program looks for the start of a packet exactly where the board's   *)
(* next packet starts (decode.py:72-133, ep-decode.py:107-162).            *)
InStep ==
    ~slipped /\ pc \in {"top", "first"} /\ Rest # <<>> => Rest[1].first

(* A byte behind the first looks like the start of a packet *)
Dirty == \E n \in 1 .. Len(sent) : SO \in ToSet(Tail(Values(sent[n])))

(* However a packet was lost, the one after it is found: its first byte is *)
(* never read as anything but a first byte, or thrown away with a payload  *)
(* (decode.py:73-133, ep-decode.py:108-162).  Only a length cut in two, or *)
(* a payload or a length that holds an SO, can hide it.                    *)
HeadersFound ==
    [][~torn' /\ ~Dirty /\ pc \in {"kind", "length", "data"} /\ pc' # "sleep"
         => \A k \in 1 .. Len(Rest) - Len(Rest') : ~Rest[k].first]_vars

(* A picture or a duty cycle that is relayed is one the board sent: its    *)
(* bytes are those of one packet, all of them and in order                 *)
(* (decode.py:78-132, ep-decode.py:111-164).                               *)
DecodedWasSent ==
    ~torn /\ ~Dirty =>
        \A p \in {"oled", "pwm"} : \A i \in ToSet(Held(p)) : i.from # 0 /\ sent[i.from].kind = p

(* The places of a command: among those that wait, in the chunks of the    *)
(* queue, and in what a process of decode.py has taken and not put yet     *)
At(x, s) == {k \in 1 .. Len(s) : s[k] = x}
Copies(x, s) == Cardinality(At(x, s))
Slots(x, q) == UNION {{i} \X At(x, q[i]) : i \in 1 .. Len(q)}
Hand(p) == IF tpc[p] = "put" THEN data[p] ELSE <<>>
Everywhere(x) ==
    Copies(x, inbox[x[1]]) + Copies(x, indata) + Copies(x, written) + Cardinality(Slots(x, qin))
        + Copies(x, Hand("raw")) + Copies(x, Hand("oled")) + Copies(x, Hand("pwm"))

(* No command is written twice; once more at most for each connection that *)
(* was reset, because recv raises there and the data before is put again   *)
(* (decode.py:67-68, 188-193, st-decode.py:199-204, ep-decode.py:235-240). *)
CommandsOnce ==
    \A c \in Clients : \A n \in 1 .. asked[c] : Everywhere(<<c, n>>) <= 1 + resets

(* A client's commands are written in the order it sent them, and if no    *)
(* connection was reset, each once: through its port's process and the     *)
(* queue all three share (decode.py:67-68, 188-193), or in one call after  *)
(* the other (st-decode.py:199-204, ep-decode.py:235-240).                 *)
CommandsInOrder ==
    resets = 0 =>
        \A k \in 1 .. Len(written) : \A j \in 1 .. k - 1 :
            written[j][1] = written[k][1] => written[j][2] < written[k][2]

(* Each client receives what was decoded for its port in order and at most *)
(* once, and what waits is bounded: by the queue and the item being sent   *)
(* (decode.py:120-138, 202-215), or by one packet, because every packet is *)
(* followed by a turn of its port; only the text of ep-decode.py gathers   *)
(* (st-decode.py:148-150, ep-decode.py:172-180).                           *)
Waiting(c) ==
    IF program # "decode" /\ pc = "handle" /\ port = PortOf[c] /\ c \notin able THEN <<>>
    ELSE Held(PortOf[c])
MayWait(p) ==
    IF program = "decode" THEN OutSize[p] + 1
    ELSE IF p = "raw" THEN 1 ELSE Max({Rows, MaxPwm})
Gathers(p) == program = "ep" /\ p = "raw"
ToClients == INSTANCE Relay WITH
    limited <- {c \in Clients : ~Gathers(PortOf[c])},
    capacity <- [c \in Clients |-> MayWait(PortOf[c])],
    pending <- [c \in Clients |-> Waiting(c)]
RelaysInOrder == ToClients!Spec

(* Every command is written to the board, or lost by a failed write, while *)
(* decode.py runs (they are finitely many here): whatever the board sends  *)
(* and however slow the clients are, no process waits for ever for another *)
(* (decode.py:66-70, 121, 193).                                            *)
Arrived ==
    program # "decode" \/ pc = "ended" \/
    \A c \in Clients : \A n \in 1 .. asked[c] :
        <<c, n>> \in ToSet(written) \cup lost \/ ~Served(c)
CommandsReachBoard == []<>Arrived
=============================================================================
