----------------------------- MODULE HostDecoder ----------------------------
(***************************************************************************)
(* st-decode.py and ep-decode.py: one process that reads a packet and then *)
(* serves the three ports in turn, without waiting.  There are no queues:  *)
(* what was decoded for a port is sent when its turn comes, and what its   *)
(* clients ask for is written after the third.                             *)
(***************************************************************************)
EXTENDS HostSides

VARIABLES
    outdata,             \* per port, what was decoded for it
    broken,              \* st: a picture has taken the place of the dictionary outdata
    indata,              \* commands gathered in this round
    events, ending,      \* tcpio_loop: sockets still to look at; those epoll calls hung up
    able,                \* connections the data can be sent to
    received             \* its local indata

dvars == <<outdata, broken, indata, events, ending, able, received>>
call == <<events, ending, able, received>>

DecoderInit ==
    /\ outdata = [p \in Ports |-> <<>>] /\ broken = FALSE /\ indata = <<>>
    /\ events = {} /\ ending = {} /\ able = {} /\ received = Unbound

-----------------------------------------------------------------------------
(* The part of the loop that reads.  qin is not defined in these programs, *)
(* and the NameError is ignored.  A silent board raises at d[0].           *)
Start ==
    /\ pc = "top"
    /\ slipped' = (slipped /\ Rest # <<>>)
    /\ length' = 0 /\ port' = "raw"
    /\ Goto("first")
    /\ UNCHANGED <<board, readfifo, todo, torn, outputs, clients, written, lost, load, dvars>>

StFraming ==
    /\ program = "st"
    /\ \/ ReadFirst("sleep")
       \/ ReadKind("top", "serve")
       \/ ReadLength
       \/ ReadData("sleep")
       \/ Reopen
    /\ broken' = (broken \/ (pc = "data" /\ pc' = "sleep"))
    /\ UNCHANGED <<outdata, indata, call>>

EpFraming ==
    /\ program = "ep"
    /\ \/ ReadFirst("sleep")
       \/ ReadKind("serve", "serve")
       \/ ReadLength
       \/ ReadData("put")
       \/ Reopen
    /\ UNCHANGED dvars

(* outdata[port] += ..., for each item *)
AppendItem ==
    /\ pc = "put" /\ ~broken
    /\ outdata' = [outdata EXCEPT ![port] = Append(@, Head(todo))]
    /\ todo' = Tail(todo)
    /\ IF Len(todo) = 1 THEN Goto("serve") /\ port' = "raw" ELSE UNCHANGED <<pc, port>>
    /\ UNCHANGED <<board, stream, outputs, clients, written, lost, load, broken, indata, call>>

(* A bytearray has no element 'raw' *)
Raises ==
    /\ pc \in {"put", "serve"} /\ broken
    /\ todo' = <<>> /\ Goto("sleep")
    /\ UNCHANGED <<board, stream, port, outputs, clients, written, lost, load, dvars>>

-----------------------------------------------------------------------------
(* tcpio_loop *)
Quiet == <<board, stream, todo, written, load, broken>>
NextPort == [raw |-> "oled", oled |-> "pwm", pwm |-> "raw"]

(* After the third port come the commands *)
Onwards ==
    /\ port' = NextPort[port]
    /\ Goto(IF port # "pwm" THEN "serve" ELSE IF indata = <<>> THEN "top" ELSE "write")

(* What was to be sent is forgotten, whether it was or not *)
Return ==
    /\ outdata' = [outdata EXCEPT ![port] = <<>>]
    /\ events' = {} /\ ending' = {} /\ able' = {} /\ received' = Unbound
    /\ Onwards

(* ep: text, and a port that has nothing, wait for their 5 ms to be over *)
SkipPort ==
    /\ pc = "serve" /\ program = "ep"
    /\ port = "raw" \/ outdata[port] = <<>>
    /\ Onwards
    /\ UNCHANGED <<Quiet, lost, outputs, clients, outdata, indata, call>>

(* select with a timeout of 0, or epoll's poll(0), which tells of connections *)
(* to write to as well.  A connection that is half closed is not hung up.    *)
Poll ==
    /\ pc = "serve" /\ ~broken
    /\ LET reading == {c \in outputs[port] : link[c] # "open" \/ inbox[c] # <<>>}
                      \cup (IF \E c \in OfPort(port) : link[c] = "waiting" THEN {Server} ELSE {})
           sending == IF outdata[port] = <<>> THEN {} ELSE outputs[port]
       IN  IF reading \cup sending = {}
           THEN Return /\ UNCHANGED indata
           ELSE /\ events' = reading /\ able' = sending
                /\ ending' = {c \in reading \ {Server} : program = "ep" /\ link[c] = "reset"}
                /\ Goto("handle")
                /\ UNCHANGED <<port, outdata, indata, received>>
    /\ UNCHANGED <<Quiet, outputs, clients, lost>>

AcceptOne ==
    /\ pc = "handle" /\ Server \in events
    /\ \E c \in OfPort(port) :
         /\ link[c] = "waiting"
         /\ link' = [link EXCEPT ![c] = "open"]
         /\ outputs' = [outputs EXCEPT ![port] = @ \cup {c}]
    /\ events' = events \ {Server}
    /\ UNCHANGED <<Quiet, pc, port, outdata, indata, inbox, got, asked, resets, ending, able, received, lost>>

(* What the local holds after recv, which raises if the connection was reset *)
Received(c) == IF link[c] = "reset" /\ inbox[c] = <<>> THEN received ELSE inbox[c]
Closes(c) ==
    /\ link' = [link EXCEPT ![c] = "closed"]
    /\ outputs' = [outputs EXCEPT ![port] = @ \ {c}]
Takes(c) ==
    /\ received' = Received(c)
    /\ indata' = indata \o Received(c)
    /\ inbox' = [inbox EXCEPT ![c] = <<>>]

(* recv raises, and there was none before it in this call: so does the test *)
(* of the local, and the call is over                                       *)
RecvRaises ==
    /\ pc = "handle"
    /\ \E c \in (events \ ending) \ {Server} :
         /\ Received(c) = Unbound
         /\ link' = IF program = "st" THEN [link EXCEPT ![c] = "eof"] ELSE link
    /\ Return
    /\ UNCHANGED <<Quiet, outputs, indata, inbox, got, asked, resets, lost>>

StRecv ==
    /\ pc = "handle" /\ program = "st"
    /\ \E c \in events \ {Server} :
         /\ Received(c) # Unbound
         /\ Takes(c)
         /\ IF Received(c) = <<>> THEN Closes(c)
            ELSE /\ link' = IF inbox[c] = <<>> THEN [link EXCEPT ![c] = "eof"] ELSE link
                 /\ UNCHANGED outputs
         /\ events' = events \ {c}
    /\ UNCHANGED <<Quiet, pc, port, outdata, got, asked, resets, ending, able, lost>>

(* A send may take a part of the data, or none *)
StSend ==
    /\ pc = "handle" /\ program = "st" /\ events = {}
    /\ \E part \in [{c \in able \cap outputs[port] : link[c] = "open"} -> 0 .. Len(outdata[port])] :
         got' = [c \in Clients |-> IF c \in DOMAIN part THEN got[c] \o SubSeq(outdata[port], 1, part[c])
                                   ELSE got[c]]
    /\ Return
    /\ UNCHANGED <<Quiet, outputs, indata, link, inbox, asked, resets, lost>>

EpHangUp ==
    /\ pc = "handle"
    /\ \E c \in ending :
         /\ Closes(c)
         /\ lost' = lost \cup ToSet(inbox[c])
         /\ inbox' = [inbox EXCEPT ![c] = <<>>]
         /\ events' = events \ {c} /\ ending' = ending \ {c} /\ able' = able \ {c}
    /\ UNCHANGED <<Quiet, pc, port, outdata, indata, got, asked, resets, received>>

(* Reads, if there was something to read, and sends; a client that has left *)
(* may reset the connection then                                           *)
EpRecvSend ==
    /\ pc = "handle" /\ program = "ep"
    /\ \E c \in ((events \cup able) \ ending) \ {Server} :
         /\ \/ c \notin events /\ UNCHANGED <<indata, inbox, received>>
            \/ c \in events /\ Received(c) # Unbound /\ Takes(c)
         /\ \/ /\ c \in able /\ link[c] = "open"
               /\ \E part \in 0 .. Len(outdata[port]) :
                    got' = [got EXCEPT ![c] = @ \o SubSeq(outdata[port], 1, part)]
               /\ UNCHANGED <<link, resets>>
            \/ /\ c \in able /\ link[c] = "eof"
               /\ link' = [link EXCEPT ![c] = "reset"] /\ resets' = resets + 1
               /\ UNCHANGED got
            \/ ~(c \in able /\ link[c] = "open") /\ UNCHANGED <<got, link, resets>>
         /\ events' = events \ {c} /\ able' = able \ {c}
    /\ UNCHANGED <<Quiet, pc, port, outputs, outdata, asked, ending, lost>>

EpReturn ==
    /\ pc = "handle" /\ program = "ep" /\ events \cup able = {}
    /\ Return
    /\ UNCHANGED <<Quiet, outputs, clients, indata, lost>>

(* if (indata): ser.write(indata) *)
WriteCommands ==
    /\ pc = "write"
    /\ \/ written' = written \o indata /\ Goto("top") /\ UNCHANGED <<lost, load>>
       \/ /\ Counted
          /\ lost' = lost \cup ToSet(indata)
          /\ Goto("sleep")
          /\ UNCHANGED written
    /\ indata' = <<>>
    /\ UNCHANGED <<board, stream, port, todo, outputs, clients, outdata, broken, call>>
=============================================================================
