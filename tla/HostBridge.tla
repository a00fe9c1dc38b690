----------------------------- MODULE HostBridge -----------------------------
(***************************************************************************)
(* decode.py: one process takes the stream apart (picoio_real), and one    *)
(* process for each TCP port serves clients (tcpio_real).  They share      *)
(* bounded queues: qs from the board to each port, qin from all ports to   *)
(* the board.                                                              *)
(***************************************************************************)
EXTENDS HostSides

CONSTANTS InSize, OutSize    \* 16; 32, 2 and 4: how many items qin and each of qs hold

ASSUME BridgeAssumption == InSize \in Nat \ {0} /\ OutSize \in [Ports -> Nat \ {0}]

VARIABLES
    qin, qs,             \* the queues
    tpc, readable, writable, data, qd   \* the locals of each tcpio

tcp == <<tpc, readable, writable, data, qd>>
bvars == <<qin, qs, tcp>>

BridgeInit ==
    /\ qin = <<>> /\ qs = [p \in Ports |-> <<>>]
    /\ tpc = [p \in Ports |-> "select"]
    /\ readable = [p \in Ports |-> {}] /\ writable = [p \in Ports |-> {}]
    /\ data = [p \in Ports |-> Unbound] /\ qd = [p \in Ports |-> <<>>]

-----------------------------------------------------------------------------
(* picoio_real *)
Full(p) == Len(qs[p]) >= OutSize[p]

(* Mutant of TakeCommand: the command stays in the queue *)
TakeCommandPeeks ==
    /\ pc = "top"
    /\ written' = IF qin = <<>> THEN written ELSE written \o Head(qin)
    /\ slipped' = (slipped /\ Rest # <<>>)
    /\ length' = 0 /\ port' = "raw"
    /\ Goto("first")
    /\ UNCHANGED <<board, readfifo, todo, torn, outputs, clients, bvars, lost, load>>

(* qd = qin.get_nowait(); ser.write(qd): an exception loses what was taken *)
TakeCommand ==
    /\ pc = "top"
    /\ \/ qin = <<>> /\ UNCHANGED <<qin, written, lost, load>>
       \/ /\ qin # <<>>
          /\ qin' = Tail(qin)
          /\ \/ written' = written \o Head(qin) /\ UNCHANGED <<lost, load>>
             \/ /\ Counted
                /\ lost' = lost \cup ToSet(Head(qin))
                /\ UNCHANGED written
    /\ slipped' = (slipped /\ Rest # <<>>)
    /\ length' = 0 /\ port' = "raw"
    /\ Goto("first")
    /\ UNCHANGED <<board, readfifo, todo, torn, outputs, clients, qs, tcp>>

(* Mutant of PutItem: it waits for room *)
PutItemWaits ==
    /\ pc = "put" /\ ~Full(port)
    /\ qs' = [qs EXCEPT ![port] = Append(@, Head(todo))]
    /\ todo' = Tail(todo)
    /\ Goto(IF Len(todo) = 1 THEN "top" ELSE "put")
    /\ UNCHANGED <<board, stream, port, outputs, clients, written, lost, load, qin, tcp>>
(* Mutant of PutItem: a full queue loses its oldest item *)
PutItemNewest ==
    /\ pc = "put"
    /\ qs' = [qs EXCEPT ![port] = Append(IF Full(port) THEN Tail(@) ELSE @, Head(todo))]
    /\ todo' = Tail(todo)
    /\ Goto(IF Len(todo) = 1 THEN "top" ELSE "put")
    /\ UNCHANGED <<board, stream, port, outputs, clients, written, lost, load, qin, tcp>>

(* if (not qs[port].full()): qs[port].put_nowait(...), for each item *)
PutItem ==
    /\ pc = "put"
    /\ qs' = IF Full(port) THEN qs ELSE [qs EXCEPT ![port] = Append(@, Head(todo))]
    /\ todo' = Tail(todo)
    /\ Goto(IF Len(todo) = 1 THEN "top" ELSE "put")
    /\ UNCHANGED <<board, stream, port, outputs, clients, written, lost, load, qin, tcp>>

(* d[0] of an empty read raises, but is looked at only while the queue has *)
(* room.  The count of overflows is left out.                              *)
Framing ==
    /\ \/ ReadFirst(IF Full("raw") THEN "top" ELSE "sleep")
       \/ ReadKind("top", "top")
       \/ ReadLength
       \/ ReadData("put")
       \/ Reopen
    /\ UNCHANGED bvars

Picoio ==
    \/ TakeCommand
    \/ Framing
    \/ PutItem

-----------------------------------------------------------------------------
(* tcpio_real of port p.  A send reaches a client whole or not at all.     *)
Others == <<board, serial, written, lost, load, asked, resets>>
Step(p, label) == tpc' = [tpc EXCEPT ![p] = label]
Handled(p, s) ==
    /\ readable' = [readable EXCEPT ![p] = @ \ {s}]
    /\ Step(p, IF readable[p] = {s} THEN "get" ELSE "handle")

(* while(time.time()<tdur): a process that waits in select does not look *)
NextRound(p) == Step(p, "select") \/ Step(p, "ended")

(* What select says is readable: a connection with data, at its end or reset *)
Ready(p) ==
    {c \in OfPort(p) : link[c] \in {"eof", "reset"} \/ (link[c] = "open" /\ inbox[c] # <<>>)}
    \cup (IF \E c \in OfPort(p) : link[c] = "waiting" THEN {Server} ELSE {})

(* select without a timeout: it waits until there is somebody to serve *)
Select(p) ==
    /\ tpc[p] = "select"
    /\ Ready(p) # {} \/ outputs[p] # {}
    /\ readable' = [readable EXCEPT ![p] = Ready(p)]
    /\ writable' = [writable EXCEPT ![p] = outputs[p]]
    /\ Step(p, IF Ready(p) = {} THEN "get" ELSE "handle")
    /\ UNCHANGED <<Others, qin, qs, outputs, data, qd, link, inbox, got>>

Accept(p) ==
    /\ tpc[p] = "handle" /\ Server \in readable[p]
    /\ \E c \in OfPort(p) :
         /\ link[c] = "waiting"
         /\ link' = [link EXCEPT ![c] = "open"]
         /\ outputs' = [outputs EXCEPT ![p] = @ \cup {c}]
    /\ Handled(p, Server)
    /\ UNCHANGED <<Others, qin, qs, writable, data, qd, inbox, got>>

(* Mutant of Use: the end of a connection is not looked for *)
UseAlways(p, c, d) ==
    /\ data' = [data EXCEPT ![p] = d]
    /\ Step(p, "put") /\ readable' = [readable EXCEPT ![p] = @ \ {c}]
    /\ UNCHANGED outputs

(* if (data): qin.put(data), which waits for room; else: s.close() *)
Use(p, c, d) ==
    /\ data' = [data EXCEPT ![p] = d]
    /\ IF d # <<>>
       THEN /\ Step(p, "put") /\ readable' = [readable EXCEPT ![p] = @ \ {c}]
            /\ UNCHANGED outputs
       ELSE Handled(p, c) /\ outputs' = [outputs EXCEPT ![p] = @ \ {c}]

Recv(p) ==
    /\ tpc[p] = "handle"
    /\ \E c \in readable[p] \ {Server} :
         /\ link[c] # "reset" \/ inbox[c] # <<>>
         /\ Use(p, c, inbox[c])
         /\ inbox' = [inbox EXCEPT ![c] = <<>>]
         /\ link' = IF inbox[c] = <<>> THEN [link EXCEPT ![c] = "closed"] ELSE link
    /\ UNCHANGED <<Others, qin, qs, writable, qd, got>>

(* Mutant of RecvFails: an error that stays is met again *)
RecvFailsAgain(p) ==
    /\ tpc[p] = "handle"
    /\ \E c \in readable[p] \ {Server} :
         /\ link[c] = "reset" /\ inbox[c] = <<>> /\ data[p] # Unbound
         /\ Use(p, c, data[p])
    /\ UNCHANGED <<Others, qin, qs, writable, qd, link, inbox, got>>

(* recv raises, and data is what it was.  If it was never assigned, that    *)
(* raises too, and the round is over; the connection is at its end then.    *)
RecvFails(p) ==
    /\ tpc[p] = "handle"
    /\ \E c \in readable[p] \ {Server} :
         /\ link[c] = "reset" /\ inbox[c] = <<>>
         /\ link' = [link EXCEPT ![c] = IF data[p] = <<>> THEN "closed" ELSE "eof"]
         /\ IF data[p] = Unbound
            THEN /\ NextRound(p) /\ readable' = [readable EXCEPT ![p] = {}]
                 /\ UNCHANGED <<data, outputs>>
            ELSE Use(p, c, data[p])
    /\ UNCHANGED <<Others, qin, qs, writable, qd, inbox, got>>

PutCommands(p) ==
    /\ tpc[p] = "put"
    /\ Len(qin) < InSize
    /\ qin' = Append(qin, data[p])
    /\ Step(p, IF readable[p] = {} THEN "get" ELSE "handle")
    /\ UNCHANGED <<Others, qs, readable, writable, outputs, data, qd, link, inbox, got>>

(* qout.get(block=True, timeout=0.05) *)
GetItem(p) ==
    /\ tpc[p] = "get"
    /\ \/ /\ qs[p] = <<>> /\ NextRound(p)
          /\ writable' = [writable EXCEPT ![p] = {}]
          /\ UNCHANGED <<qs, qd>>
       \/ /\ qs[p] # <<>> /\ Step(p, "send")
          /\ qd' = [qd EXCEPT ![p] = <<Head(qs[p])>>]
          /\ qs' = [qs EXCEPT ![p] = Tail(@)]
          /\ UNCHANGED writable
    /\ UNCHANGED <<Others, qin, readable, outputs, data, link, inbox, got>>

Send(p) ==
    /\ tpc[p] = "send"
    /\ \E to \in SUBSET {c \in writable[p] \cap outputs[p] : link[c] = "open"} :
         got' = [c \in Clients |-> IF c \in to THEN got[c] \o qd[p] ELSE got[c]]
    /\ qd' = [qd EXCEPT ![p] = <<>>]
    /\ writable' = [writable EXCEPT ![p] = {}]
    /\ NextRound(p)
    /\ UNCHANGED <<Others, qin, qs, readable, outputs, data, link, inbox>>

Tcpio(p) ==
    \/ Select(p)
    \/ Accept(p)
    \/ Recv(p)
    \/ RecvFails(p)
    \/ PutCommands(p)
    \/ GetItem(p)
    \/ Send(p)

(* main joins picoio and ends the others *)
MainEnds ==
    /\ pc = "ended" /\ \E p \in Ports : tpc[p] # "ended"
    /\ tpc' = [p \in Ports |-> "ended"]
    /\ UNCHANGED <<Others, qin, qs, readable, writable, outputs, data, qd, link, inbox, got>>
=============================================================================
