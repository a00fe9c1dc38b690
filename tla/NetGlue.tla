------------------------------- MODULE NetGlue -------------------------------
(***************************************************************************)
(* tusb_lwip_glue.c between TinyUSB and lwIP, the main loop of core 0      *)
(* (main.c) and do_send on core 1 (misterpico.c).                          *)
(*                                                                         *)
(* Nothing here is locked.  Both cores run tud_task: core 0 in its main    *)
(* loop, either core inside linkoutput_fn while it waits to transmit.  So  *)
(* the TinyUSB callbacks, which share received_frame with service_traffic, *)
(* run on both cores and may run in the middle of service_traffic.         *)
(*                                                                         *)
(* TinyUSB's driver and lwIP are external: they are modelled from what the *)
(* glue expects of them.  The driver posts events, pops one at a time, and *)
(* receives again only after tud_network_recv_renew; ethernet_input owns   *)
(* its pbuf when it returns ERR_OK and leaves it to the caller otherwise.  *)
(***************************************************************************)
EXTENDS Naturals, Sequences, FiniteSets

CONSTANTS
    Bufs,          \* the pbufs of the pool
    NULL,          \* no pbuf
    Replies,       \* whether lwIP transmits on core 0: an answer (ARP, DHCP,
                   \* ICMP echo) or from one of its timers
    AllocMayFail,  \* whether pbuf_alloc may return NULL, or a frame be empty
    MaxInits,      \* bound: times the host sets the network interface up
    MaxUnplugs     \* bound: times the host goes away

ASSUME NetAssumption ==
    /\ NULL \notin Bufs
    /\ Replies \in BOOLEAN /\ AllocMayFail \in BOOLEAN
    /\ MaxInits \in Nat /\ MaxUnplugs \in Nat

Core == {0, 1}
Nobody == 2          \* no core

VARIABLES
    received_frame,  \* the pointer shared by the callbacks and service_traffic
    allocated,       \* the pbufs in use
    arg,             \* the pbuf service_traffic handed to ethernet_input
    pc,              \* where each core is
    cb,              \* where each core is inside tud_task, "none" outside
    fresh,           \* the pbuf recv_cb allocated on each core
    events,          \* the TinyUSB event queue
    ready,           \* tud_ready()
    armed,           \* the OUT endpoint has a receive pending
    can_xmit,        \* the driver's flag behind tud_network_can_xmit
    txbuf,           \* whose frame the driver's transmit buffer holds
    inflight,        \* whose frame the IN endpoint is sending
    inits, unplugs,  \* how often the host did so (bounds)
    replied,         \* history: core 0 has transmitted
    faults           \* history: what went wrong with a pbuf or a frame; a
                     \* packet lost counts until the endpoints are opened again

rx == <<received_frame, allocated, arg, fresh>>
tx == <<can_xmit, txbuf, inflight>>
host == <<inits, unplugs, replied>>
vars == <<rx, pc, cb, events, ready, armed, tx, host, faults>>

ServicePcs == {"task", "service", "input", "lwip", "replied", "error", "clear", "renew", "timers"}
SendPcs == {"ready", "can", "xmit", "copy", "start"}
CallbackPcs == {"task", "recv", "alloc", "store", "init", "cleanup", "forget", "open"}

-----------------------------------------------------------------------------
Init ==
    /\ received_frame = NULL /\ arg = NULL /\ allocated = {}
    /\ pc = [c \in Core |-> IF c = 0 THEN "task" ELSE "loop"]
    /\ cb = [c \in Core |-> "none"]
    /\ fresh = [c \in Core |-> NULL]
    /\ events = <<>> /\ ready = FALSE /\ armed = FALSE
    /\ can_xmit = FALSE /\ txbuf = Nobody /\ inflight = Nobody
    /\ inits = 0 /\ unplugs = 0 /\ replied = FALSE /\ faults = {}

Goto(c, label) == pc' = [pc EXCEPT ![c] = label]
Inside(c, label) == cb' = [cb EXCEPT ![c] = label]

(* pbuf_free: freeing a pbuf that is not in use is a fault *)
Free(b) ==
    /\ allocated' = allocated \ {b}
    /\ faults' = IF b \in allocated THEN faults ELSE faults \cup {"used after free"}

-----------------------------------------------------------------------------
(* tud_task on core c: take events until there are none. *)
TakeEvent(c) ==
    /\ cb[c] = "task" /\ events # <<>>
    /\ events' = Tail(events)
    /\ \/ Head(events) = "rx" /\ Inside(c, "recv") /\ UNCHANGED <<ready, armed, can_xmit, inflight>>
       \/ Head(events) = "init" /\ Inside(c, "init") /\ UNCHANGED <<ready, armed, can_xmit, inflight>>
       \/ /\ Head(events) = "tx"
          /\ can_xmit' = TRUE
          /\ UNCHANGED <<cb, ready, armed, inflight>>
       \/ /\ Head(events) = "unplug"
          /\ ready' = FALSE /\ armed' = FALSE /\ inflight' = Nobody
          /\ UNCHANGED <<cb, can_xmit>>
    /\ UNCHANGED <<rx, pc, txbuf, host, faults>>

(* Its queue is empty: tud_task returns to the main loop, which goes on     *)
(* with service_traffic, or to linkoutput_fn, which starts its loop over.   *)
LeaveTask(c) ==
    /\ cb[c] = "task" /\ events = <<>>
    /\ Inside(c, "none")
    /\ Goto(c, IF pc[c] = "task" THEN "service" ELSE "ready")
    /\ UNCHANGED <<rx, events, ready, armed, tx, host, faults>>

(* tud_network_recv_cb: a packet that is refused is renewed by the driver *)
RecvCheck(c) ==
    /\ cb[c] = "recv"
    /\ IF received_frame # NULL THEN Inside(c, "task") /\ armed' = ready
                                ELSE Inside(c, "alloc") /\ armed' = armed
    /\ UNCHANGED <<rx, pc, events, ready, tx, host, faults>>

RecvAlloc(c) ==
    /\ cb[c] = "alloc"
    /\ \E b \in Bufs \ allocated :
         /\ allocated' = allocated \cup {b}
         /\ fresh' = [fresh EXCEPT ![c] = b]
    /\ Inside(c, "store")
    /\ UNCHANGED <<received_frame, arg, pc, events, ready, armed, tx, host, faults>>

(* No pbuf, or size = 0: nothing is stored and the packet is accepted *)
RecvAllocFails(c) ==
    /\ cb[c] = "alloc"
    /\ AllocMayFail \/ Bufs \subseteq allocated
    /\ Inside(c, "task")
    /\ faults' = faults \cup {"packet lost"}
    /\ UNCHANGED <<rx, pc, events, ready, armed, tx, host>>

RecvStore(c) ==
    /\ cb[c] = "store"
    /\ received_frame' = fresh[c]
    /\ fresh' = [fresh EXCEPT ![c] = NULL]
    /\ Inside(c, "task")
    /\ UNCHANGED <<allocated, arg, pc, events, ready, armed, tx, host, faults>>

(* tud_network_init_cb *)
InitCheck(c) ==
    /\ cb[c] = "init"
    /\ Inside(c, IF received_frame # NULL THEN "cleanup" ELSE "open")
    /\ UNCHANGED <<rx, pc, events, ready, armed, tx, host, faults>>

InitCleanup(c) ==
    /\ cb[c] = "cleanup"
    /\ Free(received_frame)
    /\ Inside(c, "forget")
    /\ UNCHANGED <<received_frame, arg, fresh, pc, events, ready, armed, tx, host>>

InitForget(c) ==
    /\ cb[c] = "forget"
    /\ received_frame' = NULL
    /\ Inside(c, "open")
    /\ UNCHANGED <<allocated, arg, fresh, pc, events, ready, armed, tx, host, faults>>

(* A packet lost in the last connection holds up this one no longer *)
LossMadeGood == faults \ {"packet lost"}

(* then the driver opens its endpoints: it may transmit and it receives.    *)
(* tud_ready and tud_network_can_xmit become true within this one call of   *)
(* TinyUSB; linkoutput_fn tests them in that order and goes round otherwise. *)
InitOpen(c) ==
    /\ cb[c] = "open"
    /\ ready' = TRUE /\ can_xmit' = TRUE /\ armed' = TRUE
    /\ faults' = LossMadeGood
    /\ Inside(c, "task")
    /\ UNCHANGED <<rx, pc, events, txbuf, inflight, host>>

TudTask(c) ==
    \/ TakeEvent(c) \/ LeaveTask(c)
    \/ RecvCheck(c) \/ RecvAlloc(c) \/ RecvAllocFails(c) \/ RecvStore(c)
    \/ InitCheck(c) \/ InitCleanup(c) \/ InitForget(c) \/ InitOpen(c)

-----------------------------------------------------------------------------
(* linkoutput_fn on core c.  On core 1 do_send called it, on core 0 lwIP     *)
(* did: inside ethernet_input, which holds arg then, or from a timer.       *)
SendReturns(c) ==
    Goto(c, IF c = 1 THEN "loop" ELSE IF arg = NULL THEN "task" ELSE "replied")

SendReady(c) ==
    /\ pc[c] = "ready" /\ cb[c] = "none"
    /\ IF ready THEN Goto(c, "can") ELSE SendReturns(c)
    /\ UNCHANGED <<rx, cb, events, ready, armed, tx, host, faults>>

(* Mutants of SendCan: it waits without running tud_task; it does not wait *)
SendCanSpins(c) ==
    /\ pc[c] = "can" /\ cb[c] = "none"
    /\ Goto(c, IF can_xmit THEN "xmit" ELSE "ready")
    /\ UNCHANGED <<rx, cb, events, ready, armed, tx, host, faults>>

SendCanAlways(c) ==
    /\ pc[c] = "can" /\ cb[c] = "none"
    /\ Goto(c, "xmit")
    /\ UNCHANGED <<rx, cb, events, ready, armed, tx, host, faults>>

SendCan(c) ==
    /\ pc[c] = "can" /\ cb[c] = "none"
    /\ IF can_xmit THEN Goto(c, "xmit") /\ UNCHANGED cb
                   ELSE Inside(c, "task") /\ UNCHANGED pc
    /\ UNCHANGED <<rx, events, ready, armed, tx, host, faults>>

(* tud_network_xmit: return at once unless can_xmit; else copy the frame    *)
(* (tud_network_xmit_cb) and start the transfer.  linkoutput_fn returns     *)
(* ERR_OK after it in every case.                                           *)
SendXmit(c) ==
    /\ pc[c] = "xmit"
    /\ IF can_xmit THEN Goto(c, "copy") /\ faults' = faults
                   ELSE SendReturns(c) /\ faults' = faults \cup {"frame spoilt"}
    /\ UNCHANGED <<rx, cb, events, ready, armed, tx, host>>

SendCopy(c) ==
    /\ pc[c] = "copy"
    /\ txbuf' = c
    /\ faults' = IF inflight = Nobody THEN faults ELSE faults \cup {"frame spoilt"}
    /\ Goto(c, "start")
    /\ UNCHANGED <<rx, cb, events, ready, armed, can_xmit, inflight, host>>

SendStart(c) ==
    /\ pc[c] = "start"
    /\ can_xmit' = FALSE
    /\ IF inflight = Nobody
         THEN /\ inflight' = IF ready THEN txbuf ELSE Nobody
              /\ faults' = IF txbuf = c THEN faults ELSE faults \cup {"frame spoilt"}
         ELSE inflight' = inflight /\ faults' = faults \cup {"frame spoilt"}
    /\ SendReturns(c)
    /\ UNCHANGED <<rx, cb, events, ready, armed, txbuf, host>>

Send(c) == SendReady(c) \/ SendCan(c) \/ SendXmit(c) \/ SendCopy(c) \/ SendStart(c)

-----------------------------------------------------------------------------
(* Core 0: while (true) { tud_task(); service_traffic(); sleep_us(1); } *)
RunTask ==
    /\ pc[0] = "task" /\ cb[0] = "none"
    /\ Inside(0, "task")
    /\ UNCHANGED <<rx, pc, events, ready, armed, tx, host, faults>>

ServiceCheck ==
    /\ pc[0] = "service"
    /\ Goto(0, IF received_frame # NULL THEN "input" ELSE "timers")
    /\ UNCHANGED <<rx, cb, events, ready, armed, tx, host, faults>>

(* Mutant of ServiceInput: the endpoint is renewed before the frame is handled *)
ServiceInputRenews ==
    /\ pc[0] = "input"
    /\ arg' = received_frame
    /\ armed' = ready
    /\ faults' = IF received_frame \in allocated THEN faults ELSE faults \cup {"used after free"}
    /\ Goto(0, "lwip")
    /\ UNCHANGED <<received_frame, allocated, fresh, cb, events, ready, tx, host>>

ServiceInput ==
    /\ pc[0] = "input"
    /\ arg' = received_frame
    /\ faults' = IF received_frame \in allocated THEN faults ELSE faults \cup {"used after free"}
    /\ Goto(0, "lwip")
    /\ UNCHANGED <<received_frame, allocated, fresh, cb, events, ready, armed, tx, host>>

(* ethernet_input answers the frame: lwIP calls linkoutput_fn on this core, *)
(* once (bound: one answer to a frame).                                     *)
InputReplies ==
    /\ pc[0] = "lwip" /\ Replies /\ arg # NULL
    /\ Goto(0, "ready")
    /\ replied' = TRUE
    /\ UNCHANGED <<rx, cb, events, ready, armed, tx, inits, unplugs, faults>>

InputOk ==
    /\ pc[0] \in {"lwip", "replied"}
    /\ Free(arg)
    /\ arg' = NULL
    /\ Goto(0, "clear")
    /\ UNCHANGED <<received_frame, fresh, cb, events, ready, armed, tx, host>>

InputFails ==
    /\ pc[0] \in {"lwip", "replied"}
    /\ arg' = NULL
    /\ Goto(0, "error")
    /\ UNCHANGED <<received_frame, allocated, fresh, cb, events, ready, armed, tx, host, faults>>

(* Mutant of ServiceError: the pbuf ethernet_input refused is not freed *)
ServiceErrorIgnored ==
    /\ pc[0] = "error"
    /\ Goto(0, "clear")
    /\ UNCHANGED <<rx, cb, events, ready, armed, tx, host, faults>>

(* if (rv != ERR_OK) pbuf_free(received_frame) *)
ServiceError ==
    /\ pc[0] = "error"
    /\ Free(received_frame)
    /\ Goto(0, "clear")
    /\ UNCHANGED <<received_frame, arg, fresh, cb, events, ready, armed, tx, host>>

(* Mutant of ServiceClear: received_frame keeps its value *)
ServiceKeeps ==
    /\ pc[0] = "clear"
    /\ Goto(0, "renew")
    /\ UNCHANGED <<rx, cb, events, ready, armed, tx, host, faults>>

ServiceClear ==
    /\ pc[0] = "clear"
    /\ received_frame' = NULL
    /\ Goto(0, "renew")
    /\ UNCHANGED <<allocated, arg, fresh, cb, events, ready, armed, tx, host, faults>>

(* Mutant of ServiceRenew: the endpoint is not renewed *)
ServiceNoRenew ==
    /\ pc[0] = "renew"
    /\ Goto(0, "timers")
    /\ UNCHANGED <<rx, cb, events, ready, armed, tx, host, faults>>

ServiceRenew ==
    /\ pc[0] = "renew"
    /\ armed' = ready
    /\ Goto(0, "timers")
    /\ UNCHANGED <<rx, cb, events, ready, tx, host, faults>>

(* sys_check_timeouts, the end of service_traffic with or without a frame:  *)
(* a timer of lwIP may call linkoutput_fn (bound: once in a round).         *)
ServiceTimers ==
    /\ pc[0] = "timers"
    /\ \/ Goto(0, "task") /\ replied' = replied
       \/ Replies /\ Goto(0, "ready") /\ replied' = TRUE
    /\ UNCHANGED <<rx, cb, events, ready, armed, tx, inits, unplugs, faults>>

(* Core 1: do_send, from any of the output loops *)
DoSend ==
    /\ pc[1] = "loop"
    /\ Goto(1, "ready")
    /\ UNCHANGED <<rx, cb, events, ready, armed, tx, host, faults>>

Core0 == \/ TudTask(0) \/ Send(0)
         \/ RunTask \/ ServiceCheck \/ ServiceInput \/ InputReplies \/ InputOk
         \/ InputFails \/ ServiceError \/ ServiceClear \/ ServiceRenew
         \/ ServiceTimers

Core1 == TudTask(1) \/ Send(1) \/ DoSend

-----------------------------------------------------------------------------
(* The host.  It moves data while it is connected. *)
Connected == inits > unplugs

HostSends ==
    /\ armed /\ Connected
    /\ armed' = FALSE
    /\ events' = Append(events, "rx")
    /\ UNCHANGED <<rx, pc, cb, ready, tx, host, faults>>

HostTakes ==
    /\ inflight # Nobody /\ Connected
    /\ inflight' = Nobody
    /\ events' = Append(events, "tx")
    /\ UNCHANGED <<rx, pc, cb, ready, armed, can_xmit, txbuf, host, faults>>

(* The driver opens its endpoints once in a connection: a second init_cb    *)
(* comes after the host went away and came back, and tud_task saw it go     *)
(* (the host sets the device up through it).                                *)
HostInits ==
    /\ inits < MaxInits /\ inits = unplugs
    /\ ~ready /\ \A k \in 1 .. Len(events) : events[k] \notin {"init", "unplug"}
    /\ \A c \in Core : cb[c] \notin {"init", "cleanup", "forget", "open"}
    /\ inits' = inits + 1
    /\ events' = Append(events, "init")
    /\ UNCHANGED <<rx, pc, cb, ready, armed, tx, unplugs, replied, faults>>

HostUnplugs ==
    /\ unplugs < MaxUnplugs /\ Connected
    /\ unplugs' = unplugs + 1
    /\ events' = Append(events, "unplug")
    /\ UNCHANGED <<rx, pc, cb, ready, armed, tx, inits, replied, faults>>

Next == Core0 \/ Core1 \/ HostSends \/ HostTakes \/ HostInits \/ HostUnplugs

Spec == Init /\ [][Next]_vars

(* Both cores run, and a host that is there takes what it is sent *)
FairSpec == Spec /\ WF_vars(Core0) /\ WF_vars(Core1) /\ WF_vars(HostTakes)
-----------------------------------------------------------------------------
(* Type invariant of the glue. *)
TypeOK ==
    /\ received_frame \in Bufs \cup {NULL} /\ arg \in Bufs \cup {NULL}
    /\ allocated \subseteq Bufs
    /\ pc[0] \in ServicePcs \cup SendPcs /\ pc[1] \in SendPcs \cup {"loop"}
    /\ cb \in [Core -> CallbackPcs \cup {"none"}]
    /\ fresh \in [Core -> Bufs \cup {NULL}]
    /\ events \in Seq({"rx", "tx", "init", "unplug"})
    /\ replied \in BOOLEAN /\ ready \in BOOLEAN /\ armed \in BOOLEAN /\ can_xmit \in BOOLEAN
    /\ txbuf \in Core \cup {Nobody} /\ inflight \in Core \cup {Nobody}
    /\ inits \in 0 .. MaxInits /\ unplugs \in 0 .. MaxUnplugs
    /\ faults \subseteq {"used after free", "packet lost", "frame spoilt"}

(* Until the host sets the interface up a second time: that takes pbufs     *)
(* from under core 0, see CleanupTakesLeftovers                             *)
FirstConnection == inits <= 1

(* No pbuf is freed twice or given to lwIP after it was freed, although     *)
(* received_frame still points to it while ethernet_input consumes it and   *)
(* the other core may run recv_cb meanwhile (tusb_lwip_glue.c:190-195).     *)
NoUseAfterFree ==
    FirstConnection => "used after free" \notin faults

(* No pbuf is lost: each one in use is on its way into received_frame, in   *)
(* it, or in ethernet_input's hands (tusb_lwip_glue.c:151-159, 192-194).    *)
NoLeak ==
    FirstConnection =>
        \A b \in allocated : b \in {received_frame, arg} \cup {fresh[c] : c \in Core}

(* tusb_lwip_glue.c:145: "this shouldn't happen, but if we get another      *)
(* packet before parsing the previous": it does not, on either core,        *)
(* because the endpoint is renewed only after received_frame is cleared.    *)
OnePacketAtATime ==
    FirstConnection =>
        \A c \in Core : cb[c] \in {"recv", "alloc", "store"} => received_frame = NULL

(* tusb_lwip_glue.c:76: "if the network driver can accept another packet,   *)
(* we make it happen": a frame linkoutput_fn reports as sent was handed to  *)
(* an idle endpoint as it is.                                               *)
AcceptedIsSent == "frame spoilt" \notin faults

(* As long as core 0 has transmitted nothing, core 1 is the only sender,   *)
(* and what it sends is sent as it is, across a reconnection as well        *)
(* (tusb_lwip_glue.c:77-81).                                                *)
OneSender == AcceptedIsSent \/ replied


(* A packet recv_cb accepts is stored for service_traffic to handle, unless *)
(* pbuf_alloc failed (tusb_lwip_glue.c:151-163).                            *)
AcceptedIsStored == "packet lost" \notin faults

(* A transmission returns although the endpoint is busy when it starts: the *)
(* wait for can_xmit in linkoutput_fn (tusb_lwip_glue.c:70-85) runs         *)
(* tud_task itself, so that neither core depends on the other to complete   *)
(* the previous frame.  Two floods can hold a sender for ever: its tud_task *)
(* never runs out of received frames, or the other core is first each time. *)
ReceivesForever(c) == []<>(cb[c] = "recv")
TransmitsForever(c) == []<>(pc[c] = "start")

SendReturnsEventually ==
    \A c \in Core : \/ []<>(pc[c] \notin SendPcs)
                    \/ ReceivesForever(c)
                    \/ TransmitsForever(1 - c)

(* A host that sent a frame can send the next one: the endpoint is renewed  *)
(* once the frame was handled (tusb_lwip_glue.c:190-196), unless core 0 is  *)
(* held for ever by what core 1 transmits: in its answer, because core 1    *)
(* takes the endpoint each time, or in tud_task, which finds one more event *)
(* of it each time.  A packet that was accepted and not stored ends it too, *)
(* until the interface is set up again: nothing renews the endpoint then.   *)
HeldByCore1 == TransmitsForever(1) /\ <>[](pc[0] \in SendPcs \/ cb[0] = "task")

ReceptionGoesOn == (ready ~> (armed \/ ~ready \/ ~AcceptedIsStored)) \/ HeldByCore1
=============================================================================
