---------------------------- MODULE NetGlueProofs ----------------------------
(***************************************************************************)
(* Proofs about the USB network glue, for every number of pbufs, answers   *)
(* or none, failing allocations or none, and every number of times the     *)
(* host comes and goes.                                                    *)
(***************************************************************************)
EXTENDS NetGlue, TLAPS

Event == {"rx", "tx", "init", "unplug"}
Place == ServicePcs \cup SendPcs \cup {"loop"}

-----------------------------------------------------------------------------
(* The invariant, in parts *)
FramesTyped ==
    /\ received_frame \in Bufs \cup {NULL} /\ arg \in Bufs \cup {NULL}
    /\ allocated \subseteq Bufs
    /\ fresh \in [Core -> Bufs \cup {NULL}]
    /\ faults \subseteq {"used after free", "packet lost", "frame spoilt"}

DriverTyped ==
    /\ events \in Seq(Event)
    /\ replied \in BOOLEAN /\ ready \in BOOLEAN /\ armed \in BOOLEAN /\ can_xmit \in BOOLEAN
    /\ txbuf \in Core \cup {Nobody} /\ inflight \in Core \cup {Nobody}
    /\ inits \in 0 .. MaxInits /\ unplugs \in 0 .. MaxUnplugs

PlacesTyped ==
    /\ pc \in [Core -> Place] /\ pc[0] \in ServicePcs \cup SendPcs
    /\ pc[1] \in SendPcs \cup {"loop"}
    /\ cb \in [Core -> CallbackPcs \cup {"none"}]

Typed == FramesTyped /\ DriverTyped /\ PlacesTyped

(* A core runs tud_task in its main loop or while it waits to transmit *)
InTask ==
    /\ cb[0] # "none" => pc[0] \in {"task", "can"}
    /\ cb[1] # "none" => pc[1] = "can"

Indices == 1 .. Len(events)
Queued(kinds) == \E k \in Indices : events[k] \in kinds
CompletionsFirst == \A k, l \in Indices : events[k] = "init" /\ events[l] = "tx" => l < k
Once(kinds) == \A k, l \in Indices : events[k] \in kinds /\ events[l] \in kinds => k = l

(* One permission to receive goes round: the endpoint's, the received       *)
(* event's, the callback's, the frame's, until it is renewed.  It enters    *)
(* with the initialisation of the interface.                                *)
Giving == {"rx", "init"}
Working(c) == cb[c] \in {"recv", "alloc", "store", "init", "open"}
Handling == received_frame # NULL \/ pc[0] = "renew"

OnePermission ==
    /\ Once(Giving)
    /\ Queued(Giving) => ~armed /\ ~Handling /\ \A c \in Core : ~Working(c)
    /\ \A c \in Core : Working(c) => ~armed /\ ~Handling /\ ~Working(1 - c)
    /\ Handling => ~armed
    /\ \A c \in Core : cb[c] \notin {"cleanup", "forget"}
    /\ inits = 0 => ~armed /\ ~Handling /\ ~Queued(Giving) /\ \A c \in Core : ~Working(c)

(* Whose the pbufs in use are, at each place of service_traffic: core 0     *)
(* transmits inside ethernet_input or, without a frame, from a timer        *)
Consuming == pc[0] \in {"lwip", "replied"} \/ (pc[0] \in SendPcs /\ arg # NULL)
Between == pc[0] \in {"task", "service", "timers"} \/ (pc[0] \in SendPcs /\ arg = NULL)
Owned ==
    /\ Consuming => arg = received_frame /\ received_frame \in allocated
    /\ ~Consuming => arg = NULL
    /\ pc[0] \in {"input", "error"} => received_frame \in allocated
    /\ Between => received_frame \in allocated \cup {NULL}
    /\ pc[0] = "clear" => received_frame \notin allocated \cup {NULL}
    /\ pc[0] = "renew" => received_frame = NULL
    /\ \A c \in Core : IF cb[c] = "store" THEN fresh[c] \in allocated ELSE fresh[c] = NULL
    /\ \A b \in allocated : b = received_frame \/ \E c \in Core : b = fresh[c]
    /\ "used after free" \notin faults

(* The interface is set up once at a time, while the device is not ready *)
Initing(c) == cb[c] \in {"init", "cleanup", "forget", "open"}
OneSetup ==
    /\ Once({"init"})
    /\ Queued({"init"}) => ~ready /\ \A c \in Core : ~Initing(c)
    /\ \A c \in Core : Initing(c) => ~ready /\ ~Initing(1 - c) /\ ~Queued({"tx"})
    /\ CompletionsFirst
    /\ ~ready => inflight = Nobody

(* The driver's flag: set, the endpoint is idle and no completion is on its *)
(* way; core 1 alone goes past the wait, with the flag set.                 *)
OneTransmission ==
    /\ Once({"tx"})
    /\ Queued({"tx"}) => ~can_xmit /\ inflight = Nobody
    /\ can_xmit => inflight = Nobody
    /\ pc[0] \notin SendPcs \cup {"replied"}
    /\ pc[1] \in {"xmit", "copy", "start"} => can_xmit
    /\ pc[1] = "start" => txbuf = 1
    /\ AcceptedIsSent

Inv ==
    /\ Typed /\ InTask /\ OneSetup
    /\ FirstConnection => OnePermission /\ Owned
    /\ ~replied => OneTransmission

-----------------------------------------------------------------------------
(* The event queue, when an event is taken from it or posted *)
LEMMA EventTaken ==
    ASSUME events \in Seq(Event), events # <<>>, events' = Tail(events)
    PROVE  /\ Head(events) \in Event /\ events' \in Seq(Event)
           /\ \A kinds : Head(events) \in kinds => Queued(kinds)
           /\ \A kinds : Queued(kinds)' => Queued(kinds)
           /\ \A kinds : Once(kinds) => Once(kinds)'
           /\ \A kinds : Once(kinds) /\ Head(events) \in kinds => ~Queued(kinds)'
           /\ CompletionsFirst => CompletionsFirst'
           /\ CompletionsFirst /\ Head(events) = "init" => ~Queued({"tx"})'
<1>1. /\ Head(events) = events[1] /\ 1 \in Indices /\ events[1] \in Event
      /\ events' \in Seq(Event) /\ Len(events') = Len(events) - 1
      /\ \A k \in Indices' : k + 1 \in Indices /\ events'[k] = events[k + 1]
  BY DEF Indices
<1>2. Len(events) \in Nat /\ Len(events') \in Nat
  BY <1>1
<1> QED
  BY <1>1, <1>2 DEF Queued, Once, CompletionsFirst, Indices

LEMMA EventPosted ==
    ASSUME events \in Seq(Event), NEW e \in Event, events' = Append(events, e)
    PROVE  /\ events' \in Seq(Event)
           /\ \A kinds : Queued(kinds)' => Queued(kinds) \/ e \in kinds
           /\ \A kinds : Once(kinds) /\ (e \in kinds => ~Queued(kinds)) => Once(kinds)'
           /\ CompletionsFirst /\ (e = "tx" => ~Queued({"init"})) => CompletionsFirst'
<1>1. /\ events' \in Seq(Event) /\ Len(events') = Len(events) + 1 /\ Len(events) \in Nat
      /\ \A k \in Indices : k \in Indices' /\ events'[k] = events[k]
      /\ events'[Len(events) + 1] = e
      /\ \A k \in Indices' : k \in Indices \/ k = Len(events) + 1
  BY DEF Indices
<1>2. \A kinds : Queued(kinds)' => Queued(kinds) \/ e \in kinds
  BY <1>1 DEF Queued
<1>3. \A kinds : Once(kinds) /\ (e \in kinds => ~Queued(kinds)) => Once(kinds)'
  BY <1>1 DEF Queued, Once
<1>4. CompletionsFirst /\ (e = "tx" => ~Queued({"init"})) => CompletionsFirst'
  BY <1>1 DEF Queued, CompletionsFirst, Indices
<1> QED
  BY <1>1, <1>2, <1>3, <1>4

LEMMA EventsStay ==
    ASSUME UNCHANGED events
    PROVE  /\ \A kinds : (Queued(kinds)' <=> Queued(kinds)) /\ (Once(kinds)' <=> Once(kinds))
           /\ CompletionsFirst' <=> CompletionsFirst
  BY DEF Queued, Once, CompletionsFirst, Indices

-----------------------------------------------------------------------------
(* Initially *)
LEMMA InitInv == Init => Inv
<1> SUFFICES ASSUME Init PROVE Inv
  OBVIOUS
<1> USE NetAssumption DEF Init
<1>1. Typed
  BY DEF Typed, FramesTyped, DriverTyped, PlacesTyped, Core, Nobody, Place, ServicePcs,
        SendPcs, CallbackPcs, Event
<1>2. InTask
  BY DEF InTask, Core
<1>3. \A kinds : ~Queued(kinds) /\ Once(kinds)
  BY DEF Queued, Once, Indices
<1>4. CompletionsFirst
  BY DEF CompletionsFirst, Indices
<1>5. OneSetup
  BY <1>3, <1>4 DEF OneSetup, Initing, Core
<1>6. OnePermission
  BY <1>3 DEF OnePermission, Working, Handling, Core
<1>7. Owned
  BY DEF Owned, Consuming, Between, SendPcs, Core
<1>8. OneTransmission
  BY <1>3 DEF OneTransmission, SendPcs, AcceptedIsSent, Core
<1> QED
  BY <1>1, <1>2, <1>5, <1>6, <1>7, <1>8 DEF Inv

-----------------------------------------------------------------------------
(* The types, and where tud_task runs *)
Step ==
    \/ \E c \in Core : TudTask(c) \/ Send(c)
    \/ RunTask \/ ServiceCheck \/ ServiceInput \/ InputReplies \/ InputOk
    \/ InputFails \/ ServiceError \/ ServiceClear \/ ServiceRenew \/ ServiceTimers \/ DoSend
    \/ HostSends \/ HostTakes \/ HostInits \/ HostUnplugs

LEMMA StepOfNext == Next => Step
  BY DEF Next, Core0, Core1, Step, Core

LEMMA FramesStayTyped ==
    ASSUME FramesTyped, PlacesTyped, Next
    PROVE  FramesTyped'
<1> USE NetAssumption DEF FramesTyped, rx
<1>1. ASSUME NEW c \in Core, TudTask(c) PROVE FramesTyped'
  <2>1. CASE TakeEvent(c) \/ LeaveTask(c) \/ RecvCheck(c) \/ InitCheck(c)
    BY <2>1 DEF TakeEvent, LeaveTask, RecvCheck, InitCheck
  <2>2. CASE RecvAlloc(c)
    BY <2>2 DEF RecvAlloc
  <2>3. CASE RecvAllocFails(c)
    BY <2>3 DEF RecvAllocFails
  <2>4. CASE RecvStore(c)
    BY <2>4 DEF RecvStore
  <2>5. CASE InitCleanup(c)
    BY <2>5 DEF InitCleanup, Free
  <2>6. CASE InitForget(c)
    BY <2>6 DEF InitForget
  <2>7. CASE InitOpen(c)
    BY <2>7 DEF InitOpen, LossMadeGood
  <2> QED
    BY <1>1, <2>1, <2>2, <2>3, <2>4, <2>5, <2>6, <2>7 DEF TudTask
<1>2. ASSUME NEW c \in Core, Send(c) PROVE FramesTyped'
  BY <1>2 DEF Send, SendReady, SendCan, SendXmit, SendCopy, SendStart
<1>3. CASE RunTask \/ ServiceCheck \/ InputReplies \/ ServiceRenew \/ ServiceTimers \/ DoSend
  BY <1>3 DEF RunTask, ServiceCheck, InputReplies, ServiceRenew, ServiceTimers, DoSend
<1>4. CASE ServiceInput \/ InputFails \/ ServiceClear
  BY <1>4 DEF ServiceInput, InputFails, ServiceClear
<1>5. CASE InputOk \/ ServiceError
  BY <1>5 DEF InputOk, ServiceError, Free
<1>6. CASE HostSends \/ HostTakes \/ HostInits \/ HostUnplugs
  BY <1>6 DEF HostSends, HostTakes, HostInits, HostUnplugs
<1> QED
  BY <1>1, <1>2, <1>3, <1>4, <1>5, <1>6, StepOfNext DEF Step

LEMMA DriverStaysTyped ==
    ASSUME DriverTyped, PlacesTyped, Next
    PROVE  DriverTyped'
<1> USE NetAssumption DEF DriverTyped, tx, host
<1>1. ASSUME NEW c \in Core, TudTask(c) PROVE DriverTyped'
  <2>1. CASE TakeEvent(c)
    <3>1. events' \in Seq(Event)
      BY <2>1, EventTaken DEF TakeEvent
    <3> QED
      BY <2>1, <3>1 DEF TakeEvent
  <2>2. CASE LeaveTask(c) \/ InitCheck(c) \/ InitCleanup(c) \/ InitForget(c) \/ InitOpen(c)
    BY <2>2 DEF LeaveTask, InitCheck, InitCleanup, InitForget, InitOpen
  <2>3. CASE RecvCheck(c) \/ RecvAlloc(c) \/ RecvAllocFails(c) \/ RecvStore(c)
    BY <2>3 DEF RecvCheck, RecvAlloc, RecvAllocFails, RecvStore
  <2> QED
    BY <1>1, <2>1, <2>2, <2>3 DEF TudTask
<1>2. ASSUME NEW c \in Core, Send(c) PROVE DriverTyped'
  BY <1>2 DEF Send, SendReady, SendCan, SendXmit, SendCopy, SendStart, Nobody
<1>3. CASE \/ RunTask \/ ServiceCheck \/ ServiceInput \/ InputReplies \/ InputOk
           \/ InputFails \/ ServiceError \/ ServiceClear \/ ServiceRenew \/ ServiceTimers \/ DoSend
  BY <1>3 DEF RunTask, ServiceCheck, ServiceInput, InputReplies, InputOk, InputFails,
     ServiceError, ServiceClear, ServiceRenew, ServiceTimers, DoSend
<1>4. CASE HostSends \/ HostTakes \/ HostInits \/ HostUnplugs
  <2>1. \A e \in Event : events' = Append(events, e) => events' \in Seq(Event)
    BY EventPosted
  <2>2. events' \in Seq(Event)
    BY <1>4, <2>1 DEF HostSends, HostTakes, HostInits, HostUnplugs, Event
  <2>3. inits' \in 0 .. MaxInits /\ unplugs' \in 0 .. MaxUnplugs
    BY <1>4 DEF HostSends, HostTakes, HostInits, HostUnplugs
  <2> QED
    BY <1>4, <2>2, <2>3 DEF HostSends, HostTakes, HostInits, HostUnplugs, Nobody
<1> QED
  BY <1>1, <1>2, <1>3, <1>4, StepOfNext DEF Step

LEMMA PlacesStayTyped ==
    ASSUME PlacesTyped, InTask, Next
    PROVE  PlacesTyped' /\ InTask'
<1> USE DEF PlacesTyped, InTask, Core, Place, ServicePcs, SendPcs, CallbackPcs, Goto, Inside
<1>1. ASSUME NEW c \in Core, TudTask(c) PROVE PlacesTyped' /\ InTask'
  <2>1. CASE TakeEvent(c)
    BY <2>1 DEF TakeEvent
  <2>2. CASE LeaveTask(c)
    <3>1. PlacesTyped'
      BY <2>2 DEF LeaveTask
    <3>2. InTask'
      BY <2>2 DEF LeaveTask
    <3> QED
      BY <3>1, <3>2
  <2>3. CASE RecvCheck(c)
    BY <2>3 DEF RecvCheck
  <2>4. CASE RecvAlloc(c) \/ RecvAllocFails(c) \/ RecvStore(c)
    BY <2>4 DEF RecvAlloc, RecvAllocFails, RecvStore
  <2>5. CASE InitCheck(c) \/ InitCleanup(c) \/ InitForget(c) \/ InitOpen(c)
    BY <2>5 DEF InitCheck, InitCleanup, InitForget, InitOpen
  <2> QED
    BY <1>1, <2>1, <2>2, <2>3, <2>4, <2>5 DEF TudTask
<1>2. ASSUME NEW c \in Core, Send(c) PROVE PlacesTyped' /\ InTask'
  <2>a. ASSUME pc[c] \in {"ready", "xmit", "start"}, UNCHANGED cb, SendReturns(c), cb[c] = "none"
        PROVE  PlacesTyped' /\ InTask'
    <3>1. CASE c = 0
      BY <2>a, <3>1 DEF SendReturns
    <3>2. CASE c = 1
      BY <2>a, <3>2 DEF SendReturns
    <3> QED
      BY <3>1, <3>2
  <2>1. CASE SendReady(c)
    BY <2>1, <2>a DEF SendReady
  <2>2. CASE SendCan(c)
    BY <2>2 DEF SendCan
  <2>3. CASE SendXmit(c)
    BY <2>3, <2>a DEF SendXmit
  <2>4. CASE SendCopy(c)
    BY <2>4 DEF SendCopy
  <2>5. CASE SendStart(c)
    BY <2>5, <2>a DEF SendStart
  <2> QED
    BY <1>2, <2>1, <2>2, <2>3, <2>4, <2>5 DEF Send
<1>3. CASE RunTask \/ ServiceCheck \/ ServiceInput \/ InputReplies
  BY <1>3 DEF RunTask, ServiceCheck, ServiceInput, InputReplies
<1>4. CASE \/ InputOk \/ InputFails \/ ServiceError \/ ServiceClear \/ ServiceRenew
           \/ ServiceTimers \/ DoSend
  BY <1>4 DEF InputOk, InputFails, ServiceError, ServiceClear, ServiceRenew,
     ServiceTimers, DoSend
<1>5. CASE HostSends \/ HostTakes \/ HostInits \/ HostUnplugs
  BY <1>5 DEF HostSends, HostTakes, HostInits, HostUnplugs
<1> QED
  BY <1>1, <1>2, <1>3, <1>4, <1>5, StepOfNext DEF Step

-----------------------------------------------------------------------------
(* The interface is set up once at a time *)
LEMMA OneSetupStays ==
    ASSUME DriverTyped, PlacesTyped, OneSetup, Next
    PROVE  OneSetup'
<1> USE DEF OneSetup, Initing, DriverTyped, PlacesTyped, Core, Inside, tx, host
<1>0. ASSUME UNCHANGED <<events, ready>>, ready \/ UNCHANGED inflight,
             \A c \in Core : Initing(c)' => Initing(c)
      PROVE  OneSetup'
  BY <1>0, EventsStay
<1>1. ASSUME NEW c \in Core, TudTask(c) PROVE OneSetup'
  <2>1. CASE TakeEvent(c)
    <3>1. events' = Tail(events) /\ events # <<>>
      BY <2>1 DEF TakeEvent
    <3>2. Once({"init"})' /\ CompletionsFirst' /\ (Queued({"init"})' => Queued({"init"}))
          /\ (Queued({"tx"})' => Queued({"tx"}))
      BY <3>1, EventTaken
    <3>3. Head(events) = "init" => Queued({"init"}) /\ ~Queued({"init"})' /\ ~Queued({"tx"})'
      BY <3>1, EventTaken
    <3>4. CASE Head(events) = "init"
      BY <2>1, <3>2, <3>3, <3>4 DEF TakeEvent
    <3>5. CASE Head(events) # "init"
      BY <2>1, <3>2, <3>5 DEF TakeEvent
    <3> QED
      BY <3>4, <3>5
  <2>2. CASE LeaveTask(c) \/ RecvCheck(c) \/ RecvAlloc(c) \/ RecvAllocFails(c) \/ RecvStore(c)
    BY <2>2, <1>0 DEF LeaveTask, RecvCheck, RecvAlloc, RecvAllocFails, RecvStore
  <2>3. CASE InitCheck(c) \/ InitCleanup(c) \/ InitForget(c)
    BY <2>3, EventsStay DEF InitCheck, InitCleanup, InitForget
  <2>4. CASE InitOpen(c)
    BY <2>4, EventsStay DEF InitOpen
  <2> QED
    BY <1>1, <2>1, <2>2, <2>3, <2>4 DEF TudTask
<1>2. ASSUME NEW c \in Core, Send(c) PROVE OneSetup'
  <2>1. UNCHANGED <<events, ready>> /\ (ready \/ UNCHANGED inflight)
    BY <1>2 DEF Send, SendReady, SendCan, SendXmit, SendCopy, SendStart
  <2>2. UNCHANGED cb \/ Inside(c, "task")
    BY <1>2 DEF Send, SendReady, SendCan, SendXmit, SendCopy, SendStart
  <2> QED
    BY <2>1, <2>2, <1>0
<1>3. CASE \/ RunTask \/ ServiceCheck \/ ServiceInput \/ InputReplies \/ InputOk
           \/ InputFails \/ ServiceError \/ ServiceClear \/ ServiceRenew \/ ServiceTimers \/ DoSend
  <2>1. UNCHANGED <<events, ready, inflight>> /\ (UNCHANGED cb \/ Inside(0, "task"))
    BY <1>3 DEF RunTask, ServiceCheck, ServiceInput, InputReplies, InputOk, InputFails,
       ServiceError, ServiceClear, ServiceRenew, ServiceTimers, DoSend
  <2> QED
    BY <2>1, <1>0
<1>4. CASE HostSends \/ HostUnplugs
  <2>1. \E e \in {"rx", "unplug"} : events' = Append(events, e)
    BY <1>4 DEF HostSends, HostUnplugs
  <2>2. /\ Once({"init"})' /\ CompletionsFirst'
        /\ Queued({"init"})' => Queued({"init"})
        /\ Queued({"tx"})' => Queued({"tx"})
    BY <2>1, EventPosted DEF Event
  <2> QED
    BY <1>4, <2>2 DEF HostSends, HostUnplugs
<1>5. CASE HostTakes
  <2>1. events' = Append(events, "tx") /\ ~Queued({"init"}) /\ \A c \in Core : ~Initing(c)
    BY <1>5 DEF HostTakes
  <2>2. Once({"init"})' /\ CompletionsFirst' /\ ~Queued({"init"})'
    BY <2>1, EventPosted DEF Event
  <2> QED
    BY <1>5, <2>1, <2>2 DEF HostTakes
<1>6. CASE HostInits
  <2>1. events' = Append(events, "init")
    BY <1>6 DEF HostInits
  <2>2. ~Queued({"init"})
    BY <1>6 DEF HostInits, Queued, Indices
  <2>3. Once({"init"})' /\ CompletionsFirst'
    BY <2>1, <2>2, EventPosted DEF Event
  <2> QED
    BY <1>6, <2>3 DEF HostInits
<1> QED
  BY <1>1, <1>2, <1>3, <1>4, <1>5, <1>6, StepOfNext DEF Step

-----------------------------------------------------------------------------
(* One permission to receive, through the first connection *)
LEMMA FirstConnectionWas ==
    ASSUME DriverTyped, Next, FirstConnection'
    PROVE  FirstConnection /\ (UNCHANGED inits \/ (HostInits /\ inits = 0))
<1> USE DEF FirstConnection, DriverTyped, host
<1>1. ASSUME NEW c \in Core, TudTask(c) PROVE UNCHANGED inits
  BY <1>1 DEF TudTask, TakeEvent, LeaveTask, RecvCheck, RecvAlloc, RecvAllocFails, RecvStore,
     InitCheck, InitCleanup, InitForget, InitOpen
<1>2. ASSUME NEW c \in Core, Send(c) PROVE UNCHANGED inits
  BY <1>2 DEF Send, SendReady, SendCan, SendXmit, SendCopy, SendStart
<1>3. CASE \/ RunTask \/ ServiceCheck \/ ServiceInput \/ InputReplies \/ InputOk
           \/ InputFails \/ ServiceError \/ ServiceClear \/ ServiceRenew \/ ServiceTimers \/ DoSend
  BY <1>3 DEF RunTask, ServiceCheck, ServiceInput, InputReplies, InputOk, InputFails,
     ServiceError, ServiceClear, ServiceRenew, ServiceTimers, DoSend
<1>4. CASE HostSends \/ HostTakes \/ HostUnplugs
  BY <1>4 DEF HostSends, HostTakes, HostUnplugs
<1>5. CASE HostInits
  BY <1>5 DEF HostInits
<1> QED
  BY <1>1, <1>2, <1>3, <1>4, <1>5, StepOfNext DEF Step

(* A step that neither moves the permission nor makes one *)
LEMMA PermissionStays ==
    ASSUME OnePermission, UNCHANGED <<events, inits>>, armed' => armed, Handling' => Handling,
           \A c \in Core : cb'[c] \in {cb[c], "task", "none"}
    PROVE  OnePermission'
  BY EventsStay DEF OnePermission, Working, Core

LEMMA OnePermissionStays ==
    ASSUME DriverTyped, PlacesTyped, FramesTyped, OnePermission, Owned, Next, FirstConnection'
    PROVE  OnePermission'
<1> USE FirstConnectionWas DEF PlacesTyped, rx, tx, host
<1>1. ASSUME NEW c \in Core, TudTask(c) PROVE OnePermission'
  <2> USE DEF Inside, Core
  <2>1. CASE TakeEvent(c)
    <3>1. events' = Tail(events) /\ events # <<>> /\ events \in Seq(Event)
      BY <2>1 DEF TakeEvent, DriverTyped
    <3>2. Once(Giving)' /\ (Queued(Giving)' => Queued(Giving))
      BY <3>1, EventTaken DEF OnePermission, Giving
    <3>3. Head(events) \in Giving => Queued(Giving) /\ ~Queued(Giving)'
      BY <3>1, EventTaken DEF OnePermission, Giving
    <3>4. UNCHANGED inits /\ (Handling' <=> Handling) /\ (armed' => armed)
      BY <2>1 DEF TakeEvent, Handling, Giving, DriverTyped
    <3>5. CASE Head(events) \in Giving
      <4>1. cb' = [cb EXCEPT ![c] = "recv"] \/ cb' = [cb EXCEPT ![c] = "init"]
        BY <2>1, <3>5 DEF TakeEvent, Giving
      <4>2. inits # 0
        BY <3>3, <3>5 DEF OnePermission
      <4> QED
        BY <3>2, <3>3, <3>4, <3>5, <4>1, <4>2 DEF OnePermission, Working
    <3>6. CASE Head(events) \notin Giving
      <4>1. UNCHANGED cb
        BY <2>1, <3>6 DEF TakeEvent, Giving
      <4> QED
        BY <3>2, <3>4, <4>1 DEF OnePermission, Working
    <3> QED
      BY <3>5, <3>6
  <2>2. CASE LeaveTask(c)
    <3>1. Handling' <=> Handling
      BY <2>2 DEF LeaveTask, Handling, Goto, InTask
    <3> QED
      BY <2>2, <3>1, PermissionStays DEF LeaveTask
  <2>3. CASE RecvCheck(c)
    <3>1. received_frame = NULL /\ cb' = [cb EXCEPT ![c] = "alloc"]
      BY <2>3 DEF RecvCheck, OnePermission, Working, Handling
    <3> QED
      BY <2>3, <3>1, EventsStay DEF RecvCheck, OnePermission, Working, Handling
  <2>4. CASE RecvAlloc(c)
    BY <2>4, EventsStay DEF RecvAlloc, OnePermission, Working, Handling
  <2>5. CASE RecvAllocFails(c)
    BY <2>5, PermissionStays DEF RecvAllocFails, Handling
  <2>6. CASE RecvStore(c)
    <3>1. inits # 0 /\ Working(c) /\ ~Working(1 - c)
      BY <2>6 DEF RecvStore, OnePermission, Working
    <3>2. ~armed /\ ~Queued(Giving)
      BY <3>1 DEF OnePermission
    <3>3. cb'[c] = "task" /\ cb'[1 - c] = cb[1 - c]
      BY <2>6 DEF RecvStore
    <3> QED
      BY <2>6, <3>1, <3>2, <3>3, EventsStay DEF RecvStore, OnePermission, Working
  <2>7. CASE InitCheck(c)
    <3>1. received_frame = NULL /\ cb' = [cb EXCEPT ![c] = "open"]
      BY <2>7 DEF InitCheck, OnePermission, Working, Handling
    <3> QED
      BY <2>7, <3>1, EventsStay DEF InitCheck, OnePermission, Working, Handling
  <2>8. CASE InitCleanup(c) \/ InitForget(c)
    BY <2>8 DEF InitCleanup, InitForget, OnePermission
  <2>9. CASE InitOpen(c)
    <3>1. inits # 0 /\ Working(c) /\ ~Working(1 - c) /\ ~Queued(Giving) /\ ~Handling
      BY <2>9 DEF InitOpen, OnePermission, Working
    <3>2. cb'[c] = "task" /\ cb'[1 - c] = cb[1 - c]
      BY <2>9 DEF InitOpen
    <3> QED
      BY <2>9, <3>1, <3>2, EventsStay DEF InitOpen, OnePermission, Working, Handling
  <2> QED
    BY <1>1, <2>1, <2>2, <2>3, <2>4, <2>5, <2>6, <2>7, <2>8, <2>9 DEF TudTask
<1>2. ASSUME NEW c \in Core, Send(c) PROVE OnePermission'
  <2>1. UNCHANGED <<events, inits, armed, received_frame>>
    BY <1>2 DEF Send, SendReady, SendCan, SendXmit, SendCopy, SendStart
  <2>2. UNCHANGED cb \/ Inside(c, "task")
    BY <1>2 DEF Send, SendReady, SendCan, SendXmit, SendCopy, SendStart
  <2>3. \A d \in Core : cb'[d] \in {cb[d], "task", "none"}
    BY <2>2 DEF Inside
  <2>4. UNCHANGED pc \/ \E l \in {"can", "replied", "task", "loop", "xmit", "copy", "start"} : Goto(c, l)
    BY <1>2 DEF Send, SendReady, SendCan, SendXmit, SendCopy, SendStart, SendReturns
  <2>5. Handling' => Handling
    BY <2>1, <2>4 DEF Handling, Goto, Core
  <2> QED
    BY <2>1, <2>3, <2>5, PermissionStays
<1>3. CASE RunTask \/ ServiceCheck \/ ServiceInput \/ InputReplies \/ InputOk
           \/ InputFails \/ ServiceError \/ ServiceTimers \/ DoSend
  <2>1. UNCHANGED <<events, inits, armed, received_frame>>
    BY <1>3 DEF RunTask, ServiceCheck, ServiceInput, InputReplies, InputOk, InputFails,
       ServiceError, ServiceTimers, DoSend
  <2>2. UNCHANGED cb \/ Inside(0, "task")
    BY <1>3 DEF RunTask, ServiceCheck, ServiceInput, InputReplies, InputOk, InputFails,
       ServiceError, ServiceTimers, DoSend
  <2>3. \A d \in Core : cb'[d] \in {cb[d], "task", "none"}
    BY <2>2 DEF Inside
  <2>4. UNCHANGED pc \/ (\E l : Goto(1, l))
        \/ \E l \in {"input", "task", "timers", "lwip", "ready", "clear", "error"} : Goto(0, l)
    BY <1>3 DEF RunTask, ServiceCheck, ServiceInput, InputReplies, InputOk, InputFails,
       ServiceError, ServiceTimers, DoSend
  <2>5. Handling' => Handling
    BY <2>1, <2>4 DEF Handling, Goto, Core
  <2> QED
    BY <2>1, <2>3, <2>5, PermissionStays
<1>4. CASE ServiceClear
  <2>1. Handling
    BY <1>4 DEF ServiceClear, Owned, Handling
  <2> QED
    BY <1>4, <2>1, PermissionStays DEF ServiceClear
<1>5. CASE ServiceRenew
  <2>1. Handling /\ ~Handling' /\ inits # 0
    BY <1>5 DEF ServiceRenew, Owned, Handling, Goto, Core, OnePermission
  <2>2. ~Queued(Giving) /\ \A c \in Core : ~Working(c)
    BY <2>1 DEF OnePermission
  <2> QED
    BY <1>5, <2>1, <2>2, EventsStay DEF ServiceRenew, OnePermission, Working
<1>6. CASE HostSends
  <2>1. events' = Append(events, "rx") /\ events \in Seq(Event) /\ ~Queued(Giving)
    BY <1>6 DEF HostSends, DriverTyped, OnePermission
  <2>2. Once(Giving)'
    BY <2>1, EventPosted DEF OnePermission, Event
  <2>3. ~Handling /\ inits # 0 /\ (\A c \in Core : ~Working(c)) /\ UNCHANGED <<inits, cb>>
    BY <1>6 DEF HostSends, OnePermission
  <2> QED
    BY <1>6, <2>2, <2>3 DEF HostSends, OnePermission, Working, Handling
<1>7. CASE HostTakes \/ HostUnplugs
  <2>1. \E e \in {"tx", "unplug"} : events' = Append(events, e)
    BY <1>7 DEF HostTakes, HostUnplugs
  <2>2. Once(Giving)' /\ (Queued(Giving)' => Queued(Giving))
    BY <2>1, EventPosted DEF OnePermission, Event, Giving, DriverTyped
  <2> QED
    BY <1>7, <2>2 DEF HostTakes, HostUnplugs, OnePermission, Working, Handling
<1>8. CASE HostInits
  <2>1. inits = 0 /\ inits' = 1 /\ events' = Append(events, "init")
    BY <1>8 DEF HostInits, FirstConnection, DriverTyped
  <2>2. Once(Giving)'
    BY <2>1, EventPosted DEF OnePermission, Event, Giving, DriverTyped
  <2> QED
    BY <1>8, <2>1, <2>2 DEF HostInits, OnePermission, Working, Handling
<1> QED
  BY <1>1, <1>2, <1>3, <1>4, <1>5, <1>6, <1>7, <1>8, StepOfNext DEF Step

(* Whose the pbufs are, through the first connection *)
LEMMA OwnedWhenFramesStay ==
    ASSUME PlacesTyped, Owned, UNCHANGED rx,
           "used after free" \notin faults',
           \A c \in Core : (cb'[c] = "store") <=> (cb[c] = "store"),
           pc'[0] = pc[0] \/ (Consuming /\ Consuming') \/ (Between /\ Between')
    PROVE  Owned'
  BY DEF Owned, rx, Consuming, Between, SendPcs

LEMMA TudTaskKeepsOwned ==
    ASSUME FramesTyped, PlacesTyped, InTask, OnePermission, Owned, NEW c \in Core, TudTask(c)
    PROVE  Owned'
<1> USE DEF PlacesTyped, rx, Inside, Core
<1>u. "used after free" \notin faults
  BY DEF Owned
<1>1. CASE TakeEvent(c)
  BY <1>1, <1>u, OwnedWhenFramesStay DEF TakeEvent
<1>2. CASE LeaveTask(c)
  <2>1. UNCHANGED <<rx, faults>> /\ \A d \in Core : (cb'[d] = "store") <=> (cb[d] = "store")
    BY <1>2 DEF LeaveTask
  <2>2. pc'[0] = pc[0] \/ (Consuming /\ Consuming') \/ (Between /\ Between')
    BY <1>2 DEF LeaveTask, Goto, InTask, Consuming, Between, SendPcs
  <2> QED
    BY <2>1, <2>2, <1>u, OwnedWhenFramesStay
<1>3. CASE RecvCheck(c)
  BY <1>3, <1>u, OwnedWhenFramesStay DEF RecvCheck
<1>4. CASE RecvAlloc(c)
  <2>a. received_frame = NULL /\ pc[0] # "renew" /\ cb[1 - c] # "store"
    BY <1>4 DEF RecvAlloc, OnePermission, Working, Handling
  <2>1. received_frame = NULL /\ pc[0] # "renew" /\ \A d \in {0, 1} : d # c => cb[d] # "store"
    BY <2>a
  <2>2. PICK b \in Bufs \ allocated : allocated' = allocated \cup {b} /\ fresh' = [fresh EXCEPT ![c] = b]
    BY <1>4 DEF RecvAlloc
  <2>3. cb'[c] = "store" /\ cb'[1 - c] = cb[1 - c] /\ UNCHANGED <<received_frame, arg, pc, faults>>
    BY <1>4 DEF RecvAlloc
  <2>4. \A d \in {0, 1} : cb[d] # "store" /\ fresh[d] = NULL
    <3>1. \A d \in {0, 1} : cb[d] # "store"
      BY <1>4, <2>1 DEF RecvAlloc
    <3> QED
      BY <3>1 DEF Owned
  <2>b. \A x \in allocated : x = received_frame \/ \E d \in Core : x = fresh[d]
    BY DEF Owned
  <2>5. allocated = {}
    BY <2>1, <2>4, <2>b, NetAssumption DEF FramesTyped
  <2>6. fresh'[c] = b /\ (\A d \in Core : d # c => fresh'[d] = NULL /\ cb'[d] # "store")
    <3>1. cb' = [cb EXCEPT ![c] = "store"]
      BY <1>4 DEF RecvAlloc
    <3> QED
      BY <2>2, <2>4, <3>1 DEF FramesTyped
  <2>7. arg' = NULL /\ Between'
    BY <2>1, <2>3, <2>5, NetAssumption DEF Owned, ServicePcs, Consuming, Between, SendPcs
  <2>8. allocated' = {b} /\ UNCHANGED <<received_frame, pc, faults>> /\ cb'[c] = "store"
    BY <2>2, <2>3, <2>5
  <2>9. "used after free" \notin faults
    BY DEF Owned
  <2> QED
    BY <2>1, <2>6, <2>7, <2>8, <2>9 DEF Owned, Consuming, Between, SendPcs
<1>5. CASE RecvAllocFails(c)
  BY <1>5 DEF RecvAllocFails, Owned, Consuming, Between, SendPcs
<1>6. CASE RecvStore(c)
  <2>a. received_frame = NULL /\ pc[0] # "renew" /\ cb[1 - c] # "store"
    BY <1>6 DEF RecvStore, OnePermission, Working, Handling
  <2>1. received_frame = NULL /\ pc[0] # "renew" /\ \A d \in {0, 1} : d # c => cb[d] # "store"
    BY <2>a
  <2>2. fresh[c] \in allocated /\ \A d \in Core : d # c => fresh[d] = NULL
    BY <1>6, <2>1 DEF RecvStore, Owned
  <2>b. \A x \in allocated : x = received_frame \/ \E d \in Core : x = fresh[d]
    BY DEF Owned
  <2>3. allocated \subseteq {fresh[c]}
    <3>1. NULL \notin allocated
      BY NetAssumption DEF FramesTyped
    <3> QED
      BY <2>1, <2>2, <2>b, <3>1
  <2>4. arg = NULL /\ Between
    <3>1. received_frame \notin allocated
      BY <2>1, NetAssumption DEF FramesTyped
    <3> QED
      BY <2>1, <3>1 DEF Owned, ServicePcs, Consuming, Between, SendPcs
  <2>5. /\ UNCHANGED <<allocated, arg, pc, faults>> /\ cb' = [cb EXCEPT ![c] = "task"]
        /\ received_frame' = fresh[c] /\ fresh' = [fresh EXCEPT ![c] = NULL]
    BY <1>6 DEF RecvStore
  <2>6. \A d \in Core : fresh'[d] = NULL /\ cb'[d] # "store"
    BY <2>1, <2>2, <2>5 DEF FramesTyped
  <2> QED
    BY <2>2, <2>3, <2>4, <2>5, <2>6 DEF Owned, Consuming, Between, SendPcs
<1>7. CASE InitCheck(c)
  BY <1>7, <1>u, OwnedWhenFramesStay DEF InitCheck
<1>8. CASE InitCleanup(c) \/ InitForget(c)
  BY <1>8 DEF InitCleanup, InitForget, OnePermission
<1>9. CASE InitOpen(c)
  <2>1. UNCHANGED <<rx, pc>> /\ faults' = LossMadeGood /\ cb[c] = "open" /\ cb' = [cb EXCEPT ![c] = "task"]
    BY <1>9 DEF InitOpen
  <2>2. \A d \in Core : (cb'[d] = "store") <=> (cb[d] = "store")
    BY <2>1
  <2>3. "used after free" \notin faults'
    BY <2>1 DEF Owned, LossMadeGood
  <2> QED
    BY <2>1, <2>2, <2>3, OwnedWhenFramesStay
<1> QED
  BY <1>1, <1>2, <1>3, <1>4, <1>5, <1>6, <1>7, <1>8, <1>9 DEF TudTask

LEMMA OwnedStays ==
    ASSUME FramesTyped, PlacesTyped, InTask, OnePermission, Owned, Next
    PROVE  Owned'
<1> USE DEF PlacesTyped, Core, rx
<1>u. "used after free" \notin faults
  BY DEF Owned
<1>1. ASSUME NEW c \in Core, TudTask(c) PROVE Owned'
  BY <1>1, TudTaskKeepsOwned
<1>2. ASSUME NEW c \in Core, Send(c) PROVE Owned'
  <2>1. UNCHANGED rx /\ faults' \subseteq faults \cup {"frame spoilt"}
    BY <1>2 DEF Send, SendReady, SendCan, SendXmit, SendCopy, SendStart
  <2>2. UNCHANGED cb \/ (Inside(c, "task") /\ cb[c] = "none")
    BY <1>2 DEF Send, SendReady, SendCan, SendXmit, SendCopy, SendStart
  <2>3. \A d \in Core : (cb'[d] = "store") <=> (cb[d] = "store")
    BY <2>2 DEF Inside
  <2>4. pc[c] \in SendPcs
        /\ (UNCHANGED pc \/ (c = 0 /\ Goto(c, IF arg = NULL THEN "task" ELSE "replied"))
             \/ (c = 1 /\ Goto(c, "loop"))
             \/ \E l \in {"can", "xmit", "copy", "start"} : Goto(c, l))
    BY <1>2 DEF Send, SendReady, SendCan, SendXmit, SendCopy, SendStart, SendReturns, SendPcs
  <2>5. pc'[0] = pc[0] \/ (Consuming /\ Consuming') \/ (Between /\ Between')
    <3>1. CASE pc'[0] = pc[0]
      BY <3>1
    <3>2. CASE pc'[0] # pc[0]
      <4>1. pc[0] \in SendPcs /\ pc'[0] \in SendPcs \cup {IF arg = NULL THEN "task" ELSE "replied"}
        BY <2>4, <3>2 DEF Goto, SendPcs
      <4>2. CASE arg = NULL
        BY <2>1, <4>1, <4>2 DEF Between
      <4>3. CASE arg # NULL
        BY <2>1, <4>1, <4>3 DEF Consuming
      <4> QED
        BY <4>2, <4>3
    <3> QED
      BY <3>1, <3>2
  <2> QED
    BY <2>1, <2>3, <2>5 DEF Owned, Consuming, Between, SendPcs
<1>3. CASE RunTask
  BY <1>3, <1>u, OwnedWhenFramesStay DEF RunTask, Inside
<1>4. CASE ServiceCheck
  <2>1. UNCHANGED <<rx, faults, cb>> /\ pc[0] = "service"
        /\ pc'[0] = IF received_frame # NULL THEN "input" ELSE "timers"
    BY <1>4 DEF ServiceCheck, Goto
  <2> QED
    BY <2>1 DEF Owned, Consuming, Between, SendPcs
<1>5. CASE ServiceInput
  BY <1>5 DEF ServiceInput, Goto, Owned, Consuming, Between, SendPcs
<1>6. CASE InputReplies
  BY <1>6, <1>u, OwnedWhenFramesStay DEF InputReplies, Goto, Consuming, Between, SendPcs
<1>7. CASE InputOk
  <2>1. /\ pc[0] \in {"lwip", "replied"} /\ pc'[0] = "clear" /\ arg' = NULL
        /\ allocated' = allocated \ {arg} /\ UNCHANGED <<received_frame, fresh, cb>>
        /\ arg \in allocated => UNCHANGED faults
    BY <1>7 DEF InputOk, Goto, Free
  <2>2. arg = received_frame /\ received_frame \in allocated /\ received_frame # NULL
    BY <2>1, NetAssumption DEF Owned, Consuming, FramesTyped
  <2>3. \A c \in Core : cb[c] # "store"
    BY <2>2 DEF OnePermission, Working, Handling
  <2> QED
    BY <2>1, <2>2, <2>3 DEF Owned, Consuming, Between, SendPcs
<1>8. CASE InputFails
  BY <1>8 DEF InputFails, Goto, Owned, Consuming, Between, SendPcs
<1>9. CASE ServiceError
  <2>1. /\ pc[0] = "error" /\ pc'[0] = "clear" /\ UNCHANGED <<received_frame, arg, fresh, cb>>
        /\ allocated' = allocated \ {received_frame}
        /\ received_frame \in allocated => UNCHANGED faults
    BY <1>9 DEF ServiceError, Goto, Free
  <2>2. received_frame \in allocated /\ received_frame # NULL
    BY <2>1, NetAssumption DEF Owned, Consuming, FramesTyped
  <2>3. \A c \in Core : cb[c] # "store"
    BY <2>2 DEF OnePermission, Working, Handling
  <2> QED
    BY <2>1, <2>2, <2>3 DEF Owned, Consuming, Between, SendPcs
<1>10. CASE ServiceClear
  BY <1>10 DEF ServiceClear, Goto, Owned, Consuming, Between, SendPcs
<1>11. CASE ServiceRenew
  BY <1>11 DEF ServiceRenew, Goto, Owned, Consuming, Between, SendPcs
<1>12. CASE ServiceTimers
  BY <1>12 DEF ServiceTimers, Goto, Owned, Consuming, Between, SendPcs
<1>13. CASE DoSend
  <2>1. UNCHANGED <<rx, cb, faults>> /\ pc'[0] = pc[0]
    BY <1>13 DEF DoSend, Goto
  <2> QED
    BY <2>1, <1>u, OwnedWhenFramesStay
<1>14. CASE HostSends \/ HostTakes \/ HostInits \/ HostUnplugs
  BY <1>14, <1>u, OwnedWhenFramesStay DEF HostSends, HostTakes, HostInits, HostUnplugs
<1> QED
  BY <1>1, <1>2, <1>3, <1>4, <1>5, <1>6, <1>7, <1>8, <1>9, <1>10, <1>11, <1>12, <1>13, <1>14, StepOfNext
     DEF Step

-----------------------------------------------------------------------------
(* One transmission at a time, until core 0 has transmitted *)
LEMMA Core1Stays == ASSUME PlacesTyped, NEW to, Goto(0, to) PROVE pc'[1] = pc[1]
  BY DEF PlacesTyped, Goto, Core

LEMMA TransmissionWhenDriverStays ==
    ASSUME PlacesTyped, OneTransmission, UNCHANGED <<events, tx>>,
           "frame spoilt" \notin faults',
           UNCHANGED pc \/ (\E l \in ServicePcs \ {"replied"} : Goto(0, l))
             \/ (\E l \in {"ready", "can", "loop"} : Goto(1, l))
    PROVE  OneTransmission'
<1>1. pc'[0] \notin SendPcs \cup {"replied"}
  BY DEF OneTransmission, PlacesTyped, Goto, Core, ServicePcs, SendPcs
<1>2. pc'[1] \in {"xmit", "copy", "start"} => pc'[1] = pc[1]
  <2>1. ASSUME NEW to, Goto(0, to) PROVE pc'[1] = pc[1]
    BY <2>1, Core1Stays
  <2>2. ASSUME NEW to \in {"ready", "can", "loop"}, Goto(1, to) PROVE pc'[1] = to
    BY <2>2 DEF PlacesTyped, Goto, Core
  <2> QED
    BY <2>1, <2>2
<1> QED
  BY <1>1, <1>2, EventsStay DEF OneTransmission, AcceptedIsSent, tx

LEMMA OneTransmissionStays ==
    ASSUME DriverTyped, PlacesTyped, FramesTyped, InTask, OneSetup, OneTransmission, Next,
           ~replied'
    PROVE  OneTransmission'
<1> USE DEF PlacesTyped, Core, tx, AcceptedIsSent
<1>a. "frame spoilt" \notin faults
  BY DEF OneTransmission
<1>1. ASSUME NEW c \in Core, TudTask(c) PROVE OneTransmission'
  <2>1. CASE TakeEvent(c)
    <3>1. events' = Tail(events) /\ events # <<>> /\ events \in Seq(Event)
      BY <2>1 DEF TakeEvent, DriverTyped
    <3>2. Once({"tx"})' /\ (Queued({"tx"})' => Queued({"tx"}))
          /\ (Head(events) = "tx" => Queued({"tx"}) /\ ~Queued({"tx"})')
      BY <3>1, EventTaken DEF OneTransmission
    <3>3. CASE Head(events) = "tx"
      BY <2>1, <3>2, <3>3 DEF TakeEvent, OneTransmission
    <3>4. CASE Head(events) # "tx"
      <4>1. UNCHANGED <<pc, can_xmit, txbuf, faults>> /\ (inflight' = Nobody \/ UNCHANGED inflight)
        BY <2>1, <3>4 DEF TakeEvent
      <4> QED
        BY <3>2, <4>1 DEF OneTransmission
    <3> QED
      BY <3>3, <3>4
  <2>2. CASE LeaveTask(c)
    <3>1. Goto(0, "service") \/ Goto(1, "ready")
      BY <2>2 DEF LeaveTask, InTask, OneTransmission, SendPcs
    <3> QED
      BY <2>2, <3>1, <1>a, TransmissionWhenDriverStays DEF LeaveTask, ServicePcs
  <2>3. CASE RecvCheck(c) \/ RecvAlloc(c) \/ RecvAllocFails(c) \/ RecvStore(c)
    BY <2>3, <1>a, TransmissionWhenDriverStays DEF RecvCheck, RecvAlloc, RecvAllocFails, RecvStore
  <2>4. CASE InitCheck(c) \/ InitCleanup(c) \/ InitForget(c)
    BY <2>4, <1>a, TransmissionWhenDriverStays DEF InitCheck, InitCleanup, InitForget, Free
  <2>5. CASE InitOpen(c)
    <3>1. ~Queued({"tx"}) /\ inflight = Nobody
      BY <2>5 DEF InitOpen, OneSetup, Initing
    <3>2. "frame spoilt" \notin faults'
      BY <1>a, <2>5 DEF InitOpen, LossMadeGood
    <3> QED
      BY <2>5, <3>1, <3>2, EventsStay DEF InitOpen, OneTransmission
  <2> QED
    BY <1>1, <2>1, <2>2, <2>3, <2>4, <2>5 DEF TudTask
<1>2. ASSUME NEW c \in Core, Send(c) PROVE OneTransmission'
  <2>0. c = 1 /\ pc[1] \in SendPcs /\ UNCHANGED events
    BY <1>2 DEF Send, SendReady, SendCan, SendXmit, SendCopy, SendStart, OneTransmission, SendPcs
  <2>1. CASE SendReady(c)
    <3>1. Goto(1, "can") \/ Goto(1, "loop")
      BY <2>0, <2>1 DEF SendReady, SendReturns
    <3> QED
      BY <2>1, <3>1, <1>a, TransmissionWhenDriverStays DEF SendReady
  <2>2. CASE SendCan(c)
    <3>1. CASE can_xmit
      BY <2>0, <2>2, <3>1, EventsStay DEF SendCan, OneTransmission, Goto
    <3>2. CASE ~can_xmit
      BY <2>0, <2>2, <3>2, <1>a, TransmissionWhenDriverStays DEF SendCan
    <3> QED
      BY <3>1, <3>2
  <2>3. CASE SendXmit(c)
    BY <2>0, <2>3, EventsStay DEF SendXmit, OneTransmission, Goto
  <2>4. CASE SendCopy(c)
    BY <2>0, <2>4, EventsStay DEF SendCopy, OneTransmission, Goto
  <2>5. CASE SendStart(c)
    <3>1. can_xmit /\ inflight = Nobody /\ txbuf = 1 /\ ~Queued({"tx"})
      BY <2>0, <2>5 DEF SendStart, OneTransmission
    <3>2. Goto(1, "loop") /\ can_xmit' = FALSE /\ UNCHANGED <<txbuf, faults, events>>
      BY <2>0, <2>5, <3>1 DEF SendStart, SendReturns
    <3> QED
      BY <3>1, <3>2, EventsStay DEF OneTransmission, Goto
  <2> QED
    BY <1>2, <2>1, <2>2, <2>3, <2>4, <2>5 DEF Send
<1>3. CASE RunTask \/ ServiceCheck \/ ServiceClear \/ ServiceRenew \/ DoSend
  BY <1>3, <1>a, TransmissionWhenDriverStays
     DEF RunTask, ServiceCheck, ServiceClear, ServiceRenew, DoSend, ServicePcs
<1>4. CASE ServiceInput \/ InputFails \/ InputOk \/ ServiceError
  BY <1>4, <1>a, TransmissionWhenDriverStays
     DEF ServiceInput, InputFails, InputOk, ServiceError, Free, ServicePcs
<1>5. CASE InputReplies \/ ServiceTimers
  BY <1>5, <1>a, TransmissionWhenDriverStays DEF InputReplies, ServiceTimers, ServicePcs
<1>6. CASE HostSends \/ HostInits \/ HostUnplugs
  <2>1. \E e \in {"rx", "init", "unplug"} : events' = Append(events, e)
    BY <1>6 DEF HostSends, HostInits, HostUnplugs
  <2>2. Once({"tx"})' /\ (Queued({"tx"})' => Queued({"tx"}))
    BY <2>1, EventPosted DEF Event, DriverTyped, OneTransmission
  <2> QED
    <3>1. UNCHANGED <<pc, can_xmit, txbuf, inflight, faults>>
      BY <1>6 DEF HostSends, HostInits, HostUnplugs
    <3> QED
      BY <2>2, <3>1 DEF OneTransmission
<1>7. CASE HostTakes
  <2>1. events' = Append(events, "tx") /\ ~Queued({"tx"}) /\ ~can_xmit
    BY <1>7 DEF HostTakes, OneTransmission
  <2>2. Once({"tx"})'
    BY <2>1, EventPosted DEF Event, DriverTyped, OneTransmission
  <2> QED
    BY <1>7, <2>1, <2>2 DEF HostTakes, OneTransmission
<1> QED
  BY <1>1, <1>2, <1>3, <1>4, <1>5, <1>6, <1>7, StepOfNext DEF Step

(* A transmission of core 0 is not taken back *)
LEMMA RepliedStays == DriverTyped /\ Next /\ ~replied' => ~replied
<1> SUFFICES ASSUME DriverTyped, Next PROVE replied => replied'
  OBVIOUS
<1> USE DEF DriverTyped, host
<1>1. ASSUME NEW c \in Core, TudTask(c) \/ Send(c) PROVE UNCHANGED replied
  BY <1>1 DEF TudTask, TakeEvent, LeaveTask, RecvCheck, RecvAlloc, RecvAllocFails, RecvStore,
     InitCheck, InitCleanup, InitForget, InitOpen,
     Send, SendReady, SendCan, SendXmit, SendCopy, SendStart
<1>2. CASE \/ RunTask \/ ServiceCheck \/ ServiceInput \/ InputReplies \/ InputOk
           \/ InputFails \/ ServiceError \/ ServiceClear \/ ServiceRenew \/ ServiceTimers \/ DoSend
  BY <1>2 DEF RunTask, ServiceCheck, ServiceInput, InputReplies, InputOk, InputFails,
     ServiceError, ServiceClear, ServiceRenew, ServiceTimers, DoSend
<1>3. CASE HostSends \/ HostTakes \/ HostInits \/ HostUnplugs
  BY <1>3 DEF HostSends, HostTakes, HostInits, HostUnplugs
<1> QED
  BY <1>1, <1>2, <1>3, StepOfNext DEF Step

-----------------------------------------------------------------------------
LEMMA NextKeepsInv == Inv /\ [Next]_vars => Inv'
<1> SUFFICES ASSUME Inv, [Next]_vars PROVE Inv'
  OBVIOUS
<1>1. CASE Next
  <2>1. FramesTyped /\ DriverTyped /\ PlacesTyped /\ InTask /\ OneSetup
    BY DEF Inv, Typed
  <2>2. Typed' /\ InTask'
    BY <1>1, <2>1, FramesStayTyped, DriverStaysTyped, PlacesStayTyped DEF Typed
  <2>3. OneSetup'
    BY <1>1, <2>1, OneSetupStays
  <2>4. ASSUME FirstConnection' PROVE OnePermission' /\ Owned'
    <3>1. OnePermission /\ Owned
      BY <1>1, <2>1, <2>4, FirstConnectionWas DEF Inv
    <3> QED
      BY <1>1, <2>1, <2>4, <3>1, OnePermissionStays, OwnedStays
  <2>5. ASSUME ~replied' PROVE OneTransmission'
    <3>1. OneTransmission
      BY <1>1, <2>1, <2>5, RepliedStays DEF Inv
    <3> QED
      BY <1>1, <2>1, <2>5, <3>1, OneTransmissionStays
  <2> QED
    BY <2>2, <2>3, <2>4, <2>5 DEF Inv
<1>2. CASE UNCHANGED vars
  <2> USE DEF vars, rx, tx, host
  <2>1. Typed' /\ InTask'
    <3>1. FramesTyped'
      BY <1>2 DEF Inv, Typed, FramesTyped
    <3>2. DriverTyped'
      BY <1>2 DEF Inv, Typed, DriverTyped
    <3>3. PlacesTyped' /\ InTask'
      BY <1>2 DEF Inv, Typed, PlacesTyped, InTask
    <3> QED
      BY <3>1, <3>2, <3>3 DEF Typed
  <2>2. OneSetup'
    BY <1>2, EventsStay DEF Inv, OneSetup, Initing
  <2>3. FirstConnection' => OnePermission' /\ Owned'
    BY <1>2, EventsStay DEF Inv, FirstConnection, OnePermission, Working, Handling, Owned,
       Consuming, Between
  <2>4. ~replied' => OneTransmission'
    BY <1>2, EventsStay DEF Inv, OneTransmission, AcceptedIsSent
  <2> QED
    BY <2>1, <2>2, <2>3, <2>4 DEF Inv
<1> QED
  BY <1>1, <1>2

LEMMA NetGlueInvariant == Spec => []Inv
<1> QED
  BY InitInv, NextKeepsInv, PTL DEF Spec

-----------------------------------------------------------------------------
(* The glue's variables keep their types (tusb_lwip_glue.c). *)
THEOREM NetGlueTypeOK == Spec => []TypeOK
<1>1. Inv => TypeOK
  BY DEF Inv, Typed, FramesTyped, DriverTyped, PlacesTyped, TypeOK, Event
<1> QED
  BY <1>1, NetGlueInvariant, PTL

(* However recv_cb on one core meets service_traffic on the other, no pbuf  *)
(* is freed twice or given to lwIP after it was freed                       *)
(* (tusb_lwip_glue.c:190-195).                                              *)
THEOREM NetGlueNoUseAfterFree == Spec => []NoUseAfterFree
<1>1. Inv => NoUseAfterFree
  BY DEF Inv, Owned, NoUseAfterFree
<1> QED
  BY <1>1, NetGlueInvariant, PTL

(* Nor is one lost (tusb_lwip_glue.c:151-159, 192-194). *)
THEOREM NetGlueNoLeak == Spec => []NoLeak
<1>1. Inv => NoLeak
  BY DEF Inv, Owned, NoLeak
<1> QED
  BY <1>1, NetGlueInvariant, PTL

(* recv_cb never finds a packet that was not parsed yet                     *)
(* (tusb_lwip_glue.c:145).                                                  *)
THEOREM NetGlueOnePacketAtATime == Spec => []OnePacketAtATime
<1>1. Inv => OnePacketAtATime
  BY DEF Inv, OnePermission, Working, Handling, OnePacketAtATime
<1> QED
  BY <1>1, NetGlueInvariant, PTL

(* What core 1 reports as sent is sent as it is, across any number of       *)
(* reconnections, as long as core 0 transmits nothing                        *)
(* (tusb_lwip_glue.c:77-81).                                                *)
THEOREM NetGlueOneSender == Spec => []OneSender
<1>1. Inv => OneSender
  BY DEF Inv, OneTransmission, OneSender
<1> QED
  BY <1>1, NetGlueInvariant, PTL
=============================================================================
