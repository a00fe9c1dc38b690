--------------------------- MODULE LibraryProofs ----------------------------
(***************************************************************************)
(* Proofs about two libraries the firmware and its neighbours are built    *)
(* from.  First the search of the one-wire bus, for codes of every width   *)
(* and every number of devices.  Then Wire, for buffers, memories and      *)
(* transfers of every size, and any number of late interrupts.             *)
(***************************************************************************)
EXTENDS OneWireSearch, Wire, FiniteSetTheorems, WellFoundedInduction, NaturalsInduction, TLAPS

-----------------------------------------------------------------------------
(* The code read so far is the beginning of a device's code: who takes part *)
(* agrees with it, and somebody did when its last bit was written (Follows). *)
Agrees(d, n) == \A j \in 1 .. n - 1 : d[j] = rom_addr[j]
Follows ==
    pc = "bit" =>
      /\ listening \subseteq seen
      /\ \A d \in listening : Agrees(d, rom_bit_index)
      /\ rom_bit_index > 1 => \E d \in seen : Agrees(d, rom_bit_index)

RealInv == TypeOK /\ present \subseteq seen /\ Follows /\ ListedIsReal

LEMMA InitTypeOK == Init => TypeOK
<1> SUFFICES ASSUME Init PROVE TypeOK
  OBVIOUS
<1>1. present \subseteq Valid /\ listening \subseteq Valid /\ seen \subseteq Valid
  BY DEF Init
<1>2. pc \in {"idle", "next", "bit", "returned"} /\ result \in 0 .. 2
  BY DEF Init
<1>3. addr_list \in Seq(Valid) /\ Len(addr_list) <= addr_list_size
  BY SearchAssumption DEF Init
<1>4. rom_addr \in Code
  BY DEF Init, Code
<1>5. done \in BOOLEAN /\ disturbed \in BOOLEAN
  BY DEF Init
<1>6. /\ last_discrepancy \in 0 .. Width /\ discrepancy \in 0 .. Width
      /\ rom_bit_index \in 1 .. Width + 1
      /\ changes \in 0 .. MaxChanges /\ noise \in 0 .. MaxNoise
  BY SearchAssumption DEF Init
<1> QED
  BY <1>1, <1>2, <1>3, <1>4, <1>5, <1>6 DEF TypeOK

LEMMA DirectionIsBit ==
    ASSUME TypeOK, NEW r \in (0 .. 1) \X (0 .. 1), rom_bit_index <= Width
    PROVE  Direction(r) \in 0 .. 1
<1>1. r[1] \in 0 .. 1
  OBVIOUS
<1>2. rom_bit_index \in Bit /\ rom_addr \in [Bit -> 0 .. 1]
  BY SearchAssumption DEF TypeOK, Bit, Code
<1> QED
  BY <1>1, <1>2 DEF Direction

(* No step leaves the types *)
LEMMA NextTypeOK == TypeOK /\ [Next]_vars => TypeOK'
<1> SUFFICES ASSUME TypeOK, [Next]_vars PROVE TypeOK'
  OBVIOUS
<1> USE DEF TypeOK
<1>0. [b \in Bit |-> 0] \in Code
  BY DEF Code
<1>1. CASE Call
  <2>1. addr_list' \in Seq(Valid) /\ Len(addr_list') <= addr_list_size
    BY <1>1, SearchAssumption DEF Call
  <2>2. done' \in BOOLEAN /\ disturbed' \in BOOLEAN
    BY <1>1 DEF Call
  <2>3. pc' \in {"idle", "next", "bit", "returned"} /\ result' \in 0 .. 2
    BY <1>1 DEF Call, Return
  <2>4. last_discrepancy' \in 0 .. Width /\ rom_addr' \in Code /\ seen' \subseteq Valid
    BY <1>0, <1>1, SearchAssumption DEF Call
  <2>5. UNCHANGED <<listening, rom_bit_index, discrepancy, present, changes, noise>>
    BY <1>1 DEF Call, pass
  <2> QED
    BY <2>1, <2>2, <2>3, <2>4, <2>5
<1>2. CASE NoMore \/ NobodyLeft
  <2>1. done' \in BOOLEAN /\ disturbed' \in BOOLEAN
    BY <1>2, Zenon DEF NoMore, NobodyLeft, outside
  <2>2. last_discrepancy' \in 0 .. Width
    BY <1>2, SearchAssumption DEF NoMore, NobodyLeft
  <2>3. pc' \in {"idle", "next", "bit", "returned"} /\ result' \in 0 .. 2
    BY <1>2 DEF NoMore, NobodyLeft, Return
  <2>4. /\ UNCHANGED <<addr_list, rom_addr, listening, rom_bit_index, discrepancy>>
        /\ UNCHANGED <<present, changes, noise, seen>>
    BY <1>2 DEF NoMore, NobodyLeft, pass, outside
  <2> QED
    BY <2>1, <2>2, <2>3, <2>4
<1>3. CASE Start
  BY <1>3, SearchAssumption DEF Start, search, outside
<1>4. CASE NoAnswer
  <2>1. Reads(<<1, 1>>)
    BY <1>4 DEF NoAnswer
  <2>2. noise' \in 0 .. MaxNoise
    BY <2>1, SearchAssumption DEF Reads
  <2>3. disturbed' \in BOOLEAN
    BY <2>1, Zenon DEF Reads
  <2> QED
    BY <1>4, <2>2, <2>3, SearchAssumption DEF NoAnswer, Return, pass
<1>5. CASE FollowBit
  <2>1. PICK r \in (0 .. 1) \X (0 .. 1) :
           /\ Reads(r)
           /\ rom_addr' = [rom_addr EXCEPT ![rom_bit_index] = Direction(r)]
           /\ discrepancy' = IF Postponed(r) THEN rom_bit_index ELSE discrepancy
           /\ listening' = {d \in listening : d[rom_bit_index] = Direction(r)}
    BY <1>5 DEF FollowBit
  <2>2. /\ pc = "bit" /\ rom_bit_index <= Width /\ rom_bit_index' = rom_bit_index + 1
        /\ UNCHANGED <<addr_list, done, last_discrepancy, pc, result, present, changes, seen>>
    BY <1>5 DEF FollowBit
  <2>3. noise' \in 0 .. MaxNoise
    BY <2>1, SearchAssumption DEF Reads
  <2>6. disturbed' \in BOOLEAN
    BY <2>1, Zenon DEF Reads
  <2>4. rom_addr' \in Code
    BY <2>1, <2>2, DirectionIsBit DEF Code
  <2>5. discrepancy' \in 0 .. Width /\ rom_bit_index' \in 1 .. Width + 1 /\ listening' \subseteq Valid
    BY <2>1, <2>2, SearchAssumption
  <2> QED
    BY <2>2, <2>3, <2>4, <2>5, <2>6
<1>6. CASE Found
  <2>1. addr_list' \in Seq(Valid) /\ Len(addr_list') <= addr_list_size
    BY <1>6, SearchAssumption DEF Found
  <2>2. pc' \in {"idle", "next", "bit", "returned"} /\ result' \in 0 .. 2
    BY <1>6 DEF Found, Return
  <2>3. last_discrepancy' \in 0 .. Width /\ done' \in BOOLEAN
    BY <1>6 DEF Found
  <2> QED
    BY <1>6, <2>1, <2>2, <2>3 DEF Found, pass, outside
<1>7. CASE Plug \/ Unplug
  <2>1. changes' \in 0 .. MaxChanges
    BY <1>7, SearchAssumption DEF Plug, Unplug
  <2>2. present' \subseteq Valid /\ seen' \subseteq Valid /\ listening' \subseteq Valid
    BY <1>7 DEF Plug, Unplug, pass
  <2> QED
    BY <1>7, <2>1, <2>2 DEF Plug, Unplug, pass, search
<1>8. CASE UNCHANGED vars
  BY <1>8 DEF vars, search, pass, outside
<1> QED
  BY <1>1, <1>2, <1>3, <1>4, <1>5, <1>6, <1>7, <1>8 DEF Next, SearchStep

(* The search keeps its types, for every width, list and set of devices. *)
THEOREM SearchTypeCorrect == Spec => []TypeOK
  BY InitTypeOK, NextTypeOK, PTL DEF Spec

-----------------------------------------------------------------------------
LEMMA InitRealInv == Init => RealInv
<1> SUFFICES ASSUME Init PROVE RealInv
  OBVIOUS
<1>1. addr_list = <<>> /\ seen = present /\ pc = "idle"
  BY DEF Init
<1> QED
  BY <1>1, InitTypeOK DEF RealInv, Follows, ListedIsReal, Listed

(* A bit that is read as it is on the bus is the bit of a device *)
LEMMA SomebodyAgrees ==
    ASSUME TypeOK, rom_bit_index \in Bit,
           NEW r, r = BusReads(listening, rom_bit_index), r # <<1, 1>>
    PROVE  \E d \in listening : d[rom_bit_index] = Direction(r)
<1>1. \A d \in listening : d[rom_bit_index] \in 0 .. 1
  BY SearchAssumption DEF TypeOK, Code
<1>2. CASE r = <<0, 0>>
  <2>1. /\ ~ \A d \in listening : d[rom_bit_index] = 1
        /\ ~ \A d \in listening : d[rom_bit_index] = 0
    BY <1>2 DEF BusReads
  <2>2. (\E d \in listening : d[rom_bit_index] = 0) /\ (\E d \in listening : d[rom_bit_index] = 1)
    BY <1>1, <2>1
  <2>3. Direction(r) \in 0 .. 1
    BY <1>2, SearchAssumption DEF Direction, TypeOK, Code
  <2> QED
    BY <2>2, <2>3
<1>3. CASE r # <<0, 0>>
  <2>1. Direction(r) = r[1]
    BY <1>3 DEF Direction
  <2>2. CASE \A d \in listening : d[rom_bit_index] = 1
    <3>1. r[1] = 1
      BY <2>2 DEF BusReads
    <3>2. ~ \A d \in listening : d[rom_bit_index] = 0
      BY <2>2 DEF BusReads
    <3> QED
      BY <2>1, <2>2, <3>1, <3>2
  <2>3. CASE ~ \A d \in listening : d[rom_bit_index] = 1
    <3>1. r[1] = 0
      BY <2>3 DEF BusReads
    <3> QED
      BY <1>1, <2>1, <2>3, <3>1
  <2> QED
    BY <2>2, <2>3
<1> QED
  BY <1>2, <1>3

(* One more bit of the code is that of whoever goes on taking part *)
LEMMA FollowBitRealInv ==
    ASSUME RealInv, TypeOK', FollowBit, MaxNoise = 0
    PROVE  RealInv'
<1>1. PICK r \in (0 .. 1) \X (0 .. 1) :
         /\ r # <<1, 1>> /\ Reads(r)
         /\ rom_addr' = [rom_addr EXCEPT ![rom_bit_index] = Direction(r)]
         /\ listening' = {d \in listening : d[rom_bit_index] = Direction(r)}
  BY DEF FollowBit
<1>2. /\ pc = "bit" /\ rom_bit_index <= Width /\ rom_bit_index' = rom_bit_index + 1
      /\ UNCHANGED <<addr_list, pc, present, seen>>
  BY DEF FollowBit
<1>3. TypeOK /\ present \subseteq seen /\ Follows /\ ListedIsReal
  BY DEF RealInv
<1>4. rom_bit_index \in Bit /\ rom_bit_index \in Nat /\ rom_addr \in [Bit -> 0 .. 1]
  BY <1>2, <1>3, SearchAssumption DEF TypeOK, Bit, Code
<1>5. r = BusReads(listening, rom_bit_index)
  BY <1>1, <1>3 DEF Reads, TypeOK
<1>6. ASSUME NEW d \in listening, d[rom_bit_index] = Direction(r)
      PROVE  Agrees(d, rom_bit_index)'
  <2>1. Agrees(d, rom_bit_index)
    BY <1>2, <1>3 DEF Follows
  <2>2. ASSUME NEW j \in 1 .. rom_bit_index' - 1 PROVE d[j] = rom_addr'[j]
    <3>1. j \in Bit
      BY <1>2, <1>4, SearchAssumption DEF Bit
    <3>2. CASE j = rom_bit_index
      BY <1>1, <1>4, <1>6, <3>2
    <3>3. CASE j # rom_bit_index
      <4>1. j \in 1 .. rom_bit_index - 1
        BY <1>2, <1>4, <3>3
      <4>2. rom_addr'[j] = rom_addr[j]
        BY <1>1, <1>4, <3>1, <3>3
      <4> QED
        BY <2>1, <4>1, <4>2 DEF Agrees
    <3> QED
      BY <3>2, <3>3
  <2> QED
    BY <2>2 DEF Agrees
<1>7. PICK d \in listening : d[rom_bit_index] = Direction(r)
  BY <1>1, <1>3, <1>4, <1>5, SomebodyAgrees
<1>8. listening \subseteq seen
  BY <1>2, <1>3 DEF Follows
<1>9. Follows'
  <2>1. \A e \in listening' : Agrees(e, rom_bit_index)'
    BY <1>1, <1>6
  <2>2. \E e \in seen' : Agrees(e, rom_bit_index)'
    BY <1>2, <1>6, <1>7, <1>8
  <2>3. listening' \subseteq seen'
    BY <1>1, <1>2, <1>8
  <2> QED
    BY <2>1, <2>2, <2>3 DEF Follows, Agrees
<1>10. (present \subseteq seen)' /\ ListedIsReal'
  BY <1>2, <1>3 DEF ListedIsReal, Listed
<1> QED
  BY <1>9, <1>10 DEF RealInv

(* A whole code that agrees with a device's is that device's *)
LEMMA FoundRealInv ==
    ASSUME RealInv, TypeOK', Found
    PROVE  RealInv'
<1>1. pc = "bit" /\ rom_bit_index > Width /\ pc' \in {"next", "returned"} /\ UNCHANGED <<present, seen>>
  BY DEF Found, Return, outside
<1>2. TypeOK /\ present \subseteq seen /\ Follows /\ ListedIsReal
  BY DEF RealInv
<1>3. rom_addr \in seen
  <2>1. rom_bit_index - 1 = Width /\ rom_bit_index > 1
    BY <1>1, <1>2, SearchAssumption DEF TypeOK
  <2>2. PICK d \in seen : Agrees(d, rom_bit_index)
    BY <1>1, <1>2, <2>1 DEF Follows
  <2>3. d \in [Bit -> 0 .. 1] /\ rom_addr \in [Bit -> 0 .. 1]
    BY <1>2, SearchAssumption DEF TypeOK, Code
  <2>4. \A j \in Bit : d[j] = rom_addr[j]
    BY <2>1, <2>2 DEF Agrees, Bit
  <2>5. d = rom_addr
    BY <2>3, <2>4
  <2> QED
    BY <2>5
<1>4. addr_list' = addr_list \/ addr_list' = Append(addr_list, rom_addr)
  BY DEF Found
<1>5. Listed' \subseteq Listed \cup {rom_addr}
  <2>1. addr_list \in Seq(Valid)
    BY <1>2 DEF TypeOK
  <2>2. CASE addr_list' = addr_list
    BY <2>2 DEF Listed
  <2>3. CASE addr_list' = Append(addr_list, rom_addr)
    <3>1. Len(addr_list') = Len(addr_list) + 1 /\ Len(addr_list) \in Nat
      BY <2>1, <2>3
    <3>2. ASSUME NEW n \in 1 .. Len(addr_list') PROVE addr_list'[n] \in Listed \cup {rom_addr}
      BY <2>1, <2>3, <3>1 DEF Listed
    <3> QED
      BY <3>2 DEF Listed
  <2> QED
    BY <1>4, <2>2, <2>3
<1>6. ListedIsReal'
  BY <1>1, <1>2, <1>3, <1>5 DEF ListedIsReal
<1> QED
  BY <1>1, <1>2, <1>6 DEF RealInv, Follows

LEMMA NextRealInv == MaxNoise = 0 /\ RealInv /\ [Next]_vars => RealInv'
<1> SUFFICES ASSUME MaxNoise = 0, RealInv, [Next]_vars PROVE RealInv'
  OBVIOUS
<1>0. TypeOK' /\ TypeOK /\ present \subseteq seen /\ Follows /\ ListedIsReal
  BY NextTypeOK DEF RealInv
<1>1. CASE Call
  <2>1. addr_list' = <<>> /\ seen' = present /\ present' = present /\ pc' \in {"next", "returned"}
    BY <1>1 DEF Call, Return
  <2> QED
    BY <1>0, <2>1 DEF RealInv, Follows, ListedIsReal, Listed
<1>2. CASE NoMore \/ NobodyLeft \/ NoAnswer
  <2>1. UNCHANGED <<addr_list, seen, present>> /\ pc' = "returned"
    BY <1>2 DEF NoMore, NobodyLeft, NoAnswer, Return, outside
  <2> QED
    BY <1>0, <2>1 DEF RealInv, Follows, ListedIsReal, Listed
<1>3. CASE Start
  <2>1. /\ UNCHANGED <<addr_list, seen, present, rom_addr>>
        /\ listening' = present /\ rom_bit_index' = 1
    BY <1>3 DEF Start, search, outside
  <2>2. Follows'
    BY <1>0, <2>1 DEF Follows, Agrees
  <2> QED
    BY <1>0, <2>1, <2>2 DEF RealInv, ListedIsReal, Listed
<1>4. CASE FollowBit
  BY <1>0, <1>4, FollowBitRealInv
<1>5. CASE Found
  BY <1>0, <1>5, FoundRealInv
<1>6. CASE Plug \/ Unplug
  <2>1. /\ UNCHANGED <<addr_list, rom_addr, rom_bit_index, pc>>
        /\ seen \subseteq seen' /\ present' \subseteq seen' /\ listening' \subseteq listening
    BY <1>0, <1>6 DEF Plug, Unplug, search, pass
  <2>2. Follows'
    BY <1>0, <2>1 DEF Follows, Agrees
  <2> QED
    BY <1>0, <2>1, <2>2 DEF RealInv, ListedIsReal, Listed
<1>7. CASE UNCHANGED vars
  <2>1. UNCHANGED <<addr_list, rom_addr, rom_bit_index, pc, seen, present, listening>>
    BY <1>7 DEF vars, search, pass, outside
  <2> QED
    BY <1>0, <2>1 DEF RealInv, Follows, Agrees, ListedIsReal, Listed
<1> QED
  BY <1>1, <1>2, <1>3, <1>4, <1>5, <1>6, <1>7 DEF Next, SearchStep

(* Whoever comes or goes while the search runs, and whatever the checksum   *)
(* is, a bus that is read as it is gives codes of devices only: the CRC is  *)
(* needed for misread bits alone.                                           *)
THEOREM SearchListedIsReal ==
    ASSUME MaxNoise = 0
    PROVE  Spec => []ListedIsReal
<1>1. RealInv /\ [Next]_vars => RealInv'
  BY NextRealInv
<1>2. RealInv => ListedIsReal
  BY DEF RealInv
<1> QED
  BY <1>1, <1>2, InitRealInv, PTL DEF Spec

-----------------------------------------------------------------------------
(* The order of the codes *)
LEMMA FirstBit ==
    ASSUME NEW T \in SUBSET Bit, T # {}
    PROVE  \E b \in T : \A c \in T : b <= c
<1> DEFINE F == {1 .. b - 1 : b \in T}
<1>1. IsFiniteSet(Bit)
  BY SearchAssumption, FS_Interval DEF Bit
<1>2. F \subseteq FiniteSubsetsOf(Bit)
  <2> SUFFICES ASSUME NEW b \in T PROVE 1 .. b - 1 \in FiniteSubsetsOf(Bit)
    OBVIOUS
  <2>1. 1 .. b - 1 \subseteq Bit
    BY SearchAssumption DEF Bit
  <2> QED
    BY <1>1, <2>1, FS_Subset DEF FiniteSubsetsOf
<1>3. PICK x \in F : \A y \in F : ~(<<y, x>> \in StrictSubsetOrdering(Bit))
  <2>1. F # {}
    OBVIOUS
  <2> QED
    BY <1>2, <2>1, FS_StrictSubsetOrderingWellFounded, WFMin
<1>4. PICK b \in T : x = 1 .. b - 1
  OBVIOUS
<1>5. ASSUME NEW c \in T, c < b PROVE FALSE
  <2>1. b \in Nat /\ c \in Nat /\ 1 <= c /\ b <= Width /\ Width \in Nat
    BY SearchAssumption DEF Bit
  <2>2. 1 .. c - 1 \subseteq 1 .. b - 1 /\ 1 .. b - 1 \subseteq Bit
    BY <1>5, <2>1 DEF Bit
  <2>3. c \in 1 .. b - 1 /\ c \notin 1 .. c - 1
    BY <1>5, <2>1
  <2>4. <<1 .. c - 1, 1 .. b - 1>> \in StrictSubsetOrdering(Bit)
    BY <2>2, <2>3 DEF StrictSubsetOrdering
  <2> QED
    BY <1>3, <1>4, <2>4
<1> QED
  BY <1>5, SearchAssumption DEF Bit

LEMMA Compare ==
    ASSUME NEW c \in Code, NEW d \in Code, c # d
    PROVE  Before(c, d) \/ Before(d, c)
<1> DEFINE T == {b \in Bit : c[b] # d[b]}
<1>1. T # {}
  BY DEF Code
<1>2. PICK b \in T : \A e \in T : b <= e
  BY <1>1, FirstBit
<1>3. \A j \in 1 .. b - 1 : c[j] = d[j]
  BY <1>2, SearchAssumption DEF Bit
<1>4. c[b] \in 0 .. 1 /\ d[b] \in 0 .. 1 /\ c[b] # d[b] /\ b \in Bit
  BY DEF Code
<1>5. c[b] < d[b] \/ d[b] < c[b]
  BY <1>4
<1> QED
  BY <1>3, <1>4, <1>5 DEF Before

LEMMA NotBeforeItself ==
    ASSUME NEW c \in Code
    PROVE  ~Before(c, c)
  BY SearchAssumption DEF Before, Code

LEMMA BeforeTransitive ==
    ASSUME NEW c \in Code, NEW d \in Code, NEW e \in Code, Before(c, d), Before(d, e)
    PROVE  Before(c, e)
<1>1. PICK b \in Bit : c[b] < d[b] /\ \A j \in 1 .. b - 1 : c[j] = d[j]
  BY DEF Before
<1>2. PICK k \in Bit : d[k] < e[k] /\ \A j \in 1 .. k - 1 : d[j] = e[j]
  BY DEF Before
<1>3. b \in Nat /\ k \in Nat /\ b >= 1 /\ k >= 1
  BY DEF Bit
<1>4. /\ c[b] \in 0 .. 1 /\ d[b] \in 0 .. 1 /\ e[b] \in 0 .. 1
      /\ c[k] \in 0 .. 1 /\ d[k] \in 0 .. 1 /\ e[k] \in 0 .. 1
  BY DEF Code
<1>5. CASE b < k
  <2>1. c[b] < e[b] /\ \A j \in 1 .. b - 1 : c[j] = e[j]
    BY <1>1, <1>2, <1>3, <1>5
  <2> QED
    BY <2>1 DEF Before
<1>6. CASE k < b
  <2>1. c[k] < e[k] /\ \A j \in 1 .. k - 1 : c[j] = e[j]
    BY <1>1, <1>2, <1>3, <1>6
  <2> QED
    BY <2>1 DEF Before
<1>7. CASE k = b
  BY <1>1, <1>2, <1>4, <1>7
<1> QED
  BY <1>3, <1>5, <1>6, <1>7

LEMMA CodeFinite == IsFiniteSet(Code)
<1> DEFINE code == [s \in SUBSET Bit |-> [b \in Bit |-> IF b \in s THEN 1 ELSE 0]]
<1>1. IsFiniteSet(SUBSET Bit)
  <2>1. IsFiniteSet(Bit)
    BY SearchAssumption, FS_Interval DEF Bit
  <2> QED
    BY <2>1, FS_SUBSET
<1>2. code \in [SUBSET Bit -> Code]
  BY DEF Code
<1>3. ASSUME NEW c \in Code PROVE \E s \in SUBSET Bit : code[s] = c
  <2> DEFINE s == {b \in Bit : c[b] = 1}
  <2>1. c = [b \in Bit |-> IF b \in s THEN 1 ELSE 0]
    BY DEF Code
  <2> QED
    BY <2>1
<1>4. code \in Surjection(SUBSET Bit, Code)
  BY <1>2, <1>3, Zenon DEF Surjection
<1> HIDE DEF code
<1> QED
  BY <1>1, <1>4, FS_Surjection

-----------------------------------------------------------------------------
(* The search of a bus that nothing disturbs is a walk through the tree of  *)
(* the codes that are present.  Branch: the code c went to 0 at bit k where *)
(* a device has 1; l is the last such bit before bit k, or 0.               *)
Same(d, c, k) == \A j \in 1 .. k - 1 : d[j] = c[j]
Branch(c, k) == c[k] = 0 /\ \E d \in present : Same(d, c, k) /\ d[k] = 1
LastBranch(c, l, k) ==
    /\ l \in 0 .. k - 1
    /\ l # 0 => Branch(c, l)
    /\ \A j \in l + 1 .. k - 1 : ~Branch(c, j)

Last == addr_list[Len(addr_list)]
Ascending == \A m, n \in 1 .. Len(addr_list) : m < n => Before(addr_list[m], addr_list[n])

(* What is listed is everything up to the last device that was found *)
UpToLast ==
    /\ Listed \subseteq present /\ Ascending
    /\ addr_list # <<>> => \A d \in present : Before(d, Last) => d \in Listed

(* Between two passes the last device's code tells where to turn *)
AtNext ==
    pc = "next" =>
      /\ present # {}
      /\ addr_list = <<>> => last_discrepancy = 0 /\ ~done
      /\ addr_list # <<>> => /\ rom_addr = Last /\ (done <=> last_discrepancy = 0)
                             /\ LastBranch(Last, last_discrepancy, Width + 1)

(* In a pass: up to the turn the code is that of the last device, at it 1,  *)
(* and behind it 0 wherever there is a choice (Lowest)                      *)
Lowest ==
    \A j \in last_discrepancy + 1 .. rom_bit_index - 1 :
        rom_addr[j] = 1 => \A d \in present : Same(d, rom_addr, j) => d[j] = 1
Turns ==
    /\ addr_list = <<>> => last_discrepancy = 0
    /\ addr_list # <<>> =>
         /\ last_discrepancy # 0 /\ LastBranch(Last, last_discrepancy, Width + 1)
         /\ \A j \in Bit : j < last_discrepancy \/ j >= rom_bit_index => rom_addr[j] = Last[j]
         /\ rom_bit_index > last_discrepancy => rom_addr[last_discrepancy] = 1
AtBit ==
    pc = "bit" =>
      /\ listening = {d \in present : Same(d, rom_addr, rom_bit_index)} /\ listening # {}
      /\ LastBranch(rom_addr, discrepancy, rom_bit_index)
      /\ Lowest /\ Turns

AtReturn ==
    pc = "returned" =>
       /\ result = 0 => Listed = present /\ present # {}
       /\ result = 1 => present = {}
       /\ result = 2 => /\ Len(addr_list) = addr_list_size
                        /\ Cardinality(present) > addr_list_size

Undisturbed == UpToLast /\ AtNext /\ AtBit /\ AtReturn
SearchInv == TypeOK /\ (~disturbed => Undisturbed)

(* The list names each device once, so it is as long as the set is large *)
LEMMA ListSize ==
    ASSUME TypeOK, Ascending
    PROVE  IsFiniteSet(Listed) /\ Cardinality(Listed) = Len(addr_list)
<1> DEFINE I == 1 .. Len(addr_list)
<1> DEFINE f == [n \in I |-> addr_list[n]]
<1>1. addr_list \in Seq(Valid) /\ Len(addr_list) \in Nat
  BY DEF TypeOK
<1>2. f \in [I -> Listed] /\ \A c \in Listed : \E n \in I : f[n] = c
  BY DEF Listed
<1>3. ASSUME NEW m \in I, NEW n \in I, m # n PROVE f[m] # f[n]
  <2>1. addr_list[m] \in Code /\ addr_list[n] \in Code
    BY <1>1, SearchAssumption
  <2>2. m < n \/ n < m
    BY <1>1, <1>3
  <2>3. Before(addr_list[m], addr_list[n]) \/ Before(addr_list[n], addr_list[m])
    BY <2>2 DEF Ascending
  <2> QED
    BY <2>1, <2>3, NotBeforeItself
<1>4. IsFiniteSet(I) /\ Cardinality(I) = Len(addr_list)
  <2>1. PICK k \in Nat : k = Len(addr_list)
    BY <1>1
  <2>2. I = 1 .. k
    BY <2>1
  <2>3. IsFiniteSet(1 .. k) /\ Cardinality(1 .. k) = IF 1 > k THEN 0 ELSE k - 1 + 1
    BY FS_Interval
  <2>4. (IF 1 > k THEN 0 ELSE k - 1 + 1) = k
    OBVIOUS
  <2> HIDE DEF I
  <2> QED
    BY <2>1, <2>2, <2>3, <2>4
<1> HIDE DEF f, I
<1>5. f \in Surjection(I, Listed)
  BY <1>2, Zenon DEF Surjection
<1>6. f \in Injection(I, Listed)
  <2>1. IsInjective(f)
    BY <1>2, <1>3 DEF IsInjective
  <2> QED
    BY <1>2, <2>1 DEF Injection
<1> QED
  BY <1>4, <1>5, <1>6, FS_Surjection

(* A listed code is the last one or lies before it *)
LEMMA ListedUpToLast ==
    ASSUME TypeOK, Ascending, NEW c \in Listed
    PROVE  addr_list # <<>> /\ (c = Last \/ Before(c, Last))
<1>1. PICK n \in 1 .. Len(addr_list) : c = addr_list[n]
  BY DEF Listed
<1>2. Len(addr_list) \in Nat
  BY DEF TypeOK
<1>3. n = Len(addr_list) \/ n < Len(addr_list)
  BY <1>2
<1> QED
  BY <1>1, <1>2, <1>3 DEF Last, Ascending

LEMMA LastIsListed ==
    ASSUME TypeOK, addr_list # <<>>
    PROVE  Last \in Listed /\ Last \in Valid /\ Last \in Code
<1>1. addr_list \in Seq(Valid) /\ Len(addr_list) \in Nat /\ Len(addr_list) # 0
  BY DEF TypeOK
<1>2. Len(addr_list) \in 1 .. Len(addr_list)
  BY <1>1
<1> QED
  BY <1>1, <1>2, SearchAssumption DEF Last, Listed

(* Behind the last branch nobody follows *)
LEMMA NobodyBehind ==
    ASSUME NEW c \in Code, NEW l \in 0 .. Width, LastBranch(c, l, Width + 1),
           NEW d \in present, d \in Code, l # 0 => Same(d, c, l + 1)
    PROVE  ~Before(c, d)
<1> SUFFICES ASSUME Before(c, d) PROVE FALSE
  OBVIOUS
<1>1. PICK b \in Bit : c[b] < d[b] /\ \A j \in 1 .. b - 1 : c[j] = d[j]
  BY DEF Before
<1>2. c[b] = 0 /\ d[b] = 1
  BY <1>1 DEF Code
<1>3. b > l
  BY <1>1, <1>2, SearchAssumption DEF Same, Bit
<1>4. Branch(c, b)
  BY <1>1, <1>2 DEF Branch, Same
<1> QED
  BY <1>3, <1>4, SearchAssumption DEF LastBranch, Bit

-----------------------------------------------------------------------------
(* What a bus that somebody listens to tells about him *)
LEMMA BitIsRead ==
    ASSUME TypeOK, rom_bit_index \in Bit, listening # {},
           NEW r, r = BusReads(listening, rom_bit_index)
    PROVE  /\ r # <<1, 1>>
           /\ r = <<0, 0>> => /\ \E d \in listening : d[rom_bit_index] = 0
                              /\ \E d \in listening : d[rom_bit_index] = 1
           /\ r # <<0, 0>> => \A d \in listening : d[rom_bit_index] = r[1]
<1> DEFINE k == rom_bit_index
<1>1. \A d \in listening : d[k] \in 0 .. 1
  BY SearchAssumption DEF TypeOK, Code
<1>2. PICK d \in listening : TRUE
  OBVIOUS
<1>3. CASE \A e \in listening : e[k] = 1
  <2>1. r = <<1, 0>>
    BY <1>2, <1>3 DEF BusReads
  <2> QED
    BY <1>3, <2>1
<1>4. CASE \A e \in listening : e[k] = 0
  <2>1. r = <<0, 1>>
    BY <1>2, <1>4 DEF BusReads
  <2> QED
    BY <1>4, <2>1
<1>5. CASE ~(\A e \in listening : e[k] = 1) /\ ~(\A e \in listening : e[k] = 0)
  <2>1. r = <<0, 0>>
    BY <1>5 DEF BusReads
  <2> QED
    BY <1>1, <1>5, <2>1
<1> QED
  BY <1>3, <1>4, <1>5

(* Where the pass goes: as the last one up to the turn, there to 1, and     *)
(* behind it to 0 if it can                                                 *)
LEMMA DirectionTaken ==
    ASSUME TypeOK, UpToLast, AtBit, pc = "bit", rom_bit_index \in Bit,
           NEW r \in (0 .. 1) \X (0 .. 1), r = BusReads(listening, rom_bit_index)
    PROVE  LET k == rom_bit_index
               L == last_discrepancy
               x == Direction(r)
           IN  /\ x \in 0 .. 1 /\ \E d \in listening : d[k] = x
               /\ addr_list # <<>> => /\ k < L => x = Last[k]
                                      /\ k = L => x = 1
               /\ k > L /\ x = 1 => \A d \in listening : d[k] = 1
               /\ Postponed(r) <=> x = 0 /\ \E d \in listening : d[k] = 1
<1> DEFINE k == rom_bit_index
           L == last_discrepancy
           x == Direction(r)
<1>1. k \in Nat /\ k >= 1 /\ k <= Width /\ Width \in Nat /\ L \in 0 .. Width
  BY SearchAssumption DEF TypeOK, Bit
<1>2. /\ listening = {d \in present : Same(d, rom_addr, k)} /\ listening # {}
      /\ Turns
  BY DEF AtBit
<1>3. /\ r # <<1, 1>>
      /\ r = <<0, 0>> => /\ \E d \in listening : d[k] = 0
                         /\ \E d \in listening : d[k] = 1
      /\ r # <<0, 0>> => \A d \in listening : d[k] = r[1]
  BY <1>2, BitIsRead
<1>4. x \in 0 .. 1
  BY <1>1, DirectionIsBit
<1>5. \E d \in listening : d[k] = x
  BY <1>3, SomebodyAgrees
<1>6. r # <<0, 0>> => x = r[1]
  BY DEF Direction
<1>7. ASSUME addr_list # <<>> PROVE (k < L => x = Last[k]) /\ (k = L => x = 1)
  <2>1. /\ L # 0 /\ LastBranch(Last, L, Width + 1)
        /\ \A j \in Bit : j < L \/ j >= k => rom_addr[j] = Last[j]
    BY <1>2, <1>7 DEF Turns
  <2>2. Last \in present
    BY <1>7, LastIsListed DEF UpToLast
  <2>3. ASSUME k <= L PROVE \A d : Same(d, Last, k) <=> Same(d, rom_addr, k)
    BY <1>1, <2>1, <2>3 DEF Same, Bit
  <2>4. ASSUME k <= L PROVE Last \in listening
    BY <1>2, <2>2, <2>3, <2>4 DEF Same
  <2>5. ASSUME k < L PROVE x = Last[k]
    <3>1. CASE r = <<0, 0>>
      BY <1>1, <2>1, <2>5, <3>1 DEF Direction
    <3>2. CASE r # <<0, 0>>
      BY <1>3, <1>6, <2>4, <2>5, <3>2, <1>1
    <3> QED
      BY <3>1, <3>2
  <2>6. ASSUME k = L PROVE x = 1
    <3>1. Branch(Last, k)
      BY <2>1, <2>6 DEF LastBranch
    <3>2. PICK d \in present : Same(d, Last, k) /\ d[k] = 1
      BY <3>1 DEF Branch
    <3>3. d \in listening /\ Last \in listening /\ Last[k] = 0
      BY <1>1, <1>2, <2>3, <2>4, <2>6, <3>1, <3>2 DEF Branch
    <3>4. r = <<0, 0>>
      BY <1>3, <3>2, <3>3
    <3> QED
      BY <2>6, <3>4 DEF Direction
  <2> QED
    BY <2>5, <2>6
<1>8. ASSUME k > L, x = 1 PROVE \A d \in listening : d[k] = 1
  <2>1. r # <<0, 0>>
    BY <1>1, <1>8 DEF Direction
  <2> QED
    BY <1>3, <1>6, <1>8, <2>1
<1>9. ASSUME x = 0, NEW d \in listening, d[k] = 1 PROVE Postponed(r)
  <2>1. r = <<0, 0>>
    BY <1>3, <1>6, <1>9
  <2>2. k # L
    BY <1>9, <2>1 DEF Direction
  <2> QED
    BY <1>9, <2>1, <2>2 DEF Postponed
<1>10. ASSUME Postponed(r) PROVE x = 0 /\ \E d \in listening : d[k] = 1
  BY <1>3, <1>10 DEF Postponed
<1> QED
  BY <1>4, <1>5, <1>7, <1>8, <1>9, <1>10

(* One more bit of a pass *)
LEMMA FollowBitUndisturbed ==
    ASSUME TypeOK, TypeOK', Undisturbed, FollowBit, ~disturbed'
    PROVE  Undisturbed'
<1> DEFINE k == rom_bit_index
           L == last_discrepancy
<1>1. PICK r \in (0 .. 1) \X (0 .. 1) :
         /\ Reads(r)
         /\ rom_addr' = [rom_addr EXCEPT ![k] = Direction(r)]
         /\ discrepancy' = IF Postponed(r) THEN k ELSE discrepancy
         /\ listening' = {d \in listening : d[k] = Direction(r)}
  BY DEF FollowBit
<1>2. /\ pc = "bit" /\ k <= Width /\ rom_bit_index' = k + 1
      /\ UNCHANGED <<addr_list, done, last_discrepancy, pc, present>>
  BY DEF FollowBit
<1>3. k \in Bit /\ k \in Nat /\ k >= 1 /\ Width \in Nat /\ L \in 0 .. Width
      /\ rom_addr \in Code
  BY <1>2, SearchAssumption DEF TypeOK, Bit
<1>4. r = BusReads(listening, k)
  BY <1>1 DEF Reads
<1>5. UpToLast /\ AtBit
  BY DEF Undisturbed
<1>6. /\ listening = {d \in present : Same(d, rom_addr, k)} /\ listening # {}
      /\ LastBranch(rom_addr, discrepancy, k) /\ Lowest /\ Turns
  BY <1>2, <1>5 DEF AtBit
<1> DEFINE x == Direction(r)
           e == [rom_addr EXCEPT ![k] = x]
<1>7. /\ x \in 0 .. 1 /\ \E d \in listening : d[k] = x
      /\ addr_list # <<>> => (k < L => x = Last[k]) /\ (k = L => x = 1)
      /\ k > L /\ x = 1 => \A d \in listening : d[k] = 1
      /\ Postponed(r) <=> x = 0 /\ \E d \in listening : d[k] = 1
  BY <1>2, <1>3, <1>4, <1>5, DirectionTaken
<1> HIDE DEF x
<1>8. /\ e \in Code /\ e[k] = x /\ \A j \in Bit : j # k => e[j] = rom_addr[j]
      /\ \A d : \A j \in 1 .. k : Same(d, e, j) <=> Same(d, rom_addr, j)
      /\ \A j \in 1 .. k - 1 : Branch(e, j) <=> Branch(rom_addr, j)
      /\ \A d : Same(d, e, k + 1) <=> Same(d, rom_addr, k) /\ d[k] = x
  <2>1. e \in Code /\ e[k] = x /\ \A j \in Bit : j # k => e[j] = rom_addr[j]
    BY <1>3, <1>7 DEF Code
  <2> HIDE DEF e
  <2>2. \A j \in 1 .. k - 1 : e[j] = rom_addr[j]
    BY <1>2, <1>3, <2>1 DEF Bit
  <2>3. \A d : \A j \in 1 .. k : Same(d, e, j) <=> Same(d, rom_addr, j)
    BY <1>3, <2>2 DEF Same
  <2>4. ASSUME NEW j \in 1 .. k - 1 PROVE Branch(e, j) <=> Branch(rom_addr, j)
    <3>1. e[j] = rom_addr[j] /\ \A d : Same(d, e, j) <=> Same(d, rom_addr, j)
      BY <1>3, <2>2, <2>3
    <3> QED
      BY <3>1 DEF Branch
  <2>5. \A d : Same(d, e, k + 1) <=> Same(d, rom_addr, k) /\ d[k] = x
    BY <1>3, <2>1, <2>2 DEF Same
  <2> QED
    BY <2>1, <2>3, <2>4, <2>5
<1>9. rom_addr' = e /\ listening' = {d \in listening : d[k] = x}
  BY <1>1 DEF x
<1> HIDE DEF e
<1>10. listening' = {d \in present : Same(d, e, k + 1)} /\ listening' # {}
  BY <1>6, <1>7, <1>8, <1>9
<1>11. Branch(e, k) <=> Postponed(r)
  <2>1. k \in 1 .. k
    BY <1>3
  <2>2. Branch(e, k) <=> x = 0 /\ \E d \in listening : d[k] = 1
    BY <1>6, <1>8, <2>1 DEF Branch
  <2> QED
    BY <1>7, <2>2
<1>12. LastBranch(e, discrepancy', k + 1)
  <2>1. /\ discrepancy \in 0 .. k - 1 /\ (discrepancy # 0 => Branch(rom_addr, discrepancy))
        /\ \A j \in discrepancy + 1 .. k - 1 : ~Branch(rom_addr, j)
    BY <1>6 DEF LastBranch
  <2>2. \A j \in discrepancy + 1 .. k - 1 : ~Branch(e, j)
    BY <1>3, <1>8, <2>1
  <2>3. CASE Postponed(r)
    BY <1>1, <1>3, <1>11, <2>3 DEF LastBranch
  <2>4. CASE ~Postponed(r)
    <3>1. discrepancy' = discrepancy /\ ~Branch(e, k)
      BY <1>1, <1>11, <2>4
    <3>2. discrepancy # 0 => Branch(e, discrepancy)
      BY <1>3, <1>8, <2>1
    <3>3. \A j \in discrepancy + 1 .. k : ~Branch(e, j)
      BY <1>3, <2>1, <2>2, <3>1
    <3> QED
      BY <1>3, <2>1, <3>1, <3>2, <3>3 DEF LastBranch
  <2> QED
    BY <2>3, <2>4
<1>13. \A j \in L + 1 .. k : e[j] = 1 => \A d \in present : Same(d, e, j) => d[j] = 1
  <2> SUFFICES ASSUME NEW j \in L + 1 .. k, e[j] = 1, NEW d \in present, Same(d, e, j)
               PROVE  d[j] = 1
    OBVIOUS
  <2>1. j \in 1 .. k /\ j \in Bit /\ Same(d, rom_addr, j)
    BY <1>3, <1>8 DEF Bit
  <2>2. CASE j = k
    BY <1>3, <1>6, <1>7, <1>8, <2>1, <2>2
  <2>3. CASE j # k
    <3>1. j \in L + 1 .. k - 1 /\ rom_addr[j] = 1
      BY <1>3, <1>8, <2>1, <2>3
    <3> QED
      BY <1>6, <2>1, <3>1 DEF Lowest
  <2> QED
    BY <2>2, <2>3
<1>14. ASSUME addr_list # <<>>
       PROVE  /\ \A j \in Bit : j < L \/ j >= k + 1 => e[j] = Last[j]
              /\ k + 1 > L => e[L] = 1
  <2>1. /\ L # 0 /\ LastBranch(Last, L, Width + 1)
        /\ \A j \in Bit : j < L \/ j >= k => rom_addr[j] = Last[j]
        /\ k > L => rom_addr[L] = 1
    BY <1>6, <1>14 DEF Turns
  <2>2. ASSUME NEW j \in Bit, j < L \/ j >= k + 1 PROVE e[j] = Last[j]
    <3>1. CASE j = k
      BY <1>3, <1>7, <1>8, <1>14, <2>2, <3>1
    <3>2. CASE j # k
      <4>1. j < L \/ j >= k
        BY <1>3, <2>2 DEF Bit
      <4> QED
        BY <1>8, <2>1, <3>2, <4>1
    <3> QED
      BY <3>1, <3>2
  <2>3. ASSUME k + 1 > L PROVE e[L] = 1
    <3>1. L \in Bit
      BY <1>3, <2>1 DEF Bit
    <3>2. k = L \/ k > L
      BY <1>3, <2>3
    <3> QED
      BY <1>7, <1>8, <1>14, <2>1, <3>1, <3>2, <1>3
  <2> QED
    BY <2>2, <2>3
<1>15. UpToLast' /\ Last' = Last
  BY <1>2, <1>5 DEF UpToLast, Listed, Ascending, Last
<1>16. LastBranch(rom_addr, discrepancy, rom_bit_index)'
  <2>1. \A j : Branch(rom_addr, j)' <=> Branch(e, j)
    BY <1>2, <1>9 DEF Branch, Same
  <2>2. Branch(rom_addr, discrepancy)' <=> Branch(e, discrepancy')
    BY <1>2, <1>9 DEF Branch, Same
  <2> QED
    BY <1>2, <1>12, <2>1, <2>2 DEF LastBranch
<1>17. Lowest'
  BY <1>2, <1>3, <1>9, <1>13 DEF Lowest, Same
<1>18. Turns'
  <2>1. addr_list # <<>> => LastBranch(Last, L, Width + 1)'
    BY <1>2, <1>6, <1>15 DEF Turns, LastBranch, Branch, Same
  <2> QED
    BY <1>2, <1>6, <1>9, <1>14, <1>15, <2>1 DEF Turns
<1>19. AtBit'
  BY <1>2, <1>9, <1>10, <1>16, <1>17, <1>18 DEF AtBit, Same
<1> QED
  BY <1>2, <1>15, <1>19 DEF Undisturbed, AtNext, AtReturn

(* Everything before the code that was found is listed, and it is not *)
LEMMA FoundIsNext ==
    ASSUME TypeOK, UpToLast, AtBit, pc = "bit", rom_bit_index > Width
    PROVE  /\ rom_addr \in present /\ rom_addr \in Valid
           /\ \A c \in Listed : Before(c, rom_addr)
           /\ \A d \in present : Before(d, rom_addr) => d \in Listed
           /\ LastBranch(rom_addr, discrepancy, Width + 1)
<1> DEFINE L == last_discrepancy
<1>1. rom_bit_index = Width + 1 /\ Width \in Nat \ {0} /\ L \in 0 .. Width /\ rom_addr \in Code
  BY SearchAssumption DEF TypeOK
<1>2. /\ listening = {d \in present : Same(d, rom_addr, Width + 1)} /\ listening # {}
      /\ LastBranch(rom_addr, discrepancy, Width + 1) /\ Lowest /\ Turns
  BY <1>1 DEF AtBit
<1>3. \A d \in present : d \in Code /\ d \in Valid
  BY SearchAssumption DEF TypeOK
<1>4. rom_addr \in present
  <2>1. PICK d \in present : Same(d, rom_addr, Width + 1)
    BY <1>2
  <2>2. \A j \in Bit : d[j] = rom_addr[j]
    BY <1>1, <2>1 DEF Same, Bit
  <2>3. d = rom_addr
    BY <1>1, <1>3, <2>2 DEF Code
  <2> QED
    BY <2>3
<1>5. ASSUME addr_list # <<>>
      PROVE  /\ L \in Bit /\ Last[L] = 0 /\ rom_addr[L] = 1
             /\ \A j \in 1 .. L - 1 : rom_addr[j] = Last[j]
             /\ LastBranch(Last, L, Width + 1)
  BY <1>1, <1>2, <1>5 DEF Turns, LastBranch, Branch, Bit
<1>6. ASSUME addr_list # <<>> PROVE Before(Last, rom_addr)
  <2>1. Last[L] < rom_addr[L] /\ \A j \in 1 .. L - 1 : Last[j] = rom_addr[j]
    BY <1>5, <1>6
  <2> QED
    BY <1>5, <1>6, <2>1 DEF Before
<1>7. ASSUME NEW c \in Listed PROVE Before(c, rom_addr)
  <2>1. addr_list # <<>> /\ (c = Last \/ Before(c, Last))
    BY ListedUpToLast DEF UpToLast
  <2>2. c \in Code /\ Last \in Code
    BY <1>3, <2>1, LastIsListed DEF UpToLast
  <2> QED
    BY <1>1, <1>6, <2>1, <2>2, BeforeTransitive
<1>8. ASSUME NEW d \in present, Before(d, rom_addr) PROVE d \in Listed
  <2>1. PICK b \in Bit : d[b] < rom_addr[b] /\ \A j \in 1 .. b - 1 : d[j] = rom_addr[j]
    BY <1>8 DEF Before
  <2>2. d \in Code /\ d[b] = 0 /\ rom_addr[b] = 1 /\ Same(d, rom_addr, b)
    BY <1>1, <1>3, <2>1 DEF Code, Same
  <2>3. b <= L
    BY <1>1, <1>2, <2>2 DEF Lowest, Bit
  <2>4. addr_list # <<>>
    BY <1>1, <1>2, <2>3 DEF Turns, Bit
  <2>5. Last \in Code /\ Last \in Listed
    BY <2>4, LastIsListed
  <2>6. CASE b < L
    <3>1. rom_addr[b] = Last[b] /\ \A j \in 1 .. b - 1 : d[j] = Last[j]
      BY <1>1, <1>5, <2>1, <2>4, <2>6 DEF Bit
    <3>2. Before(d, Last)
      BY <2>1, <3>1 DEF Before
    <3> QED
      BY <2>4, <3>2 DEF UpToLast
  <2>7. CASE b = L
    <3>1. Same(d, Last, L + 1)
      BY <1>1, <1>5, <2>1, <2>2, <2>4, <2>7 DEF Same, Bit
    <3>2. ~Before(Last, d)
      BY <1>1, <1>5, <2>2, <2>4, <2>5, <3>1, NobodyBehind
    <3>3. d = Last \/ Before(d, Last)
      BY <2>2, <2>5, <3>2, Compare
    <3> QED
      BY <2>4, <2>5, <3>3 DEF UpToLast
  <2> QED
    BY <1>1, <2>3, <2>6, <2>7 DEF Bit
<1> QED
  BY <1>2, <1>3, <1>4, <1>7, <1>8

LEMMA FoundUndisturbed ==
    ASSUME TypeOK, TypeOK', Undisturbed, Found
    PROVE  Undisturbed'
<1>1. /\ pc = "bit" /\ rom_bit_index > Width /\ last_discrepancy' = discrepancy
      /\ (done' <=> discrepancy = 0)
      /\ UNCHANGED <<rom_addr, present>>
  BY DEF Found, outside
<1>2. UpToLast /\ AtBit
  BY DEF Undisturbed
<1>3. /\ rom_addr \in present /\ rom_addr \in Valid
      /\ \A c \in Listed : Before(c, rom_addr)
      /\ \A d \in present : Before(d, rom_addr) => d \in Listed
      /\ LastBranch(rom_addr, discrepancy, Width + 1)
  BY <1>1, <1>2, FoundIsNext
<1>4. /\ addr_list \in Seq(Valid) /\ Len(addr_list) \in Nat /\ Len(addr_list) <= addr_list_size
      /\ addr_list_size \in Nat /\ rom_addr \in Code
  BY SearchAssumption DEF TypeOK
<1>5. CASE Len(addr_list) >= addr_list_size
  <2>1. pc' = "returned" /\ result' = 2 /\ addr_list' = addr_list
    BY <1>3, <1>4, <1>5 DEF Found, Return
  <2>2. UpToLast'
    BY <1>1, <1>2, <2>1 DEF UpToLast, Listed, Ascending, Last
  <2>3. IsFiniteSet(Listed) /\ Cardinality(Listed) = Len(addr_list)
    BY <1>2, ListSize DEF UpToLast
  <2>4. rom_addr \notin Listed
    BY <1>3, <1>4, NotBeforeItself
  <2>5. Cardinality(Listed \cup {rom_addr}) = Len(addr_list) + 1
    BY <2>3, <2>4, FS_AddElement
  <2>6. IsFiniteSet(present)
    BY CodeFinite, FS_Subset, SearchAssumption DEF TypeOK
  <2>7. Listed \cup {rom_addr} \in SUBSET present
    BY <1>2, <1>3 DEF UpToLast
  <2>8. /\ Cardinality(Listed \cup {rom_addr}) <= Cardinality(present)
        /\ Cardinality(present) \in Nat
    BY <2>6, <2>7, FS_Subset, FS_CardinalityType
  <2>9. Len(addr_list) = addr_list_size /\ Cardinality(present) > addr_list_size
    BY <1>4, <1>5, <2>5, <2>8
  <2> QED
    BY <1>1, <2>1, <2>2, <2>9 DEF Undisturbed, AtNext, AtBit, AtReturn
<1>6. CASE Len(addr_list) < addr_list_size
  <2>1. pc' = "next" /\ addr_list' = Append(addr_list, rom_addr)
    BY <1>3, <1>4, <1>6 DEF Found
  <2>2. /\ Len(addr_list') = Len(addr_list) + 1 /\ addr_list' # <<>>
        /\ \A n \in 1 .. Len(addr_list) : addr_list'[n] = addr_list[n]
        /\ addr_list'[Len(addr_list) + 1] = rom_addr
    BY <1>4, <2>1
  <2>3. Last' = rom_addr
    BY <2>2 DEF Last
  <2>4. Listed' = Listed \cup {rom_addr}
    <3>1. 1 .. Len(addr_list') = 1 .. Len(addr_list) \cup {Len(addr_list) + 1}
      BY <1>4, <2>2
    <3> QED
      BY <2>2, <3>1 DEF Listed
  <2>5. ASSUME NEW m \in 1 .. Len(addr_list'), NEW n \in 1 .. Len(addr_list'), m < n
        PROVE  Before(addr_list'[m], addr_list'[n])
    <3>1. m \in 1 .. Len(addr_list)
      BY <1>4, <2>2, <2>5
    <3>2. CASE n = Len(addr_list) + 1
      <4>1. addr_list[m] \in Listed
        BY <3>1 DEF Listed
      <4> QED
        BY <1>3, <2>2, <3>1, <3>2, <4>1
    <3>3. CASE n # Len(addr_list) + 1
      <4>1. n \in 1 .. Len(addr_list)
        BY <1>4, <2>2, <3>3
      <4> QED
        BY <1>2, <2>2, <2>5, <3>1, <4>1 DEF UpToLast, Ascending
    <3> QED
      BY <3>2, <3>3
  <2>6. UpToLast'
    <3>1. Listed' \subseteq present'
      BY <1>1, <1>2, <1>3, <2>4 DEF UpToLast
    <3>2. Ascending'
      BY <2>5 DEF Ascending
    <3>3. \A d \in present' : Before(d, rom_addr) => d \in Listed'
      BY <1>1, <1>3, <2>4
    <3>4. (\A d \in present : Before(d, Last) => d \in Listed)'
      BY <2>3, <3>3 DEF Before
    <3> QED
      BY <3>1, <3>2, <3>4 DEF UpToLast
  <2>7. LastBranch(Last, last_discrepancy, Width + 1)'
    BY <1>1, <1>3, <2>3 DEF LastBranch, Branch, Same
  <2>8. AtNext'
    BY <1>1, <1>3, <2>1, <2>2, <2>3, <2>7 DEF AtNext
  <2> QED
    BY <2>1, <2>6, <2>8 DEF Undisturbed, AtBit, AtReturn
<1> QED
  BY <1>4, <1>5, <1>6

(* The last pass went to 1 at every branch: there is nobody behind it *)
LEMMA NoMoreUndisturbed ==
    ASSUME TypeOK, Undisturbed, NoMore
    PROVE  Undisturbed'
<1>1. /\ pc = "next" /\ done /\ pc' = "returned" /\ result' = 0
      /\ UNCHANGED <<addr_list, present>>
  BY DEF NoMore, Return, outside
<1>2. /\ present # {} /\ addr_list # <<>> /\ last_discrepancy = 0
      /\ LastBranch(Last, 0, Width + 1) /\ UpToLast
  BY <1>1 DEF Undisturbed, AtNext
<1>3. Last \in Listed /\ Last \in Code
  BY <1>2, LastIsListed
<1>4. ASSUME NEW d \in present PROVE d \in Listed
  <2>1. d \in Code
    BY SearchAssumption DEF TypeOK
  <2>2. 0 \in 0 .. Width
    BY SearchAssumption
  <2>3. ~Before(Last, d)
    BY <1>2, <1>3, <2>1, <2>2, NobodyBehind
  <2>4. d = Last \/ Before(d, Last)
    BY <1>3, <2>1, <2>3, Compare
  <2> QED
    BY <1>2, <1>3, <2>4 DEF UpToLast
<1>5. UpToLast' /\ Listed' = Listed
  BY <1>1, <1>2 DEF UpToLast, Listed, Ascending, Last
<1> QED
  BY <1>1, <1>2, <1>4, <1>5 DEF Undisturbed, AtNext, AtBit, AtReturn, UpToLast

LEMMA StartUndisturbed ==
    ASSUME TypeOK, Undisturbed, Start
    PROVE  Undisturbed'
<1>1. /\ pc = "next" /\ ~done /\ pc' = "bit" /\ listening' = present /\ present # {}
      /\ rom_bit_index' = 1 /\ discrepancy' = 0
      /\ UNCHANGED <<addr_list, rom_addr, last_discrepancy, present>>
  BY DEF Start, search, outside
<1>2. UpToLast /\ AtNext /\ last_discrepancy \in 0 .. Width
  BY DEF Undisturbed, TypeOK
<1>3. UpToLast' /\ Last' = Last
  BY <1>1, <1>2 DEF UpToLast, Listed, Ascending, Last
<1>4. listening' = {d \in present' : Same(d, rom_addr', 1)}
  BY <1>1 DEF Same
<1>5. LastBranch(rom_addr, discrepancy, rom_bit_index)'
  BY <1>1 DEF LastBranch
<1>6. Lowest'
  BY <1>1, <1>2 DEF Lowest
<1>7. Turns'
  <2>1. addr_list # <<>> => LastBranch(Last, last_discrepancy, Width + 1)'
    BY <1>1, <1>2, <1>3 DEF AtNext, LastBranch, Branch, Same
  <2>2. addr_list # <<>> => rom_addr = Last /\ last_discrepancy # 0
    BY <1>1, <1>2 DEF AtNext
  <2>3. ~(1 > last_discrepancy /\ last_discrepancy # 0)
    BY <1>2
  <2> QED
    BY <1>1, <1>2, <1>3, <2>1, <2>2, <2>3 DEF Turns, AtNext
<1>8. AtBit'
  BY <1>1, <1>4, <1>5, <1>6, <1>7 DEF AtBit, Same
<1> QED
  BY <1>1, <1>3, <1>8 DEF Undisturbed, AtNext, AtReturn

LEMMA InitSearchInv == Init => SearchInv
<1> SUFFICES ASSUME Init PROVE SearchInv
  OBVIOUS
<1>1. addr_list = <<>> /\ pc = "idle" /\ Len(addr_list) = 0
  BY DEF Init
<1> QED
  BY <1>1, InitTypeOK DEF SearchInv, Undisturbed, UpToLast, Listed, Ascending,
     AtNext, AtBit, AtReturn

LEMMA NextSearchInv == SearchInv /\ [Next]_vars => SearchInv'
<1> SUFFICES ASSUME SearchInv, [Next]_vars, ~disturbed' PROVE Undisturbed'
  BY NextTypeOK DEF SearchInv
<1>0. TypeOK /\ TypeOK'
  BY NextTypeOK DEF SearchInv
<1>1. CASE Call
  <2>1. addr_list' = <<>> /\ last_discrepancy' = 0 /\ done' = FALSE /\ present' = present
    BY <1>1 DEF Call
  <2>2. \/ pc' = "returned" /\ result' = 1 /\ present = {}
        \/ pc' = "next" /\ present # {}
    BY <1>1 DEF Call, Return
  <2>3. UpToLast'
    BY <2>1 DEF UpToLast, Listed, Ascending
  <2> QED
    BY <2>1, <2>2, <2>3 DEF Undisturbed, AtNext, AtBit, AtReturn
<1>2. CASE NoMore
  BY <1>0, <1>2, NoMoreUndisturbed DEF SearchInv, NoMore, outside
<1>3. CASE NobodyLeft
  <2>1. pc = "next" /\ present = {} /\ ~disturbed
    BY <1>3 DEF NobodyLeft, outside
  <2> QED
    BY <2>1 DEF SearchInv, Undisturbed, AtNext
<1>4. CASE Start
  BY <1>0, <1>4, StartUndisturbed DEF SearchInv, Start, outside
<1>5. CASE NoAnswer
  <2>1. pc = "bit" /\ rom_bit_index \in Bit /\ Reads(<<1, 1>>)
    BY <1>0, <1>5, SearchAssumption DEF NoAnswer, TypeOK, Bit
  <2>2. <<1, 1>> = BusReads(listening, rom_bit_index) /\ ~disturbed
    BY <2>1 DEF Reads
  <2>3. listening # {}
    BY <2>1, <2>2 DEF SearchInv, Undisturbed, AtBit
  <2> QED
    BY <1>0, <2>1, <2>2, <2>3, BitIsRead
<1>6. CASE FollowBit
  <2>1. ~disturbed
    BY <1>6 DEF FollowBit, Reads
  <2> QED
    BY <1>0, <1>6, <2>1, FollowBitUndisturbed DEF SearchInv
<1>7. CASE Found
  BY <1>0, <1>7, FoundUndisturbed DEF SearchInv, Found, outside
<1>8. CASE Plug \/ Unplug
  BY <1>8 DEF Plug, Unplug
<1>9. CASE UNCHANGED vars
  <2>1. /\ UNCHANGED <<addr_list, rom_addr, done, last_discrepancy, listening>>
        /\ UNCHANGED <<rom_bit_index, discrepancy, present, disturbed, pc, result>>
    BY <1>9 DEF vars, search, pass, outside
  <2> QED
    BY <2>1 DEF SearchInv, Undisturbed, UpToLast, Listed, Ascending, Last, AtNext, AtBit,
       AtReturn, LastBranch, Branch, Same, Lowest, Turns
<1> QED
  BY <1>1, <1>2, <1>3, <1>4, <1>5, <1>6, <1>7, <1>8, <1>9 DEF Next, SearchStep

(* On a bus that nothing disturbs the search lists every device once, in    *)
(* the order of their codes, and says so when the list is too short; for    *)
(* every width, every set of devices and every length of the list.          *)
THEOREM SearchComplete == Spec => []Complete
<1>1. SearchInv => Complete
  <2> SUFFICES ASSUME TypeOK, Undisturbed PROVE Complete
    BY DEF SearchInv, Complete
  <2>1. UpToLast /\ AtReturn
    BY DEF Undisturbed
  <2>2. ASSUME NEW d \in present, NEW c \in Listed, Before(d, c) PROVE d \in Listed
    <3>1. addr_list # <<>> /\ (c = Last \/ Before(c, Last))
      BY <2>1, ListedUpToLast DEF UpToLast
    <3>2. c \in Code /\ d \in Code /\ Last \in Code
      BY <2>1, <3>1, LastIsListed, SearchAssumption DEF UpToLast, TypeOK
    <3>3. Before(d, Last)
      BY <2>2, <3>1, <3>2, BeforeTransitive
    <3> QED
      BY <2>1, <3>1, <3>3 DEF UpToLast
  <2> QED
    BY <2>1, <2>2 DEF Complete, UpToLast, Ascending, AtReturn
<1> QED
  BY <1>1, InitSearchInv, NextSearchInv, PTL DEF Spec

-----------------------------------------------------------------------------
(* The Wire library.  Two things are kept.  First the types, and what holds *)
(* however late the interrupts are (WireTypes, WireStill): the slave is      *)
(* asked for a byte only by a read it answers, one at a time, and never for  *)
(* more than was asked of it.  Then, while every interrupt was in time       *)
(* (OnTime): events come singly, a received byte is in the buffer before     *)
(* the next one arrives, and the memory, together with what the slave has    *)
(* received and not handed over (Owed), is what it should be; a read is that *)
(* many bytes past the place it began at (Reading).                          *)
-----------------------------------------------------------------------------
(* Addresses wrap around *)
LEMMA Unique ==
    ASSUME NEW x \in Nat, NEW n \in Nat \ {0}, NEW q \in Int, NEW r \in 0 .. n - 1, x = n * q + r
    PROVE  x % n = r
  BY SMT

LEMMA Divided ==
    ASSUME NEW x \in Nat, NEW n \in Nat \ {0}
    PROVE  \E q \in Int, r \in 0 .. n - 1 : x = n * q + r /\ x % n = r
<1>1. PICK q \in Int : q = x \div n
  BY SMT
<1>2. PICK r \in 0 .. n - 1 : r = x % n
  BY SMT
<1>3. x = n * q + r
  BY <1>1, <1>2, SMT
<1> QED
  BY <1>2, <1>3

LEMMA Wraps ==
    ASSUME NEW x \in Nat, NEW n \in Nat \ {0}
    PROVE  /\ x % n \in 0 .. n - 1 /\ (x < n => x % n = x)
           /\ ((x % n) + 1) % n = (x + 1) % n
<1>1. PICK q \in Int, r \in 0 .. n - 1 : x = n * q + r /\ x % n = r
  BY Divided
<1>2. x < n => x % n = x
  <2> SUFFICES ASSUME x < n PROVE x % n = x
    OBVIOUS
  <2>1. 0 \in Int /\ x \in 0 .. n - 1 /\ x = n * 0 + x
    OBVIOUS
  <2> QED
    BY <2>1, Unique
<1>3. (r + 1) % n = (x + 1) % n
  <2>1. x + 1 \in Nat /\ r + 1 \in Nat
    OBVIOUS
  <2>2. CASE r + 1 < n
    <3>1. x + 1 = n * q + (r + 1) /\ r + 1 = n * 0 + (r + 1) /\ r + 1 \in 0 .. n - 1
      BY <1>1, <2>2
    <3>2. (x + 1) % n = r + 1
      BY <2>1, <3>1, Unique
    <3>3. (r + 1) % n = r + 1
      BY <2>1, <3>1, Unique
    <3> QED
      BY <3>2, <3>3
  <2>3. CASE r + 1 = n
    <3>1. x + 1 = n * (q + 1) + 0 /\ r + 1 = n * 1 + 0 /\ 0 \in 0 .. n - 1 /\ q + 1 \in Int
      BY <1>1, <2>3
    <3>2. (x + 1) % n = 0
      BY <2>1, <3>1, Unique
    <3>3. (r + 1) % n = 0
      BY <2>1, <3>1, Unique
    <3> QED
      BY <3>2, <3>3
  <2> QED
    BY <2>2, <2>3
<1> QED
  BY <1>1, <1>2, <1>3

LEMMA ByteIs ==
    /\ 0 \in Byte /\ Byte \subseteq Nat /\ \A a \in Nat : a % MemSize \in Byte
    /\ \A a \in Byte : a % MemSize = a
    /\ \A a \in Nat : ((a % MemSize) + 1) % MemSize = (a + 1) % MemSize
<1>1. MemSize \in Nat \ {0}
  BY WireAssumption
<1>2. 0 \in Byte /\ Byte \subseteq Nat
  BY <1>1 DEF Byte
<1>3. ASSUME NEW a \in Nat
      PROVE  a % MemSize \in Byte /\ (a \in Byte => a % MemSize = a)
             /\ ((a % MemSize) + 1) % MemSize = (a + 1) % MemSize
  <2>1. a \in Byte => a < MemSize
    BY <1>1 DEF Byte
  <2>2. a % MemSize \in 0 .. MemSize - 1
    BY <1>1, Wraps
  <2>3. a < MemSize => a % MemSize = a
    BY <1>1, Wraps
  <2>4. ((a % MemSize) + 1) % MemSize = (a + 1) % MemSize
    BY <1>1, Wraps
  <2> QED
    BY <2>1, <2>2, <2>3, <2>4 DEF Byte
<1> QED
  BY <1>2, <1>3

(* A set of places in a sequence has a last one *)
LEMMA LastPlace ==
    ASSUME NEW n \in Nat, NEW T, T \subseteq 1 .. n, T # {}
    PROVE  \E k \in T : \A j \in T : j <= k
<1> DEFINE U == {n - k : k \in T}
<1>1. U \subseteq Nat /\ U # {}
  <2>1. \A k \in T : n - k \in Nat
    OBVIOUS
  <2> QED
    BY <2>1
<1>2. PICK x \in U : \A y \in U : ~(<<y, x>> \in OpToRel(<, Nat))
  BY <1>1, NatLessThanWellFounded, WFMin
<1>3. PICK k \in T : x = n - k
  OBVIOUS
<1>4. ASSUME NEW j \in T PROVE j <= k
  <2>1. n - j \in U /\ n - j \in Nat /\ x \in Nat /\ j \in Nat /\ k \in Nat
    BY <1>1
  <2>2. ~(n - j < x)
    BY <1>2, <2>1 DEF OpToRel
  <2> QED
    BY <1>3, <2>1, <2>2
<1> QED
  BY <1>4

LEMMA StoredIs ==
    ASSUME NEW m \in [Byte -> Byte], NEW s \in Seq(Byte), s # <<>>
    PROVE  Stored(m, s) \in [Byte -> Byte] /\ AddressAfter(s) \in Byte
<1>0. s[1] \in Byte /\ Len(s) \in Nat /\ Len(s) > 0
  OBVIOUS
<1>1. s[1] \in Nat /\ Len(s) \in Nat /\ s[1] + Len(s) - 1 \in Nat
  <2>1. s[1] \in Nat
    BY <1>0, ByteIs
  <2> QED
    BY <1>0, <2>1
<1>2. ASSUME NEW a \in Byte,
             NEW T, T = {k \in 2 .. Len(s) : (s[1] + k - 2) % MemSize = a}
      PROVE  (IF T = {} THEN m[a] ELSE s[CHOOSE k \in T : \A j \in T : j <= k]) \in Byte
  <2>1. CASE T = {}
    BY <2>1
  <2>2. CASE T # {}
    <3>1. T \subseteq 1 .. Len(s)
      <4>1. \A k \in T : k \in 2 .. Len(s)
        BY <1>2
      <4> QED
        BY <1>1, <4>1
    <3>2. \E k \in T : \A j \in T : j <= k
      BY <1>1, <2>2, <3>1, LastPlace
    <3>3. PICK l : l = CHOOSE k \in T : \A j \in T : j <= k
      OBVIOUS
    <3>4. l \in T
      BY <3>2, <3>3
    <3>5. s[l] \in Byte
      BY <3>1, <3>4
    <3> QED
      BY <2>2, <3>3, <3>5
  <2> QED
    BY <2>1, <2>2
<1> QED
  BY <1>1, <1>2, ByteIs DEF Stored, AddressAfter

LEMMA FirstIs ==
    ASSUME NEW S, NEW s \in Seq(S), NEW n \in Nat
    PROVE  /\ First(n, s) \in Seq(S) /\ Len(First(n, s)) <= n
           /\ Len(First(n, s)) = Least(n, Len(s)) /\ Least(n, Len(s)) \in Nat
           /\ Len(First(n, s)) <= Len(s)
           /\ \A k \in 1 .. Len(First(n, s)) : First(n, s)[k] = s[k]
           /\ Len(s) <= n => First(n, s) = s
           /\ n > 0 /\ s # <<>> => First(n, s) # <<>>
<1>1. PICK l : l = Least(n, Len(s))
  OBVIOUS
<1>2. l \in Nat /\ l <= n /\ l <= Len(s) /\ Len(s) \in Nat /\ (Len(s) <= n => l = Len(s))
      /\ (n > 0 /\ Len(s) > 0 => l > 0)
  BY <1>1 DEF Least
<1>3. PICK t : t = SubSeq(s, 1, l)
  OBVIOUS
<1>4. t \in Seq(S) /\ Len(t) = l /\ \A k \in 1 .. l : t[k] = s[k]
  BY <1>2, <1>3
<1>5. Len(s) <= n => t = s
  BY <1>2, <1>4
<1>6. n > 0 /\ s # <<>> => t # <<>>
  BY <1>2, <1>4
<1>7. First(n, s) = t
  BY <1>1, <1>3 DEF First
<1> QED
  BY <1>1, <1>2, <1>4, <1>5, <1>6, <1>7

(* Types, what the slave has asked for and not sent, and what is pending *)
Asked == IF "rd_req" \in intr THEN 1 ELSE 0
WireTypes ==
    /\ mode \in [Wires -> {"unassigned", "master", "slave"}] /\ registered \in [Wires -> BOOLEAN]
    /\ buf \in [Wires -> Seq(Byte)] /\ \A w \in Wires : Len(buf[w]) <= Length[w]
    /\ pos \in 0 .. Len(buf["Wire1"])
    /\ txAddress \in Device \cup {NO_ADDRESS} /\ status \in {0, 4}
    /\ txAddress # NO_ADDRESS => pos = 0
    /\ mem \in [Byte -> Byte] /\ mem_address \in Byte /\ transfer_in_progress \in BOOLEAN
    /\ fifo \in Seq(Byte) /\ reply \in Seq(Byte) /\ got \in Seq(Byte)
    /\ intr \subseteq {"start", "stop", "rx_full", "rd_req"}
    /\ bus \in {"idle", "held", "write", "read"} /\ to \in Device /\ stop \in BOOLEAN
    /\ taken \in Nat /\ count \in 0 .. Length["Wire1"] /\ late \in Nat /\ transfers \in Nat
    /\ expect \in [Byte -> Byte] /\ cursor \in Byte

WireStill ==
    /\ "rx_full" \notin intr => fifo = <<>>
    /\ Len(reply) + Asked <= 1
    /\ Len(reply) + Asked # 0 => bus = "read" /\ Answers
    /\ bus = "read" => count > 0 /\ txAddress = NO_ADDRESS /\ Len(got) + Len(reply) + Asked <= count
    /\ bus = "write" => txAddress # NO_ADDRESS /\ buf["Wire1"] # <<>>

(* Handed over or not, the slave has it *)
Begun == bus = "write" /\ "start" \notin intr
Owed == IF Begun THEN <<>> ELSE Receive
MemAfter(b) == IF b = <<>> THEN mem ELSE Stored(mem, b)
PlaceAfter(b) == IF b = <<>> THEN mem_address ELSE AddressAfter(b)
Reading(c) ==
    /\ wanted = [i \in 1 .. count |-> expect[(c + i - 1) % MemSize]]
    /\ PlaceAfter(Owed) = (c + Len(got) + Len(reply)) % MemSize
    /\ cursor = (c + count) % MemSize
    /\ \A i \in 1 .. Len(got) : got[i] = wanted[i]
    /\ reply # <<>> => reply[1] = wanted[Len(got) + 1]

(* Events come singly, and an instance that is not registered has none *)
OneEvent ==
    /\ intr \in {{}, {"start"}, {"stop"}, {"rx_full"}, {"rd_req"}}
    /\ ~registered["Wire"] => buf["Wire"] = <<>> /\ intr = {}
    /\ intr = {"stop"} => bus = "idle"
    /\ bus = "idle" => intr \subseteq {"stop"} /\ (intr = {} => buf["Wire"] = <<>>)
    /\ buf["Wire"] # <<>> => transfer_in_progress
(* In a write the slave has the bytes taken so far, up to its buffer's length *)
InWrite ==
    bus = "write" =>
      /\ "start" \in intr => taken = 0
      /\ Begun /\ ~Answers => Receive = <<>>
      /\ Begun /\ Answers =>
           taken <= Len(buf["Wire1"]) /\ Receive = SubSeq(buf["Wire1"], 1, Least(Length["Wire"], taken))
InRead == bus = "read" /\ "start" \notin intr => Receive = <<>>
Places ==
    /\ expect = MemAfter(Owed)
    /\ ~(bus = "read" /\ Answers) => cursor = PlaceAfter(Owed)
    /\ bus = "read" /\ Answers => \E c \in Byte : Reading(c)
(* What the master has read, or began something else *)
Results ==
    /\ bus # "read" /\ wanted # <<>> => buf["Wire1"] = wanted
    /\ txAddress # NO_ADDRESS => wanted = <<>>
    /\ bus = "read" /\ ~Answers => wanted = <<>>

WireShape == WireTypes /\ WireStill

LEMMA LengthIs ==
    /\ Length["Wire"] \in Nat /\ Length["Wire"] > 0 /\ Length["Wire1"] \in Nat /\ Length["Wire1"] > 0
    /\ MemSize \in Nat \ {0} /\ MaxData \in Nat \ {0}
    /\ "Wire" \in Wires /\ "Wire1" \in Wires
  BY WireAssumption DEF Wires

LEMMA BufIs ==
    ASSUME WireTypes
    PROVE  /\ buf["Wire"] \in Seq(Byte) /\ Len(buf["Wire"]) <= Length["Wire"]
           /\ buf["Wire1"] \in Seq(Byte) /\ Len(buf["Wire1"]) <= Length["Wire1"]
           /\ Len(buf["Wire"]) \in Nat /\ Len(buf["Wire1"]) \in Nat
<1>1. \A w \in Wires : buf[w] \in Seq(Byte) /\ Len(buf[w]) <= Length[w]
  BY DEF WireTypes
<1>2. buf["Wire"] \in Seq(Byte) /\ Len(buf["Wire"]) <= Length["Wire"]
  BY <1>1, LengthIs
<1>3. buf["Wire1"] \in Seq(Byte) /\ Len(buf["Wire1"]) <= Length["Wire1"]
  BY <1>1, LengthIs
<1> QED
  BY <1>2, <1>3

(* An assignment of one of the two buffers *)
LEMMA BufBecomes ==
    ASSUME WireTypes, NEW w \in Wires, NEW s \in Seq(Byte), Len(s) <= Length[w],
           buf' = [buf EXCEPT ![w] = s]
    PROVE  /\ buf' \in [Wires -> Seq(Byte)] /\ \A v \in Wires : Len(buf'[v]) <= Length[v]
           /\ buf'[w] = s /\ \A v \in Wires : v # w => buf'[v] = buf[v]
  BY DEF WireTypes

LEMMA ReceiveIs ==
    ASSUME WireTypes
    PROVE  /\ Receive \in Seq(Byte) /\ Len(Receive) <= Length["Wire"]
           /\ "rx_full" \notin intr => Receive = buf["Wire"]
<1>1. buf["Wire"] \in Seq(Byte) /\ Len(buf["Wire"]) <= Length["Wire"]
  BY BufIs
<1>2. PICK s : s = buf["Wire"] \o fifo
  OBVIOUS
<1>3. s \in Seq(Byte) /\ Length["Wire"] \in Nat
  <2>1. fifo \in Seq(Byte)
    BY DEF WireTypes
  <2> QED
    BY <1>1, <1>2, <2>1, LengthIs
<1>4. First(Length["Wire"], s) \in Seq(Byte) /\ Len(First(Length["Wire"], s)) <= Length["Wire"]
  BY <1>3, FirstIs
<1> QED
  BY <1>1, <1>2, <1>4 DEF Receive

LEMMA RaiseTypes ==
    ASSUME WireTypes, NEW e \in {"start", "stop", "rx_full", "rd_req"}, Raise(e)
    PROVE  /\ intr' \subseteq {"start", "stop", "rx_full", "rd_req"} /\ late' \in Nat
           /\ intr \subseteq intr' /\ intr' \subseteq intr \cup {e}
           /\ ~registered["Wire"] => intr' = intr
  BY DEF WireTypes, Raise

LEMMA EndsTypes ==
    ASSUME WireTypes, NEW complete \in BOOLEAN, Ends(complete)
    PROVE  /\ intr' \subseteq {"start", "stop", "rx_full", "rd_req"} /\ late' \in Nat
           /\ intr \subseteq intr' /\ intr' \subseteq intr \cup {"stop"}
           /\ bus' \in {"idle", "held"}
<1>1. CASE bus' = "idle" /\ Raise("stop")
  <2>1. "stop" \in {"start", "stop", "rx_full", "rd_req"}
    OBVIOUS
  <2> QED
    BY <1>1, <2>1, RaiseTypes
<1>2. CASE bus' = "held" /\ UNCHANGED <<intr, late>>
  BY <1>2 DEF WireTypes
<1> QED
  BY <1>1, <1>2 DEF Ends

LEMMA InitTypes == WireInit => WireTypes /\ WireStill
<1> SUFFICES ASSUME WireInit PROVE WireTypes /\ WireStill
  OBVIOUS
<1>1. <<>> \in Seq(Byte) /\ Len(<<>>) = 0
  OBVIOUS
<1>2. buf = [w \in Wires |-> <<>>] /\ \A w \in Wires : Len(buf[w]) = 0
  BY <1>1 DEF WireInit
<1>3. buf \in [Wires -> Seq(Byte)] /\ \A w \in Wires : Len(buf[w]) <= Length[w]
  <2>1. \A w \in Wires : Length[w] >= 0
    BY WireAssumption
  <2> QED
    BY <1>1, <1>2, <2>1
<1>4. pos \in 0 .. Len(buf["Wire1"])
  BY <1>2, LengthIs DEF WireInit
<1>5. mode \in [Wires -> {"unassigned", "master", "slave"}] /\ registered \in [Wires -> BOOLEAN]
  BY DEF WireInit
<1>6. mem \in [Byte -> Byte] /\ mem_address \in Byte /\ expect \in [Byte -> Byte] /\ cursor \in Byte
  BY ByteIs DEF WireInit
<1>7. /\ txAddress \in Device \cup {NO_ADDRESS} /\ status \in {0, 4} /\ (txAddress # NO_ADDRESS => pos = 0)
      /\ bus \in {"idle", "held", "write", "read"} /\ to \in Device /\ stop \in BOOLEAN
      /\ transfer_in_progress \in BOOLEAN
  BY DEF WireInit, Device
<1>8. fifo = <<>> /\ reply = <<>> /\ got = <<>> /\ intr = {}
  BY DEF WireInit
<1>9. taken = 0 /\ count = 0 /\ late = 0 /\ transfers = 0 /\ bus = "idle"
  BY DEF WireInit
<1>10. WireTypes
  <2>1. count \in 0 .. Length["Wire1"] /\ taken \in Nat /\ late \in Nat /\ transfers \in Nat
    BY <1>9, LengthIs
  <2>2. intr \subseteq {"start", "stop", "rx_full", "rd_req"}
    BY <1>8
  <2> QED
    BY <1>1, <1>3, <1>4, <1>5, <1>6, <1>7, <1>8, <2>1, <2>2 DEF WireTypes
<1>11. WireStill
  BY <1>1, <1>8, <1>9 DEF WireStill, Asked
<1> QED
  BY <1>10, <1>11

(* The program's calls *)
LEMMA ProgramTypes ==
    ASSUME WireTypes, WireStill, Program
    PROVE  WireTypes' /\ WireStill'
<1>0. /\ buf["Wire1"] \in Seq(Byte) /\ Len(buf["Wire1"]) <= Length["Wire1"]
      /\ <<>> \in Seq(Byte) /\ Len(<<>>) = 0 /\ Len(buf["Wire1"]) \in Nat
  BY BufIs
<1>1. CASE BeginMaster
  <2>1. /\ buf' \in [Wires -> Seq(Byte)] /\ \A v \in Wires : Len(buf'[v]) <= Length[v]
        /\ buf'["Wire1"] = <<>>
    <3>1. Len(<<>>) <= Length["Wire1"] /\ <<>> \in Seq(Byte)
      BY <1>0, LengthIs
    <3>2. buf' = [buf EXCEPT !["Wire1"] = <<>>]
      BY <1>1 DEF BeginMaster
    <3> QED
      BY <3>1, <3>2, LengthIs, BufBecomes
  <2>2. mode' \in [Wires -> {"unassigned", "master", "slave"}] /\ registered' \in [Wires -> BOOLEAN]
        /\ registered'["Wire"] = registered["Wire"]
    BY <1>1, LengthIs DEF BeginMaster, WireTypes
  <2>3. pos' \in 0 .. Len(buf'["Wire1"]) /\ pos' = 0
    BY <1>0, <1>1, <2>1 DEF BeginMaster
  <2>4. WireTypes'
    BY <1>1, <2>1, <2>2, <2>3 DEF BeginMaster, WireTypes, slave, history
  <2>5. WireStill'
    BY <1>1, <2>2 DEF BeginMaster, WireStill, Asked, Answers, Free
  <2> QED
    BY <2>4, <2>5
<1>2. CASE BeginSlave
  <2>1. /\ buf' \in [Wires -> Seq(Byte)] /\ \A v \in Wires : Len(buf'[v]) <= Length[v]
        /\ buf'["Wire1"] = buf["Wire1"]
    <3>1. Len(<<>>) <= Length["Wire"] /\ <<>> \in Seq(Byte)
      BY <1>0, LengthIs
    <3>2. buf' = [buf EXCEPT !["Wire"] = <<>>] /\ "Wire1" # "Wire"
      BY <1>2 DEF BeginSlave
    <3> QED
      BY <3>1, <3>2, LengthIs, BufBecomes
  <2>2. mode' \in [Wires -> {"unassigned", "master", "slave"}] /\ registered' \in [Wires -> BOOLEAN]
    BY <1>2, LengthIs DEF BeginSlave, WireTypes
  <2>4. WireTypes'
    BY <1>2, <2>1, <2>2 DEF BeginSlave, WireTypes, history
  <2>5. WireStill'
    BY <1>2 DEF BeginSlave, WireStill, Asked, Answers
  <2> QED
    BY <2>4, <2>5
<1>3. ASSUME NEW address \in Device, BeginTransmission(address) PROVE WireTypes' /\ WireStill'
  <2>1. /\ buf' \in [Wires -> Seq(Byte)] /\ \A v \in Wires : Len(buf'[v]) <= Length[v]
        /\ buf'["Wire1"] = <<>>
    <3>1. Len(<<>>) <= Length["Wire1"] /\ <<>> \in Seq(Byte)
      BY <1>0, LengthIs
    <3>2. buf' = [buf EXCEPT !["Wire1"] = <<>>]
      BY <1>3 DEF BeginTransmission
    <3> QED
      BY <3>1, <3>2, LengthIs, BufBecomes
  <2>3. pos' \in 0 .. Len(buf'["Wire1"]) /\ pos' = 0
    BY <1>0, <1>3, <2>1 DEF BeginTransmission
  <2>4. WireTypes'
    BY <1>3, <2>1, <2>3 DEF BeginTransmission, WireTypes, slave
  <2>5. WireStill'
    BY <1>3 DEF BeginTransmission, WireStill, Asked, Answers, Free
  <2> QED
    BY <2>4, <2>5
<1>4. ASSUME NEW data \in Data, Write(data) PROVE WireTypes' /\ WireStill'
  <2>1. PICK s : s = buf["Wire1"] \o First(Length["Wire1"] - Len(buf["Wire1"]), data)
    OBVIOUS
  <2>2. data \in Seq(Byte) /\ Length["Wire1"] - Len(buf["Wire1"]) \in Nat
    <3>1. PICK n \in 1 .. MaxData : data \in [1 .. n -> Byte]
      BY <1>4 DEF Data
    <3>2. n \in Nat
      BY <3>1, LengthIs
    <3>3. data \in Seq(Byte)
      BY <3>1, <3>2
    <3>4. Length["Wire1"] - Len(buf["Wire1"]) \in Nat
      <4>1. PICK x : x = Len(buf["Wire1"])
        OBVIOUS
      <4>2. PICK y : y = Length["Wire1"]
        OBVIOUS
      <4>3. x \in Nat /\ y \in Nat /\ x <= y
        BY <1>0, <4>1, <4>2, LengthIs
      <4> QED
        BY <4>1, <4>2, <4>3
    <3> QED
      BY <3>3, <3>4
  <2>3. PICK f : f = First(Length["Wire1"] - Len(buf["Wire1"]), data)
    OBVIOUS
  <2>4. f \in Seq(Byte) /\ Len(f) <= Length["Wire1"] - Len(buf["Wire1"])
    BY <2>2, <2>3, FirstIs
  <2>5. s \in Seq(Byte) /\ Len(s) <= Length["Wire1"] /\ Len(s) >= Len(buf["Wire1"]) /\ (s = <<>> => buf["Wire1"] = <<>>)
    <3>1. PICK u : u = buf["Wire1"]
      OBVIOUS
    <3>2. PICK y : y = Length["Wire1"]
      OBVIOUS
    <3>3. u \in Seq(Byte) /\ y \in Nat /\ f \in Seq(Byte) /\ Len(f) <= y - Len(u) /\ s = u \o f
      BY <1>0, <2>1, <2>3, <2>4, <3>1, <3>2, LengthIs
    <3>4. s \in Seq(Byte) /\ Len(s) = Len(u) + Len(f) /\ Len(f) \in Nat /\ Len(u) \in Nat
      BY <3>3
    <3>5. Len(s) <= y /\ Len(s) >= Len(u)
      BY <3>3, <3>4
    <3>6. s = <<>> => u = <<>>
      BY <3>3, <3>4
    <3> QED
      BY <3>1, <3>2, <3>4, <3>5, <3>6
  <2>6. buf' = [buf EXCEPT !["Wire1"] = s]
    BY <1>4, <2>1, LengthIs DEF Write, WireTypes
  <2>7. /\ buf' \in [Wires -> Seq(Byte)] /\ \A v \in Wires : Len(buf'[v]) <= Length[v]
        /\ buf'["Wire1"] = s
    BY <2>5, <2>6, LengthIs, BufBecomes
  <2>8. pos \in 0 .. Len(buf["Wire1"])
    BY DEF WireTypes
  <2>9. pos \in 0 .. Len(buf'["Wire1"])
    BY <1>0, <2>5, <2>7, <2>8
  <2>10. WireTypes'
    BY <1>4, <2>7, <2>9 DEF Write, WireTypes, slave, history
  <2>11. WireStill'
    BY <1>4 DEF Write, WireStill, Asked, Answers, Free
  <2> QED
    BY <2>10, <2>11
<1>5. CASE Read
  <2>1. WireTypes'
    BY <1>0, <1>5 DEF Read, WireTypes, slave, history
  <2>2. WireStill'
    BY <1>5 DEF Read, WireStill, Asked, Answers, Free
  <2> QED
    BY <2>1, <2>2
<1>6. ASSUME NEW sendStop \in BOOLEAN, EndTransmission(sendStop) PROVE WireTypes' /\ WireStill'
  <2>1. Raise("start")
    BY <1>6 DEF EndTransmission
  <2>2. /\ intr' \subseteq {"start", "stop", "rx_full", "rd_req"} /\ late' \in Nat
        /\ intr \subseteq intr' /\ intr' \subseteq intr \cup {"start"}
    BY <2>1, RaiseTypes
  <2>3. to' \in Device
    BY <1>6 DEF EndTransmission, WireTypes
  <2>4. WireTypes'
    BY <1>6, <2>2, <2>3 DEF EndTransmission, WireTypes, program, slave, history
  <2>5. Len(reply) + Asked = 0
    BY <1>6 DEF EndTransmission, WireStill, Free
  <2>6. Asked' = Asked
    BY <2>2 DEF Asked
  <2>7. WireStill'
    BY <1>6, <2>2, <2>5, <2>6 DEF EndTransmission, WireStill, program
  <2> QED
    BY <2>4, <2>7
<1>7. ASSUME NEW address \in Device, NEW n \in 1 .. MaxData, NEW sendStop \in BOOLEAN,
             RequestFrom(address, n, sendStop)
      PROVE  WireTypes' /\ WireStill'
  <2>1. Raise("start")
    BY <1>7 DEF RequestFrom
  <2>2. /\ intr' \subseteq {"start", "stop", "rx_full", "rd_req"} /\ late' \in Nat
        /\ intr \subseteq intr' /\ intr' \subseteq intr \cup {"start"}
    BY <2>1, RaiseTypes
  <2>3. count' \in 1 .. Length["Wire1"]
    <3>1. count' = Least(n, Length["Wire1"]) /\ n \in Nat /\ n > 0
      BY <1>7, LengthIs DEF RequestFrom
    <3> QED
      BY <3>1, LengthIs DEF Least
  <2>4. cursor' \in Byte
    <3>1. cursor + count' \in Nat
      <4>1. cursor \in Nat /\ count' \in Nat
        <5>1. cursor \in Byte /\ Length["Wire1"] \in Nat
          BY LengthIs DEF WireTypes
        <5>2. cursor \in Nat
          BY <5>1, ByteIs
        <5> QED
          BY <2>3, <5>1, <5>2
      <4>2. PICK x \in Nat, y \in Nat : x = cursor /\ y = count'
        BY <4>1
      <4>3. x + y \in Nat
        OBVIOUS
      <4> QED
        BY <4>2, <4>3
    <3>2. (cursor + count') % MemSize \in Byte
      BY <3>1, ByteIs
    <3>3. cursor' = (cursor + count') % MemSize \/ cursor' = cursor
      BY <1>7 DEF RequestFrom
    <3> QED
      BY <3>2, <3>3 DEF WireTypes
  <2>5. count' \in 0 .. Length["Wire1"] /\ transfers' \in Nat /\ got' \in Seq(Byte) /\ got' = <<>>
    BY <1>7, <2>3, LengthIs DEF RequestFrom, WireTypes
  <2>6. WireTypes'
    BY <1>7, <2>2, <2>4, <2>5 DEF RequestFrom, WireTypes, program, slave
  <2>7. Len(reply) + Asked = 0
    BY <1>7 DEF RequestFrom, WireStill, Free
  <2>8. Asked' = Asked
    BY <2>2 DEF Asked
  <2>9. reply' = reply /\ fifo' = fifo /\ txAddress' = txAddress /\ txAddress = NO_ADDRESS /\ bus' = "read"
    BY <1>7 DEF RequestFrom, program
  <2>10. WireStill'
    BY <2>2, <2>3, <2>5, <2>7, <2>8, <2>9, LengthIs DEF WireStill
  <2> QED
    BY <2>6, <2>10
<1> QED
  BY <1>1, <1>2, <1>3, <1>4, <1>5, <1>6, <1>7 DEF Program

(* What is taken of a write *)
LEMMA TakenIs ==
    ASSUME WireTypes, WireStill, WriteEnds
    PROVE  \E n \in Int : /\ n \in Taken /\ Ends(n = Len(buf["Wire1"])) /\ EndReturns(n)
                          /\ status' \in {0, 4} /\ txAddress' = NO_ADDRESS
                          /\ buf' = [buf EXCEPT !["Wire1"] = <<>>] /\ buf'["Wire1"] = <<>>
<1>1. PICK n \in Taken : Ends(n = Len(buf["Wire1"])) /\ EndReturns(n)
  BY DEF WriteEnds
<1>2. n \in Int
  <2>1. Len(buf["Wire1"]) \in Int
    BY BufIs
  <2> QED
    BY <1>1, <2>1 DEF Taken
<1>3. buf' = [buf EXCEPT !["Wire1"] = <<>>] /\ txAddress' = NO_ADDRESS
  BY <1>1 DEF EndReturns
<1>4. buf'["Wire1"] = <<>>
  BY <1>3, LengthIs DEF WireTypes
<1>5. status' \in {0, 4}
  <2>1. Len(buf'["Wire1"]) = 0
    BY <1>4
  <2>2. status' = IF n < 0 THEN 4 ELSE IF n < Len(buf'["Wire1"]) THEN 3 ELSE 0
    BY <1>1 DEF EndReturns
  <2> QED
    BY <1>2, <2>1, <2>2
<1> QED
  BY <1>1, <1>2, <1>3, <1>4, <1>5

LEMMA SendByteTypes == ASSUME WireTypes, WireStill, SendByte PROVE WireTypes' /\ WireStill'
<1>1. /\ intr' \subseteq {"start", "stop", "rx_full", "rd_req"} /\ late' \in Nat
      /\ intr \subseteq intr' /\ intr' \subseteq intr \cup {"rx_full"}
  BY RaiseTypes DEF SendByte
<1>2. fifo' \in Seq(Byte) /\ taken' \in Nat
  <2>1. PICK u : u = buf["Wire1"]
    OBVIOUS
  <2>2. u \in Seq(Byte) /\ taken \in Nat /\ taken < Len(u) /\ fifo \in Seq(Byte)
    BY <2>1, BufIs DEF SendByte, WireTypes
  <2>3. u[taken + 1] \in Byte
    BY <2>2
  <2> QED
    BY <2>1, <2>2, <2>3 DEF SendByte
<1>3. WireTypes'
  BY <1>1, <1>2 DEF SendByte, WireTypes, program, slave, history
<1>4. Asked' = Asked
  BY <1>1 DEF Asked
<1>6. "rx_full" \in intr'
  BY DEF SendByte, Raise, Answers
<1>7. WireStill'
  BY <1>4, <1>6 DEF SendByte, WireStill, Answers, program
<1> QED
  BY <1>3, <1>7

LEMMA WriteEndsTypes == ASSUME WireTypes, WireStill, WriteEnds PROVE WireTypes' /\ WireStill'
<1>1. PICK n \in Int : /\ n \in Taken /\ Ends(n = Len(buf["Wire1"])) /\ EndReturns(n)
                       /\ status' \in {0, 4} /\ txAddress' = NO_ADDRESS
                       /\ buf' = [buf EXCEPT !["Wire1"] = <<>>] /\ buf'["Wire1"] = <<>>
  BY TakenIs
<1>2. /\ intr' \subseteq {"start", "stop", "rx_full", "rd_req"} /\ late' \in Nat
      /\ intr \subseteq intr' /\ intr' \subseteq intr \cup {"stop"}
      /\ bus' \in {"idle", "held"}
  BY <1>1, EndsTypes
<1>3. buf' \in [Wires -> Seq(Byte)] /\ \A v \in Wires : Len(buf'[v]) <= Length[v]
  <2>1. Len(<<>>) <= Length["Wire1"] /\ <<>> \in Seq(Byte)
    BY LengthIs
  <2> QED
    BY <1>1, <2>1, LengthIs, BufBecomes
<1>4. pos' \in 0 .. Len(buf'["Wire1"])
  <2>1. txAddress # NO_ADDRESS
    BY DEF WriteEnds, WireStill
  <2>2. pos' = 0
    BY <2>1 DEF WriteEnds, WireTypes
  <2> QED
    BY <1>1, <2>2
<1>5. expect' \in [Byte -> Byte] /\ cursor' \in Byte
  <2>1. CASE Answers
    <3>1. PICK b : b = First(Length["Wire"], buf["Wire1"])
      OBVIOUS
    <3>2. buf["Wire1"] # <<>> /\ expect' = Stored(expect, b) /\ cursor' = AddressAfter(b)
      BY <2>1, <3>1 DEF WriteEnds, WireStill
    <3>3. b \in Seq(Byte) /\ b # <<>>
      <4>1. buf["Wire1"] \in Seq(Byte) /\ Length["Wire"] \in Nat /\ Length["Wire"] > 0
        BY BufIs, LengthIs
      <4> QED
        BY <3>1, <3>2, <4>1, FirstIs
    <3> QED
      BY <3>2, <3>3, StoredIs DEF WireTypes
  <2>2. CASE ~Answers
    BY <2>2 DEF WriteEnds, WireTypes
  <2> QED
    BY <2>1, <2>2
<1>6. mode' = mode /\ registered' = registered /\ UNCHANGED <<slave, fifo, reply, to, stop, taken, count, got, transfers>>
  BY DEF WriteEnds
<1>7. WireTypes'
  BY <1>1, <1>2, <1>3, <1>4, <1>5, <1>6 DEF WireTypes, slave
<1>8. Len(reply) + Asked = 0
  BY DEF WriteEnds, WireStill
<1>9. Asked' = Asked
  BY <1>2 DEF Asked
<1>10. WireStill'
  BY <1>2, <1>6, <1>8, <1>9 DEF WireStill
<1> QED
  BY <1>7, <1>10

LEMMA AskByteTypes == ASSUME WireTypes, WireStill, AskByte PROVE WireTypes' /\ WireStill'
<1>1. /\ intr' \subseteq {"start", "stop", "rx_full", "rd_req"} /\ late' \in Nat
      /\ intr \subseteq intr' /\ intr' \subseteq intr \cup {"rd_req"}
  BY RaiseTypes DEF AskByte
<1>2. WireTypes'
  BY <1>1 DEF AskByte, WireTypes, program, slave, history
<1>3. Asked' = 1 /\ Asked = 0 /\ Len(reply) = 0
  BY DEF AskByte, Asked, Raise, Answers
<1>4. UNCHANGED <<reply, got, count, bus, registered, to, txAddress, buf, fifo>>
  BY DEF AskByte, program
<1>5. Answers' /\ bus = "read" /\ Len(got) < count
  BY <1>4 DEF AskByte, Answers
<1>6. Len(got) \in Nat /\ count \in Nat
  BY LengthIs DEF WireTypes
<1>7. WireStill'
  BY <1>1, <1>3, <1>4, <1>5, <1>6 DEF WireStill
<1> QED
  BY <1>2, <1>7

LEMMA OneLong ==
    ASSUME NEW S, NEW s \in Seq(S), s # <<>>, NEW k \in {0, 1}, Len(s) + k <= 1
    PROVE  Len(s) = 1 /\ k = 0 /\ s[1] \in S /\ s = <<s[1]>> /\ Head(s) = s[1] /\ Tail(s) = <<>>
<1>1. Len(s) \in Nat /\ Len(s) # 0
  OBVIOUS
<1>2. Len(s) = 1 /\ k = 0
  BY <1>1
<1>3. s[1] \in S
  BY <1>2
<1>4. s = <<s[1]>>
  BY <1>2, <1>3
<1>5. Head(s) = s[1] /\ Tail(s) = <<>>
  <2>1. PICK x \in S : x = s[1]
    BY <1>3
  <2>2. s = <<x>>
    BY <1>4, <2>1
  <2>3. Head(<<x>>) = x /\ Tail(<<x>>) = <<>>
    OBVIOUS
  <2> QED
    BY <2>1, <2>2, <2>3
<1> QED
  BY <1>2, <1>3, <1>4, <1>5

(* The one byte of the reply goes to the master *)
LEMMA GetByteIs ==
    ASSUME WireTypes, WireStill, GetByte
    PROVE  /\ reply = <<reply[1]>> /\ reply' = <<>> /\ Asked = 0
           /\ got' = Append(got, reply[1]) /\ got' \in Seq(Byte) /\ Len(got') = Len(got) + 1
           /\ Len(got) + 1 <= count /\ Len(got) \in Nat /\ Answers
<1>1. reply \in Seq(Byte) /\ got \in Seq(Byte) /\ Asked \in {0, 1} /\ reply # <<>> /\ Len(reply) + Asked <= 1
  BY DEF WireTypes, Asked, GetByte, WireStill
<1>2. Len(reply) = 1 /\ Asked = 0
  BY <1>1, OneLong
<1>3. reply = <<reply[1]>> /\ Head(reply) = reply[1] /\ Tail(reply) = <<>> /\ reply[1] \in Byte
  BY <1>1, OneLong
<1>4. Len(reply) + Asked # 0
  BY <1>2
<1>5. bus = "read" /\ Answers /\ Len(got) + Len(reply) + Asked <= count
  BY <1>4 DEF WireStill
<1>6. got' = Append(got, reply[1]) /\ reply' = <<>>
  BY <1>3 DEF GetByte
<1>7. got' \in Seq(Byte) /\ Len(got') = Len(got) + 1 /\ Len(got) \in Nat
  BY <1>1, <1>3, <1>6
<1>8. Len(got) + 1 <= count
  BY <1>2, <1>5, <1>7
<1> QED
  BY <1>2, <1>3, <1>5, <1>6, <1>7, <1>8

LEMMA GetByteTypes == ASSUME WireTypes, WireStill, GetByte PROVE WireTypes' /\ WireStill'
<1>1. /\ reply' = <<>> /\ Asked = 0 /\ got' \in Seq(Byte) /\ Len(got') = Len(got) + 1
      /\ Len(got) + 1 <= count
  BY GetByteIs
<1>2. reply' \in Seq(Byte)
  BY <1>1
<1>3. WireTypes'
  BY <1>1, <1>2 DEF GetByte, WireTypes, program, slave, history
<1>4. Asked' = 0
  BY <1>1 DEF GetByte, Asked
<1>5. Len(reply') = 0 /\ Len(got') + Len(reply') + Asked' <= count
  <2>1. Len(got') \in Nat /\ Len(reply') = 0 /\ count \in Nat /\ Len(got') <= count
    BY <1>1, LengthIs DEF WireTypes
  <2> QED
    BY <1>4, <2>1
<1>6. UNCHANGED <<fifo, intr, bus, count, txAddress, buf>>
  BY DEF GetByte, program
<1>7. WireStill'
  BY <1>4, <1>5, <1>6 DEF WireStill
<1> QED
  BY <1>3, <1>7

(* What requestFrom has got *)
LEMMA ReadEndsIs ==
    ASSUME WireTypes, WireStill, ReadEnds
    PROVE  \E bytes \in Seq(Byte) :
             /\ Ends(bytes # <<>>) /\ buf' = [buf EXCEPT !["Wire1"] = bytes] /\ buf'["Wire1"] = bytes
             /\ Len(bytes) <= Length["Wire1"] /\ Len(reply) + Asked = 0
             /\ Answers => bytes = got
<1>1. PICK bytes \in IF Answers THEN {got}
                     ELSE IF to = "slave" THEN {<<>>} ELSE {<<>>, [i \in 1 .. count |-> 0]} :
            Ends(bytes # <<>>) /\ buf' = [buf EXCEPT !["Wire1"] = bytes]
  BY DEF ReadEnds
<1>2. count \in Nat /\ count <= Length["Wire1"] /\ got \in Seq(Byte) /\ Len(got) \in Nat /\ reply \in Seq(Byte)
      /\ Len(reply) \in Nat /\ Asked \in {0, 1} /\ Length["Wire1"] \in Nat
  BY LengthIs DEF WireTypes, Asked
<1>3. bus = "read" /\ Len(got) + Len(reply) + Asked <= count
  BY DEF ReadEnds, WireStill
<1>4. bytes \in Seq(Byte) /\ Len(bytes) <= Length["Wire1"]
  <2>1. CASE bytes = got
    BY <1>2, <1>3, <2>1
  <2>2. CASE bytes = <<>>
    BY <1>2, <2>2
  <2>3. CASE bytes = [i \in 1 .. count |-> 0]
    <3>1. 0 \in Byte
      BY ByteIs
    <3>2. bytes \in Seq(Byte) /\ Len(bytes) = count
      BY <1>2, <2>3, <3>1
    <3> QED
      BY <1>2, <3>2
  <2> QED
    BY <1>1, <2>1, <2>2, <2>3
<1>5. Len(reply) + Asked = 0
  <2>1. CASE Answers
    <3>1. Len(got) = count
      BY <2>1 DEF ReadEnds
    <3> QED
      BY <1>2, <1>3, <3>1
  <2>2. CASE ~Answers
    BY <2>2 DEF WireStill
  <2> QED
    BY <2>1, <2>2
<1>6. buf'["Wire1"] = bytes
  BY <1>1, LengthIs DEF WireTypes
<1> QED
  BY <1>1, <1>4, <1>5, <1>6

LEMMA ReadEndsTypes == ASSUME WireTypes, WireStill, ReadEnds PROVE WireTypes' /\ WireStill'
<1>1. PICK bytes \in Seq(Byte) :
             /\ Ends(bytes # <<>>) /\ buf' = [buf EXCEPT !["Wire1"] = bytes] /\ buf'["Wire1"] = bytes
             /\ Len(bytes) <= Length["Wire1"] /\ Len(reply) + Asked = 0
  BY ReadEndsIs
<1>2. /\ intr' \subseteq {"start", "stop", "rx_full", "rd_req"} /\ late' \in Nat
      /\ intr \subseteq intr' /\ intr' \subseteq intr \cup {"stop"}
      /\ bus' \in {"idle", "held"}
  BY <1>1, EndsTypes
<1>3. buf' \in [Wires -> Seq(Byte)] /\ \A v \in Wires : Len(buf'[v]) <= Length[v]
  BY <1>1, LengthIs, BufBecomes
<1>4. pos' \in 0 .. Len(buf'["Wire1"]) /\ pos' = 0
  <2>1. Len(bytes) \in Nat
    BY <1>1
  <2> QED
    BY <1>1, <2>1 DEF ReadEnds
<1>5. UNCHANGED <<mode, registered, txAddress, status, slave, fifo, reply, to, stop, taken, count, got, transfers, expect, cursor>>
  BY DEF ReadEnds, history
<1>6. WireTypes'
  BY <1>2, <1>3, <1>4, <1>5 DEF WireTypes, slave
<1>7. Asked' = Asked
  BY <1>2 DEF Asked
<1>8. WireStill'
  BY <1>1, <1>2, <1>5, <1>7 DEF WireStill
<1> QED
  BY <1>6, <1>8

LEMMA InterruptTypes == ASSUME WireTypes, WireStill, Interrupt PROVE WireTypes' /\ WireStill'
<1>0. Receive \in Seq(Byte) /\ Len(Receive) <= Length["Wire"]
  BY ReceiveIs
<1>1. buf' \in [Wires -> Seq(Byte)] /\ (\A v \in Wires : Len(buf'[v]) <= Length[v]) /\ buf'["Wire1"] = buf["Wire1"]
  <2>1. Len(<<>>) <= Length["Wire"] /\ <<>> \in Seq(Byte) /\ "Wire1" # "Wire"
    BY LengthIs
  <2>2. CASE buf' = [buf EXCEPT !["Wire"] = <<>>]
    BY <2>1, <2>2, LengthIs, BufBecomes
  <2>3. CASE buf' = [buf EXCEPT !["Wire"] = Receive]
    BY <1>0, <2>1, <2>3, LengthIs, BufBecomes
  <2> QED
    BY <2>2, <2>3 DEF Interrupt
<1>2. mem' \in [Byte -> Byte] /\ mem_address' \in Byte
  <2>1. CASE Finishes /\ Receive # <<>>
    <3>1. mem' = Stored(mem, Receive) /\ mem_address' = AddressAfter(Receive)
      BY <2>1 DEF Interrupt
    <3> QED
      BY <1>0, <2>1, <3>1, StoredIs DEF WireTypes
  <2>2. CASE ~(Finishes /\ Receive # <<>>)
    <3>1. mem' = mem /\ mem_address' = Requested
      BY <2>2 DEF Interrupt
    <3>2. (mem_address + 1) % MemSize \in Byte /\ mem_address \in Byte
      <4>1. mem_address \in Nat
        BY ByteIs DEF WireTypes
      <4>2. mem_address + 1 \in Nat
        BY <4>1
      <4> QED
        BY <4>2, ByteIs DEF WireTypes
    <3> QED
      BY <3>1, <3>2 DEF Requested, WireTypes
  <2> QED
    BY <2>1, <2>2
<1>3. reply' \in Seq(Byte) /\ Len(reply') = Len(reply) + Asked /\ intr' = {} /\ Asked' = 0
  <2>1. mem[mem_address] \in Byte /\ reply \in Seq(Byte)
    BY DEF WireTypes
  <2>2. reply' = IF "rd_req" \in intr THEN Append(reply, mem[mem_address]) ELSE reply
    BY DEF Interrupt, Request
  <2>3. intr' = {}
    BY DEF Interrupt
  <2> QED
    BY <2>1, <2>2, <2>3 DEF Asked
<1>4. fifo' = <<>> /\ fifo' \in Seq(Byte)
  <2>1. fifo' = IF "rx_full" \in intr THEN <<>> ELSE fifo
    BY DEF Interrupt
  <2>2. "rx_full" \notin intr => fifo = <<>>
    BY DEF WireStill
  <2>3. fifo' = <<>>
    BY <2>1, <2>2
  <2> QED
    BY <2>3
<1>5. transfer_in_progress' \in BOOLEAN
  BY DEF Interrupt
<1>6. UNCHANGED <<mode, registered, txAddress, pos, status, bus, to, stop, taken, count, got, late, transfers, expect, cursor>>
  BY DEF Interrupt, history
<1>7. intr' \subseteq {"start", "stop", "rx_full", "rd_req"} /\ pos' \in 0 .. Len(buf'["Wire1"])
  BY <1>1, <1>3, <1>6 DEF WireTypes
<1>8. WireTypes'
  BY <1>1, <1>2, <1>3, <1>4, <1>5, <1>6, <1>7 DEF WireTypes
<1>9. Len(reply') + Asked' = Len(reply) + Asked /\ Len(got') + Len(reply') + Asked' = Len(got) + Len(reply) + Asked
  <2>1. Len(reply) \in Nat /\ Len(got) \in Nat /\ Asked \in {0, 1} /\ got' = got
    BY <1>6 DEF WireTypes, Asked
  <2> QED
    BY <1>3, <2>1
<1>10. Answers' = Answers
  BY <1>6 DEF Answers
<1>11. WireStill'
  BY <1>1, <1>4, <1>6, <1>9, <1>10 DEF WireStill
<1> QED
  BY <1>8, <1>11

LEMMA WireTypesStep == ASSUME WireTypes, WireStill, [WireNext]_wire_vars PROVE WireTypes' /\ WireStill'
<1>1. CASE UNCHANGED wire_vars
  BY <1>1 DEF wire_vars, program, slave, history, WireTypes, WireStill, Asked, Answers
<1> QED
  BY <1>1, ProgramTypes, SendByteTypes, WriteEndsTypes, AskByteTypes, GetByteTypes, ReadEndsTypes,
     InterruptTypes DEF WireNext

OnTime == OneEvent /\ InWrite /\ InRead /\ Places /\ Results

(* An event that does not overtake another is alone *)
LEMMA RaiseAlone ==
    ASSUME WireTypes, NEW e, Raise(e), late' = 0
    PROVE  late = 0 /\ intr = {} /\ intr' = IF registered["Wire"] THEN {e} ELSE {}
<1>1. late \in Nat
  BY DEF WireTypes
<1>2. late' = IF intr = {} THEN late ELSE late + 1
  BY DEF Raise
<1>3. intr = {} /\ late = 0
  BY <1>1, <1>2
<1>4. intr' = IF registered["Wire"] THEN intr \cup {e} ELSE intr
  BY DEF Raise
<1> QED
  BY <1>3, <1>4

LEMMA EndsAlone ==
    ASSUME WireTypes, NEW complete \in BOOLEAN, Ends(complete), late' = 0
    PROVE  /\ late = 0
           /\ \/ bus' = "held" /\ intr' = intr
              \/ bus' = "idle" /\ intr = {} /\ intr' = IF registered["Wire"] THEN {"stop"} ELSE {}
<1>1. CASE bus' = "idle" /\ Raise("stop")
  BY <1>1, RaiseAlone
<1>2. CASE bus' = "held" /\ UNCHANGED <<intr, late>>
  BY <1>2
<1> QED
  BY <1>1, <1>2 DEF Ends

(* What the slave has does not depend on the rest *)
SlaveKept ==
    /\ UNCHANGED <<mem, mem_address, fifo>> /\ buf'["Wire"] = buf["Wire"]
    /\ "rx_full" \in intr' <=> "rx_full" \in intr

LEMMA KeptIs == ASSUME SlaveKept PROVE Receive' = Receive
  BY DEF SlaveKept, Receive

LEMMA OwedKept ==
    ASSUME Owed' = Owed, UNCHANGED <<mem, mem_address>>
    PROVE  MemAfter(Owed)' = MemAfter(Owed) /\ PlaceAfter(Owed)' = PlaceAfter(Owed)
  BY DEF MemAfter, PlaceAfter

(* The program's calls that leave the bus alone *)
Quiet ==
    /\ Free /\ SlaveKept
    /\ UNCHANGED <<transfer_in_progress, intr, bus, expect, cursor>>
    /\ registered'["Wire"] = registered["Wire"]

LEMMA QuietStep ==
    ASSUME OnTime, Quiet
    PROVE  OneEvent' /\ InWrite' /\ InRead' /\ Places'
<1>1. Receive' = Receive /\ bus' = bus /\ bus \in {"idle", "held"} /\ intr' = intr
  BY KeptIs DEF Quiet, Free
<1>2. Owed' = Owed
  BY <1>1 DEF Owed, Begun
<1>3. MemAfter(Owed)' = MemAfter(Owed) /\ PlaceAfter(Owed)' = PlaceAfter(Owed)
  BY <1>2, OwedKept DEF Quiet, SlaveKept
<1>4. OneEvent'
  BY <1>1 DEF OnTime, OneEvent, Quiet, SlaveKept
<1>5. InWrite' /\ InRead'
  BY <1>1 DEF InWrite, InRead
<1>6. Places'
  BY <1>1, <1>3 DEF OnTime, Places, Quiet
<1> QED
  BY <1>4, <1>5, <1>6

LEMMA OtherBuf ==
    ASSUME WireTypes, NEW s, buf' = [buf EXCEPT !["Wire1"] = s]
    PROVE  buf'["Wire"] = buf["Wire"] /\ buf'["Wire1"] = s
<1>1. "Wire" # "Wire1"
  OBVIOUS
<1> QED
  BY <1>1, LengthIs DEF WireTypes

LEMMA BeginMasterOnTime == ASSUME WireTypes, OnTime, BeginMaster PROVE OnTime'
<1>1. buf'["Wire"] = buf["Wire"]
  BY OtherBuf DEF BeginMaster
<1>2. registered'["Wire"] = registered["Wire"]
  BY LengthIs DEF BeginMaster, WireTypes
<1>3. Quiet
  BY <1>1, <1>2 DEF BeginMaster, Quiet, SlaveKept, slave
<1>4. Results'
  BY DEF BeginMaster, Results
<1> QED
  BY <1>3, <1>4, QuietStep DEF OnTime

LEMMA BeginTransmissionOnTime ==
    ASSUME WireTypes, OnTime, NEW address, BeginTransmission(address) PROVE OnTime'
<1>1. buf'["Wire"] = buf["Wire"]
  BY OtherBuf DEF BeginTransmission
<1>3. Quiet
  BY <1>1 DEF BeginTransmission, Quiet, SlaveKept, slave
<1>4. Results'
  BY DEF BeginTransmission, Results
<1> QED
  BY <1>3, <1>4, QuietStep DEF OnTime

LEMMA WriteOnTime == ASSUME WireTypes, OnTime, NEW data, Write(data) PROVE OnTime'
<1>1. buf'["Wire"] = buf["Wire"]
  BY DEF Write, WireTypes
<1>3. Quiet
  BY <1>1 DEF Write, Quiet, SlaveKept, slave, history
<1>4. Results'
  BY DEF OnTime, Write, Results, history, Free
<1> QED
  BY <1>3, <1>4, QuietStep DEF OnTime

LEMMA ReadOnTime == ASSUME OnTime, Read PROVE OnTime'
<1>3. Quiet
  BY DEF Read, Quiet, SlaveKept, slave, history
<1>4. Results'
  BY DEF OnTime, Read, Results, history, Free, Answers
<1> QED
  BY <1>3, <1>4, QuietStep DEF OnTime

LEMMA BeginSlaveOnTime == ASSUME WireTypes, OnTime, BeginSlave PROVE OnTime'
<1>1. bus = "idle" /\ bus' = "idle" /\ intr = {} /\ intr' = {} /\ buf["Wire"] = <<>>
  BY DEF BeginSlave, OnTime, OneEvent
<1>2. buf'["Wire"] = <<>> /\ buf'["Wire1"] = buf["Wire1"] /\ registered'["Wire"] = TRUE
  <2>1. "Wire" # "Wire1"
    OBVIOUS
  <2> QED
    BY <2>1, LengthIs DEF BeginSlave, WireTypes
<1>3. Receive' = <<>> /\ Receive = <<>>
  BY <1>1, <1>2 DEF Receive
<1>4. Owed' = <<>> /\ Owed = <<>>
  BY <1>1, <1>3 DEF Owed, Begun
<1>5. MemAfter(Owed)' = MemAfter(Owed) /\ PlaceAfter(Owed)' = PlaceAfter(Owed)
  BY <1>4, OwedKept DEF BeginSlave
<1>6. OneEvent'
  BY <1>1, <1>2 DEF OneEvent
<1>7. InWrite' /\ InRead'
  BY <1>1 DEF InWrite, InRead
<1>8. Places'
  BY <1>1, <1>5 DEF OnTime, Places, BeginSlave, history
<1>9. Results'
  BY <1>1, <1>2 DEF OnTime, Results, BeginSlave, history
<1> QED
  BY <1>6, <1>7, <1>8, <1>9 DEF OnTime

(* Nothing was pending: what the slave has is in its buffer *)
LEMMA NothingPending ==
    ASSUME OnTime, intr = {}, intr' = {} \/ intr' = {"start"} \/ intr' = {"stop"} \/ intr' = {"rd_req"},
           UNCHANGED <<mem, mem_address>>, buf'["Wire"] = buf["Wire"]
    PROVE  /\ Receive = buf["Wire"] /\ Receive' = Receive
           /\ ~registered["Wire"] => Receive = <<>>
<1>1. "rx_full" \notin intr /\ "rx_full" \notin intr'
  OBVIOUS
<1> QED
  BY <1>1 DEF Receive, OnTime, OneEvent

LEMMA EndTransmissionOnTime ==
    ASSUME WireTypes, WireStill, OnTime, NEW sendStop, EndTransmission(sendStop), late' = 0 PROVE OnTime'
<1>1. intr = {} /\ intr' = IF registered["Wire"] THEN {"start"} ELSE {}
  BY RaiseAlone DEF EndTransmission
<1>2. UNCHANGED <<registered, buf, mem, mem_address, transfer_in_progress, expect, cursor, wanted, txAddress>>
      /\ bus' = "write" /\ taken' = 0 /\ bus \in {"idle", "held"} /\ txAddress # NO_ADDRESS
  BY DEF EndTransmission, program, slave, history, Free
<1>3. Receive = buf["Wire"] /\ Receive' = Receive /\ (~registered["Wire"] => Receive = <<>>)
  BY <1>1, <1>2, NothingPending
<1>4. Owed' = Owed
  <2>1. Owed = Receive
    BY <1>2 DEF Owed, Begun
  <2>2. CASE registered["Wire"]
    BY <1>1, <1>3, <2>1, <2>2 DEF Owed, Begun
  <2>3. CASE ~registered["Wire"]
    BY <1>1, <1>2, <1>3, <2>1, <2>3 DEF Owed, Begun
  <2> QED
    BY <2>2, <2>3
<1>5. MemAfter(Owed)' = MemAfter(Owed) /\ PlaceAfter(Owed)' = PlaceAfter(Owed)
  BY <1>2, <1>4, OwedKept
<1>6. OneEvent'
  BY <1>1, <1>2 DEF OnTime, OneEvent
<1>7. InWrite'
  BY <1>1, <1>2, <1>3 DEF InWrite, Begun, Answers
<1>8. InRead' /\ Places'
  BY <1>2, <1>5 DEF OnTime, InRead, Places
<1>9. Results'
  BY <1>2 DEF OnTime, Results
<1> QED
  BY <1>6, <1>7, <1>8, <1>9 DEF OnTime

LEMMA RequestFromOnTime ==
    ASSUME WireTypes, WireStill, OnTime, NEW address, NEW n, NEW sendStop,
           RequestFrom(address, n, sendStop), late' = 0
    PROVE  OnTime'
<1>1. intr = {} /\ intr' = IF registered["Wire"] THEN {"start"} ELSE {}
  BY RaiseAlone DEF RequestFrom
<1>2. UNCHANGED <<registered, buf, mem, mem_address, transfer_in_progress, expect, txAddress, reply>>
      /\ bus' = "read" /\ to' = address /\ got' = <<>> /\ bus \in {"idle", "held"} /\ txAddress = NO_ADDRESS
  BY DEF RequestFrom, program, slave, Free
<1>3. Receive = buf["Wire"] /\ Receive' = Receive /\ (~registered["Wire"] => Receive = <<>>)
  BY <1>1, <1>2, NothingPending
<1>4. Owed' = Owed
  BY <1>2, <1>3 DEF Owed, Begun
<1>5. MemAfter(Owed)' = MemAfter(Owed) /\ PlaceAfter(Owed)' = PlaceAfter(Owed)
  BY <1>2, <1>4, OwedKept
<1>6. OneEvent'
  BY <1>1, <1>2 DEF OnTime, OneEvent
<1>7. InWrite' /\ InRead'
  BY <1>1, <1>2, <1>3 DEF InWrite, InRead
<1>8. Answers' <=> address = "slave" /\ registered["Wire"]
  BY <1>2 DEF Answers
<1>9. expect' = MemAfter(Owed)' /\ cursor = PlaceAfter(Owed)' /\ cursor \in Byte
  BY <1>2, <1>5 DEF OnTime, Places, WireTypes
<1>10. CASE Answers'
  <2>1. /\ wanted' = [i \in 1 .. count' |-> expect[(cursor + i - 1) % MemSize]]
        /\ cursor' = (cursor + count') % MemSize
    BY <1>8, <1>10 DEF RequestFrom
  <2>2. PICK c \in Byte : c = cursor
    BY <1>9
  <2>3. reply' = <<>> /\ Len(reply') = 0 /\ Len(got') = 0
    <3>1. Len(reply) = 0 /\ reply \in Seq(Byte)
      <4>1. Len(reply) + Asked = 0
        BY <1>2 DEF WireStill
      <4>2. Len(reply) \in Nat /\ Asked \in {0, 1}
        BY DEF WireTypes, Asked
      <4> QED
        BY <4>1, <4>2 DEF WireTypes
    <3> QED
      BY <1>2, <3>1
  <2>4. PlaceAfter(Owed)' = (c + Len(got') + Len(reply')) % MemSize
    <3>1. c + Len(got') + Len(reply') = c
      BY <2>3, ByteIs
    <3> QED
      BY <1>9, <2>2, <3>1, ByteIs
  <2>5. Reading(c)'
    BY <1>2, <2>1, <2>2, <2>3, <2>4 DEF Reading
  <2>6. Places'
    BY <1>2, <1>9, <1>10, <2>5 DEF Places
  <2>7. Results'
    BY <1>2, <1>10 DEF Results
  <2> QED
    BY <1>6, <1>7, <2>6, <2>7 DEF OnTime
<1>11. CASE ~Answers'
  <2>1. wanted' = <<>> /\ cursor' = cursor
    BY <1>8, <1>11 DEF RequestFrom
  <2>2. Places' /\ Results'
    BY <1>2, <1>9, <1>11, <2>1 DEF Places, Results
  <2> QED
    BY <1>6, <1>7, <2>2 DEF OnTime
<1> QED
  BY <1>10, <1>11

(* One byte more of a beginning *)
LEMMA OneMore ==
    ASSUME NEW S, NEW b \in Seq(S), NEW t \in Nat, t < Len(b), NEW n \in Nat
    PROVE  First(n, SubSeq(b, 1, Least(n, t)) \o <<b[t + 1]>>) = SubSeq(b, 1, Least(n, t + 1))
<1>1. PICK l : l = Least(n, t)
  OBVIOUS
<1>2. l \in Nat /\ l <= t /\ l <= n /\ l <= Len(b) /\ Len(b) \in Nat /\ (l = t \/ l = n)
  BY <1>1 DEF Least
<1>3. PICK u : u = SubSeq(b, 1, l)
  OBVIOUS
<1>4. u \in Seq(S) /\ Len(u) = l /\ \A k \in 1 .. l : u[k] = b[k]
  BY <1>2, <1>3
<1>5. PICK x \in S : x = b[t + 1]
  OBVIOUS
<1>6. PICK v : v = Append(u, x)
  OBVIOUS
<1>7. /\ v \in Seq(S) /\ Len(v) = l + 1 /\ (\A k \in 1 .. l : v[k] = b[k]) /\ v[l + 1] = x
      /\ v = u \o <<x>>
  BY <1>2, <1>4, <1>6
<1>8. PICK m : m = Least(n, Len(v))
  OBVIOUS
<1>9. PICK m2 : m2 = Least(n, t + 1)
  OBVIOUS
<1>10. m = m2 /\ m \in Nat /\ m <= l + 1 /\ m <= Len(b) /\ (m = l + 1 => l = t)
  BY <1>1, <1>2, <1>7, <1>8, <1>9 DEF Least
<1>11. \A k \in 1 .. m : v[k] = b[k]
  BY <1>2, <1>5, <1>7, <1>10
<1>12. SubSeq(v, 1, m) = SubSeq(b, 1, m)
  <2>1. SubSeq(v, 1, m) = [k \in 1 .. m |-> v[k]]
    BY <1>7, <1>10
  <2>2. SubSeq(b, 1, m) = [k \in 1 .. m |-> b[k]]
    BY <1>10
  <2> QED
    BY <1>11, <2>1, <2>2
<1>13. First(n, v) = SubSeq(v, 1, m)
  BY <1>8 DEF First
<1> QED
  BY <1>1, <1>3, <1>5, <1>7, <1>9, <1>10, <1>12, <1>13

LEMMA SendByteOnTime == ASSUME WireTypes, WireStill, OnTime, SendByte, late' = 0 PROVE OnTime'
<1>1. intr = {} /\ registered["Wire"] /\ intr' = {"rx_full"}
  BY RaiseAlone DEF SendByte, Answers
<1>2. UNCHANGED <<registered, buf, mem, mem_address, transfer_in_progress, expect, cursor, wanted,
                  txAddress, bus, to>> /\ taken' = taken + 1 /\ bus = "write" /\ Answers
  BY DEF SendByte, program, slave, history
<1>3. Begun /\ Begun'
  BY <1>1, <1>2 DEF Begun
<1>4. Answers'
  BY <1>2 DEF Answers
<1>5. Owed = <<>> /\ Owed' = <<>>
  BY <1>3 DEF Owed
<1>6. MemAfter(Owed)' = MemAfter(Owed) /\ PlaceAfter(Owed)' = PlaceAfter(Owed)
  BY <1>2, <1>5, OwedKept
<1>7. /\ taken + 1 <= Len(buf["Wire1"]) /\ taken \in Nat /\ taken < Len(buf["Wire1"])
      /\ buf["Wire1"] \in Seq(Byte) /\ Length["Wire"] \in Nat
  BY BufIs, LengthIs DEF SendByte, WireTypes
<1>8. Receive = buf["Wire"] /\ Receive = SubSeq(buf["Wire1"], 1, Least(Length["Wire"], taken))
  BY <1>1, <1>2, <1>3 DEF OnTime, InWrite, Receive
<1>9. Receive' = First(Length["Wire"], buf["Wire"] \o <<buf["Wire1"][taken + 1]>>)
  <2>1. fifo' = <<buf["Wire1"][taken + 1]>>
    BY <1>1 DEF SendByte, WireStill
  <2> QED
    BY <1>1, <1>2, <2>1 DEF Receive
<1>10. Receive' = SubSeq(buf["Wire1"], 1, Least(Length["Wire"], taken + 1))
  BY <1>7, <1>8, <1>9, OneMore
<1>11. OneEvent'
  BY <1>1, <1>2 DEF OnTime, OneEvent
<1>12. InWrite'
  BY <1>1, <1>2, <1>4, <1>7, <1>10 DEF InWrite
<1>13. InRead' /\ Places' /\ Results'
  BY <1>2, <1>6 DEF OnTime, InRead, Places, Results
<1> QED
  BY <1>11, <1>12, <1>13 DEF OnTime

(* The end of a transfer leaves what the slave has, and is alone *)
LEMMA EndsKeeps ==
    ASSUME WireTypes, OnTime, NEW complete \in BOOLEAN, Ends(complete), late' = 0,
           bus \in {"read", "write"}, buf'["Wire"] = buf["Wire"],
           UNCHANGED <<fifo, registered, transfer_in_progress, mem, mem_address>>
    PROVE  /\ OneEvent' /\ Receive' = Receive /\ Owed' = Receive /\ bus' \in {"idle", "held"}
           /\ InWrite' /\ InRead'
<1>1. \/ bus' = "held" /\ intr' = intr
      \/ bus' = "idle" /\ intr = {} /\ intr' = IF registered["Wire"] THEN {"stop"} ELSE {}
  BY EndsAlone
<1>2. bus' \in {"idle", "held"}
  BY <1>1
<1>3. SlaveKept
  BY <1>1 DEF SlaveKept
<1>4. Receive' = Receive
  BY <1>3, KeptIs
<1>5. Owed' = Receive
  BY <1>2, <1>4 DEF Owed, Begun
<1>6. OneEvent'
  <2>1. CASE bus' = "held" /\ intr' = intr
    BY <2>1 DEF OnTime, OneEvent
  <2>2. CASE bus' = "idle" /\ intr = {} /\ intr' = IF registered["Wire"] THEN {"stop"} ELSE {}
    BY <2>2 DEF OnTime, OneEvent
  <2> QED
    BY <1>1, <2>1, <2>2
<1>7. InWrite' /\ InRead'
  BY <1>2 DEF InWrite, InRead
<1> QED
  BY <1>2, <1>4, <1>5, <1>6, <1>7

LEMMA WriteEndsOnTime == ASSUME WireTypes, WireStill, OnTime, WriteEnds, late' = 0 PROVE OnTime'
<1>1. PICK n \in Int : /\ n \in Taken /\ Ends(n = Len(buf["Wire1"])) /\ EndReturns(n)
                       /\ txAddress' = NO_ADDRESS
                       /\ buf' = [buf EXCEPT !["Wire1"] = <<>>]
  BY TakenIs
<1>2. bus = "write" /\ buf'["Wire"] = buf["Wire"] /\ buf["Wire1"] # <<>> /\ txAddress # NO_ADDRESS
      /\ UNCHANGED <<fifo, registered, transfer_in_progress, mem, mem_address, to, wanted>>
  BY <1>1, OtherBuf DEF WriteEnds, WireStill, slave
<1>3. /\ OneEvent' /\ Receive' = Receive /\ Owed' = Receive /\ bus' \in {"idle", "held"}
      /\ InWrite' /\ InRead'
  BY <1>1, <1>2, EndsKeeps
<1>4. Results'
  BY <1>1, <1>2 DEF OnTime, Results
<1>5. CASE Answers
  <2>1. taken = Len(buf["Wire1"]) /\ taken # 0
    <3>1. n \in {Len(buf["Wire1"])} \cap {taken}
      BY <1>1, <1>5 DEF Taken
    <3>2. Len(buf["Wire1"]) # 0
      BY <1>2, BufIs
    <3> QED
      BY <3>1, <3>2
  <2>2. Begun
    BY <1>2, <2>1 DEF OnTime, InWrite, Begun
  <2>3. Receive = First(Length["Wire"], buf["Wire1"])
    BY <1>2, <1>5, <2>1, <2>2 DEF OnTime, InWrite, First
  <2>4. Receive # <<>>
    <3>1. buf["Wire1"] \in Seq(Byte) /\ Length["Wire"] \in Nat /\ Length["Wire"] > 0
      BY BufIs, LengthIs
    <3> QED
      BY <1>2, <2>3, <3>1, FirstIs
  <2>5. expect = mem
    BY <2>2 DEF OnTime, Places, Owed, MemAfter
  <2>6. expect' = Stored(mem, Receive) /\ cursor' = AddressAfter(Receive)
    BY <1>5, <2>3, <2>5 DEF WriteEnds
  <2>7. MemAfter(Owed)' = Stored(mem, Receive) /\ PlaceAfter(Owed)' = AddressAfter(Receive)
    BY <1>2, <1>3, <2>4 DEF MemAfter, PlaceAfter
  <2>8. Places'
    BY <1>3, <2>6, <2>7 DEF Places
  <2> QED
    BY <1>3, <1>4, <2>8 DEF OnTime
<1>6. CASE ~Answers
  <2>1. Owed = Receive
    BY <1>2, <1>6 DEF OnTime, InWrite, Owed
  <2>2. Owed' = Owed
    BY <1>3, <2>1
  <2>3. MemAfter(Owed)' = MemAfter(Owed) /\ PlaceAfter(Owed)' = PlaceAfter(Owed)
    BY <1>2, <2>2, OwedKept
  <2>4. expect' = expect /\ cursor' = cursor
    BY <1>6 DEF WriteEnds
  <2>5. Places'
    BY <1>2, <1>3, <2>3, <2>4 DEF OnTime, Places
  <2> QED
    BY <1>3, <1>4, <2>5 DEF OnTime
<1> QED
  BY <1>5, <1>6

LEMMA AskByteOnTime == ASSUME WireTypes, WireStill, OnTime, AskByte, late' = 0 PROVE OnTime'
<1>1. intr = {} /\ registered["Wire"] /\ intr' = {"rd_req"}
  BY RaiseAlone DEF AskByte, Answers
<1>2. UNCHANGED <<registered, buf, mem, mem_address, transfer_in_progress, expect, cursor, wanted,
                  txAddress, bus, to, got, reply, count>> /\ bus = "read" /\ Answers
  BY DEF AskByte, program, slave, history
<1>3. Answers'
  BY <1>2 DEF Answers
<1>4. Receive = buf["Wire"] /\ Receive' = Receive /\ Receive = <<>>
  BY <1>1, <1>2, NothingPending DEF OnTime, InRead
<1>5. Owed' = Owed
  BY <1>2, <1>4 DEF Owed, Begun
<1>6. MemAfter(Owed)' = MemAfter(Owed) /\ PlaceAfter(Owed)' = PlaceAfter(Owed)
  BY <1>2, <1>5, OwedKept
<1>7. PICK c \in Byte : Reading(c)
  BY <1>2 DEF OnTime, Places
<1>8. Reading(c)'
  BY <1>2, <1>6, <1>7 DEF Reading
<1>9. Places'
  BY <1>2, <1>3, <1>6, <1>8 DEF OnTime, Places
<1>10. OneEvent'
  BY <1>1, <1>2 DEF OnTime, OneEvent
<1>11. InWrite' /\ InRead'
  BY <1>2, <1>4 DEF InWrite, InRead
<1>12. Results'
  BY <1>2, <1>3 DEF OnTime, Results
<1> QED
  BY <1>9, <1>10, <1>11, <1>12 DEF OnTime

LEMMA GetByteOnTime == ASSUME WireTypes, WireStill, OnTime, GetByte PROVE OnTime'
<1>1. /\ reply = <<reply[1]>> /\ reply' = <<>>
      /\ got' = Append(got, reply[1]) /\ Len(got') = Len(got) + 1
      /\ Len(got) + 1 <= count /\ Len(got) \in Nat /\ Answers /\ got \in Seq(Byte)
  BY GetByteIs DEF WireTypes
<1>2. UNCHANGED <<registered, buf, mem, mem_address, transfer_in_progress, fifo, intr, expect, cursor, wanted,
                  txAddress, bus, to, count>> /\ bus = "read"
  BY DEF GetByte, program, slave, history
<1>3. Answers'
  BY <1>1, <1>2 DEF Answers
<1>4. Receive' = Receive
  BY <1>2 DEF Receive
<1>5. Owed' = Owed
  BY <1>2, <1>4 DEF Owed, Begun
<1>6. MemAfter(Owed)' = MemAfter(Owed) /\ PlaceAfter(Owed)' = PlaceAfter(Owed)
  BY <1>2, <1>5, OwedKept
<1>7. PICK c \in Byte : Reading(c)
  BY <1>1, <1>2 DEF OnTime, Places
<1>8. Len(got') + Len(reply') = Len(got) + Len(reply)
  <2>1. Len(reply) = 1 /\ Len(reply') = 0
    BY <1>1
  <2> QED
    BY <1>1, <2>1
<1>9. c + Len(got') + Len(reply') = c + Len(got) + Len(reply)
  <2>1. c \in Nat /\ Len(reply) \in Nat /\ Len(got) \in Nat /\ Len(reply') \in Nat /\ Len(got') \in Nat
    <3>1. c \in Nat
      BY ByteIs
    <3>2. Len(reply) \in Nat /\ Len(reply') \in Nat
      BY <1>1 DEF WireTypes
    <3>3. Len(got) \in Nat /\ Len(got') \in Nat
      BY <1>1
    <3> QED
      BY <3>1, <3>2, <3>3
  <2> QED
    BY <1>8, <2>1
<1>10. \A i \in 1 .. Len(got') : got'[i] = wanted'[i]
  <2>1. \A i \in 1 .. Len(got) : got[i] = wanted[i]
    BY <1>7 DEF Reading
  <2>2. reply[1] = wanted[Len(got) + 1]
    BY <1>7 DEF Reading, GetByte
  <2>3. PICK g : g = got
    OBVIOUS
  <2>4. PICK x : x = reply[1]
    OBVIOUS
  <2>5. x \in Byte
    BY <2>4, OneLong, GetByteIs DEF WireTypes
  <2>6. PICK h : h = Append(g, x)
    OBVIOUS
  <2>7. Len(h) = Len(g) + 1 /\ Len(g) \in Nat /\ (\A i \in 1 .. Len(g) : h[i] = g[i]) /\ h[Len(g) + 1] = x
    BY <1>1, <2>3, <2>5, <2>6
  <2>8. got' = h /\ wanted' = wanted
    BY <1>1, <1>2, <2>3, <2>4, <2>6
  <2>9. ASSUME NEW i \in 1 .. Len(h) PROVE h[i] = wanted[i]
    <3>1. i \in 1 .. Len(g) \/ i = Len(g) + 1
      BY <2>7
    <3>2. CASE i \in 1 .. Len(g)
      BY <2>1, <2>3, <2>7, <3>2
    <3>3. CASE i = Len(g) + 1
      BY <2>2, <2>3, <2>4, <2>7, <3>3
    <3> QED
      BY <3>1, <3>2, <3>3
  <2> QED
    BY <2>8, <2>9
<1>11. Reading(c)'
  BY <1>1, <1>2, <1>6, <1>7, <1>9, <1>10 DEF Reading
<1>12. Places'
  BY <1>2, <1>3, <1>6, <1>11 DEF OnTime, Places
<1>13. OneEvent'
  BY <1>2 DEF OnTime, OneEvent
<1>14. InWrite' /\ InRead'
  BY <1>2, <1>4 DEF OnTime, InWrite, InRead
<1>15. Results'
  BY <1>2, <1>3 DEF OnTime, Results
<1> QED
  BY <1>12, <1>13, <1>14, <1>15 DEF OnTime

LEMMA ReadEndsOnTime == ASSUME WireTypes, WireStill, OnTime, ReadEnds, late' = 0 PROVE OnTime'
<1>1. PICK bytes \in Seq(Byte) :
             /\ Ends(bytes # <<>>) /\ buf' = [buf EXCEPT !["Wire1"] = bytes]
             /\ Len(reply) + Asked = 0 /\ (Answers => bytes = got)
  BY ReadEndsIs
<1>2. bus = "read" /\ buf'["Wire"] = buf["Wire"] /\ buf'["Wire1"] = bytes /\ txAddress = NO_ADDRESS
      /\ UNCHANGED <<fifo, registered, transfer_in_progress, mem, mem_address, to, wanted, expect, cursor,
                     txAddress>>
  BY <1>1, OtherBuf DEF ReadEnds, WireStill, slave, history
<1>3. /\ OneEvent' /\ Receive' = Receive /\ Owed' = Receive /\ bus' \in {"idle", "held"}
      /\ InWrite' /\ InRead'
  <2>1. (bytes # <<>>) \in BOOLEAN
    OBVIOUS
  <2> QED
    BY <1>1, <1>2, <2>1, EndsKeeps
<1>4. Owed = Receive
  BY <1>2 DEF Owed, Begun
<1>5. MemAfter(Owed)' = MemAfter(Owed) /\ PlaceAfter(Owed)' = PlaceAfter(Owed)
  BY <1>2, <1>3, <1>4, OwedKept
<1>6. CASE Answers
  <2>1. PICK c \in Byte : Reading(c)
    BY <1>2, <1>6 DEF OnTime, Places
  <2>2. Len(got) = count /\ got \in Seq(Byte) /\ count \in Nat
    BY <1>6, LengthIs DEF ReadEnds, WireTypes
  <2>3. wanted = got
    <3>1. \A i \in 1 .. count : got[i] = wanted[i]
      BY <2>1, <2>2 DEF Reading
    <3>2. wanted = [i \in 1 .. count |-> expect[(c + i - 1) % MemSize]]
      BY <2>1 DEF Reading
    <3>3. got = [i \in 1 .. count |-> got[i]]
      BY <2>2
    <3>4. PICK w : w = wanted
      OBVIOUS
    <3>5. w = [i \in 1 .. count |-> w[i]]
      BY <3>2, <3>4
    <3> QED
      BY <3>1, <3>3, <3>4, <3>5
  <2>4. cursor = PlaceAfter(Owed)
    <3>1. Len(reply) = 0
      <4>1. Len(reply) \in Nat /\ Asked \in {0, 1}
        BY DEF WireTypes, Asked
      <4> QED
        BY <1>1, <4>1
    <3>2. c + Len(got) + Len(reply) = c + count
      BY <2>2, <3>1, ByteIs
    <3> QED
      BY <2>1, <3>2 DEF Reading
  <2>5. Places'
    BY <1>2, <1>3, <1>5, <2>4 DEF OnTime, Places
  <2>6. Results'
    BY <1>1, <1>2, <1>3, <1>6, <2>3 DEF Results
  <2> QED
    BY <1>3, <2>5, <2>6 DEF OnTime
<1>7. CASE ~Answers
  <2>1. Places'
    BY <1>2, <1>3, <1>5, <1>7 DEF OnTime, Places
  <2>2. Results'
    BY <1>2, <1>7 DEF OnTime, Results
  <2> QED
    BY <1>3, <2>1, <2>2 DEF OnTime
<1> QED
  BY <1>6, <1>7

(* A start or a stop hands over what the slave has *)
LEMMA BoundaryOnTime ==
    ASSUME WireTypes, WireStill, OnTime, Interrupt, intr = {"start"} \/ intr = {"stop"} PROVE OnTime'
<1>1. "rx_full" \notin intr /\ "rd_req" \notin intr /\ intr \cap {"start", "stop"} # {}
      /\ intr \cap {"rx_full", "rd_req"} = {} /\ intr' = {} /\ intr # {}
  BY DEF Interrupt
<1>2. UNCHANGED <<registered, to, bus, taken, count, got, reply, expect, cursor, wanted, txAddress>>
  BY <1>1 DEF Interrupt, history, Request
<1>3. buf'["Wire1"] = buf["Wire1"]
  <2>1. "Wire" # "Wire1" /\ buf \in [Wires -> Seq(Byte)]
    BY DEF WireTypes
  <2>2. buf' = [buf EXCEPT !["Wire"] = <<>>] \/ buf' = [buf EXCEPT !["Wire"] = Receive]
    BY DEF Interrupt
  <2> QED
    BY <2>1, <2>2, LengthIs
<1>4. Receive = buf["Wire"]
  BY <1>1 DEF Receive
<1>5. Receive # <<>> => Finishes
  BY <1>1, <1>4 DEF OnTime, OneEvent, Finishes, Began
<1>6. buf'["Wire"] = <<>> /\ mem' = MemAfter(Receive) /\ mem_address' = PlaceAfter(Receive)
  <2>1. CASE Receive # <<>>
    BY <1>5, <2>1, LengthIs DEF Interrupt, MemAfter, PlaceAfter, WireTypes
  <2>2. CASE Receive = <<>>
    BY <1>1, <2>2, LengthIs DEF Interrupt, MemAfter, PlaceAfter, Requested, WireTypes
  <2> QED
    BY <2>1, <2>2
<1>7. Receive' = <<>>
  BY <1>1, <1>6 DEF Receive
<1>8. Owed' = <<>>
  BY <1>7 DEF Owed
<1>9. Owed = Receive
  BY DEF OnTime, OneEvent, Owed, Begun
<1>10. MemAfter(Owed)' = MemAfter(Owed) /\ PlaceAfter(Owed)' = PlaceAfter(Owed)
  <2>1. MemAfter(Owed)' = mem' /\ PlaceAfter(Owed)' = mem_address'
    BY <1>8 DEF MemAfter, PlaceAfter
  <2> QED
    BY <1>6, <1>9, <2>1
<1>11. OneEvent'
  BY <1>1, <1>2, <1>6 DEF OneEvent
<1>12. Answers' = Answers
  BY <1>2 DEF Answers
<1>13. InWrite'
  <2> SUFFICES ASSUME bus' = "write" PROVE InWrite'
    BY DEF InWrite
  <2>1. taken' = 0
    BY <1>2 DEF OnTime, OneEvent, InWrite
  <2>2. SubSeq(buf'["Wire1"], 1, Least(Length["Wire"], 0)) = <<>> /\ 0 <= Len(buf'["Wire1"])
    <3>1. buf["Wire1"] \in Seq(Byte) /\ Length["Wire"] \in Nat
      BY BufIs, LengthIs
    <3>2. Least(Length["Wire"], 0) = 0
      BY <3>1 DEF Least
    <3> QED
      BY <1>3, <3>1, <3>2
  <2> QED
    BY <1>1, <1>7, <2>1, <2>2 DEF InWrite
<1>14. InRead'
  BY <1>7 DEF InRead
<1>15. Places'
  <2>1. CASE bus = "read" /\ Answers
    <3>1. PICK c \in Byte : Reading(c)
      BY <2>1 DEF OnTime, Places
    <3>2. Reading(c)'
      BY <1>2, <1>10, <3>1 DEF Reading
    <3> QED
      BY <1>2, <1>10, <1>12, <2>1, <3>2 DEF OnTime, Places
  <2>2. CASE ~(bus = "read" /\ Answers)
    BY <1>2, <1>10, <1>12, <2>2 DEF OnTime, Places
  <2> QED
    BY <2>1, <2>2
<1>16. Results'
  BY <1>2, <1>3, <1>12 DEF OnTime, Results
<1> QED
  BY <1>11, <1>13, <1>14, <1>15, <1>16 DEF OnTime

(* A byte goes to the buffer *)
LEMMA ReceivedOnTime ==
    ASSUME WireTypes, WireStill, OnTime, Interrupt, intr = {"rx_full"} PROVE OnTime'
<1>1. "rx_full" \in intr /\ "rd_req" \notin intr /\ intr \cap {"start", "stop"} = {}
      /\ intr \cap {"rx_full", "rd_req"} # {} /\ intr' = {} /\ intr # {} /\ "start" \notin intr
  BY DEF Interrupt
<1>2. UNCHANGED <<registered, to, bus, taken, count, got, reply, expect, cursor, wanted, txAddress>>
  BY <1>1 DEF Interrupt, history, Request
<1>3. transfer_in_progress' = TRUE /\ ~Finishes
  BY <1>1 DEF Interrupt, Finishes, Began
<1>4. buf'["Wire1"] = buf["Wire1"] /\ buf'["Wire"] = Receive /\ UNCHANGED <<mem, mem_address>>
  BY <1>1, <1>3, LengthIs DEF Interrupt, Requested, WireTypes
<1>5. Receive' = Receive
  <2>1. Receive' = buf'["Wire"]
    BY <1>1 DEF Receive
  <2> QED
    BY <1>4, <2>1
<1>6. Owed' = Owed
  BY <1>1, <1>2, <1>5 DEF Owed, Begun
<1>7. MemAfter(Owed)' = MemAfter(Owed) /\ PlaceAfter(Owed)' = PlaceAfter(Owed)
  BY <1>4, <1>6, OwedKept
<1>8. bus # "idle" /\ registered["Wire"]
  BY <1>1 DEF OnTime, OneEvent
<1>11. OneEvent'
  BY <1>1, <1>2, <1>3, <1>8 DEF OneEvent
<1>12. Answers' = Answers /\ Begun' = Begun
  BY <1>1, <1>2 DEF Answers, Begun
<1>13. InWrite'
  BY <1>1, <1>2, <1>4, <1>5, <1>12 DEF OnTime, InWrite
<1>14. InRead'
  BY <1>1, <1>2, <1>5 DEF OnTime, InRead
<1>15. Places'
  <2>1. CASE bus = "read" /\ Answers
    <3>1. PICK c \in Byte : Reading(c)
      BY <2>1 DEF OnTime, Places
    <3>2. Reading(c)'
      BY <1>2, <1>7, <3>1 DEF Reading
    <3> QED
      BY <1>2, <1>7, <1>12, <2>1, <3>2 DEF OnTime, Places
  <2>2. CASE ~(bus = "read" /\ Answers)
    BY <1>2, <1>7, <1>12, <2>2 DEF OnTime, Places
  <2> QED
    BY <2>1, <2>2
<1>16. Results'
  BY <1>2, <1>4, <1>12 DEF OnTime, Results
<1> QED
  BY <1>11, <1>13, <1>14, <1>15, <1>16 DEF OnTime

(* A request takes the next byte of the memory *)
LEMMA RequestOnTime ==
    ASSUME WireTypes, WireStill, OnTime, Interrupt, intr = {"rd_req"} PROVE OnTime'
<1>1. "rx_full" \notin intr /\ "rd_req" \in intr /\ intr \cap {"start", "stop"} = {}
      /\ intr' = {} /\ "start" \notin intr
  BY DEF Interrupt
<1>2. UNCHANGED <<registered, to, bus, taken, count, got, expect, cursor, wanted, txAddress>>
  BY DEF Interrupt, history
<1>3. Asked = 1 /\ Len(reply) = 0 /\ bus = "read" /\ Answers /\ Len(got) + 1 <= count /\ reply = <<>>
      /\ Len(got) \in Nat
  <2>1. Asked = 1
    BY <1>1 DEF Asked
  <2>2. reply \in Seq(Byte) /\ Len(reply) \in Nat /\ Len(got) \in Nat /\ count \in Nat
    BY LengthIs DEF WireTypes
  <2>3. Len(reply) = 0
    BY <2>1, <2>2 DEF WireStill
  <2>4. bus = "read" /\ Answers
    BY <2>1, <2>3 DEF WireStill
  <2>5. Len(got) + 1 <= count
    BY <2>1, <2>2, <2>3, <2>4 DEF WireStill
  <2> QED
    BY <2>1, <2>2, <2>3, <2>4, <2>5
<1>4. Receive = <<>> /\ ~Finishes
  BY <1>1, <1>3 DEF OnTime, InRead, Finishes
<1>5. buf'["Wire1"] = buf["Wire1"] /\ buf'["Wire"] = <<>> /\ UNCHANGED mem
      /\ mem_address' = (mem_address + 1) % MemSize
  BY <1>1, <1>4, LengthIs DEF Interrupt, Requested, WireTypes
<1>6. Receive' = <<>>
  BY <1>1, <1>5 DEF Receive
<1>7. Owed = <<>> /\ Owed' = <<>>
  BY <1>4, <1>6 DEF Owed
<1>8. MemAfter(Owed) = mem /\ MemAfter(Owed)' = mem' /\ PlaceAfter(Owed) = mem_address
      /\ PlaceAfter(Owed)' = mem_address'
  BY <1>7 DEF MemAfter, PlaceAfter
<1>9. PICK c \in Byte : Reading(c)
  BY <1>3 DEF OnTime, Places
<1>10. PICK x \in Byte : x = mem[mem_address]
  BY DEF WireTypes
<1>11. reply' = <<x>> /\ Len(reply') = 1 /\ reply'[1] = x
  BY <1>1, <1>3, <1>10 DEF Interrupt, Request
<1>12. c \in Nat /\ mem_address = (c + Len(got)) % MemSize /\ c + Len(got) \in Nat
       /\ c + Len(got') + Len(reply') = c + Len(got) + 1
  <2>1. c \in Nat
    BY ByteIs
  <2>2. c + Len(got) + Len(reply) = c + Len(got) /\ c + Len(got) \in Nat
    BY <1>3, <2>1
  <2> QED
    BY <1>2, <1>8, <1>9, <1>11, <2>1, <2>2 DEF Reading
<1>13. mem_address' = (c + Len(got') + Len(reply')) % MemSize
  <2>1. (((c + Len(got)) % MemSize) + 1) % MemSize = ((c + Len(got)) + 1) % MemSize
    BY <1>12, ByteIs
  <2> QED
    BY <1>5, <1>12, <2>1
<1>14. x = wanted[Len(got) + 1]
  <2>1. wanted = [i \in 1 .. count |-> expect[(c + i - 1) % MemSize]]
    BY <1>9 DEF Reading
  <2>2. Len(got) + 1 \in 1 .. count /\ c + (Len(got) + 1) - 1 = c + Len(got)
    <3>1. count \in Nat
      BY LengthIs DEF WireTypes
    <3> QED
      BY <1>3, <1>12, <3>1
  <2>3. wanted[Len(got) + 1] = expect[(c + Len(got)) % MemSize]
    BY <2>1, <2>2
  <2>4. expect = mem
    BY <1>8 DEF OnTime, Places
  <2> QED
    BY <1>10, <1>12, <2>3, <2>4
<1>15. Reading(c)'
  <2>1. wanted' = [i \in 1 .. count' |-> expect'[(c + i - 1) % MemSize]] /\ cursor' = (c + count') % MemSize
    BY <1>2, <1>9 DEF Reading
  <2>2. \A i \in 1 .. Len(got') : got'[i] = wanted'[i]
    BY <1>2, <1>9 DEF Reading
  <2>3. reply'[1] = wanted'[Len(got') + 1]
    BY <1>2, <1>11, <1>14
  <2> QED
    BY <1>8, <1>13, <2>1, <2>2, <2>3 DEF Reading
<1>16. Answers' = Answers
  BY <1>2 DEF Answers
<1>17. Places'
  BY <1>2, <1>3, <1>5, <1>8, <1>15, <1>16 DEF OnTime, Places
<1>18. OneEvent'
  BY <1>1, <1>2, <1>3, <1>5 DEF OneEvent
<1>19. InWrite' /\ InRead'
  BY <1>2, <1>3, <1>6 DEF InWrite, InRead
<1>20. Results'
  BY <1>2, <1>5, <1>16 DEF OnTime, Results
<1> QED
  BY <1>17, <1>18, <1>19, <1>20 DEF OnTime

WireInv == WireTypes /\ WireStill /\ (late = 0 => OnTime)

LEMMA WireInitInv == WireInit => WireInv
<1> SUFFICES ASSUME WireInit PROVE WireInv
  OBVIOUS
<1>1. WireTypes /\ WireStill
  BY InitTypes
<1>2. /\ bus = "idle" /\ intr = {} /\ buf["Wire"] = <<>> /\ expect = mem /\ mem_address = 0 /\ cursor = 0
      /\ wanted = <<>>
  BY LengthIs DEF WireInit
<1>3. Receive = <<>>
  BY <1>2 DEF Receive
<1>4. Owed = <<>>
  BY <1>3 DEF Owed
<1>5. OneEvent /\ InWrite /\ InRead /\ Places /\ Results
  BY <1>2, <1>4 DEF OneEvent, InWrite, InRead, Places, Results, MemAfter, PlaceAfter
<1> QED
  BY <1>1, <1>5 DEF WireInv, OnTime

LEMMA ProgramOnTime == ASSUME WireTypes, WireStill, OnTime, Program, late' = 0 PROVE OnTime'
  BY BeginMasterOnTime, BeginSlaveOnTime, BeginTransmissionOnTime, WriteOnTime, ReadOnTime,
     EndTransmissionOnTime, RequestFromOnTime DEF Program

LEMMA LateGrows == ASSUME WireTypes, [WireNext]_wire_vars, late' = 0 PROVE late = 0
<1>0. late \in Nat
  BY DEF WireTypes
<1>1. late' = late \/ late' = late + 1
  <2>1. CASE UNCHANGED wire_vars
    BY <2>1 DEF wire_vars
  <2>2. CASE Program
    BY <2>2 DEF Program, BeginMaster, BeginSlave, BeginTransmission, Write, Read, EndTransmission,
                RequestFrom, Raise
  <2>3. CASE SendByte \/ AskByte \/ GetByte \/ Interrupt
    BY <2>3 DEF SendByte, AskByte, GetByte, Interrupt, Raise
  <2>4. CASE WriteEnds \/ ReadEnds
    BY <2>4 DEF WriteEnds, ReadEnds, Ends, Raise
  <2> QED
    BY <2>1, <2>2, <2>3, <2>4 DEF WireNext
<1> QED
  BY <1>0, <1>1

LEMMA WireInvStep == WireInv /\ [WireNext]_wire_vars => WireInv'
<1> SUFFICES ASSUME WireInv, [WireNext]_wire_vars PROVE WireInv'
  OBVIOUS
<1>0. WireTypes /\ WireStill /\ (late = 0 => OnTime)
  BY DEF WireInv
<1>1. WireTypes' /\ WireStill'
  BY <1>0, WireTypesStep
<1>2. ASSUME late' = 0 PROVE OnTime'
  <2>1. late = 0 /\ OnTime
    BY <1>0, <1>2, LateGrows
  <2>2. CASE UNCHANGED wire_vars
    BY <2>1, <2>2 DEF wire_vars, program, slave, history, OnTime, OneEvent, InWrite, InRead, Places, Results,
                      Reading, Owed, Receive, MemAfter, PlaceAfter, Begun, Answers
  <2>3. CASE Program
    BY <1>0, <1>2, <2>1, <2>3, ProgramOnTime
  <2>4. CASE SendByte
    BY <1>0, <1>2, <2>1, <2>4, SendByteOnTime
  <2>5. CASE WriteEnds
    BY <1>0, <1>2, <2>1, <2>5, WriteEndsOnTime
  <2>6. CASE AskByte
    BY <1>0, <1>2, <2>1, <2>6, AskByteOnTime
  <2>7. CASE GetByte
    BY <1>0, <2>1, <2>7, GetByteOnTime
  <2>8. CASE ReadEnds
    BY <1>0, <1>2, <2>1, <2>8, ReadEndsOnTime
  <2>9. CASE Interrupt
    <3>1. intr = {"start"} \/ intr = {"stop"} \/ intr = {"rx_full"} \/ intr = {"rd_req"}
      BY <2>1, <2>9 DEF OnTime, OneEvent, Interrupt
    <3> QED
      BY <1>0, <2>1, <2>9, <3>1, BoundaryOnTime, ReceivedOnTime, RequestOnTime
  <2> QED
    BY <2>2, <2>3, <2>4, <2>5, <2>6, <2>7, <2>8, <2>9 DEF WireNext
<1> QED
  BY <1>1, <1>2 DEF WireInv

LEMMA WireInvAlways == WireSpec => []WireInv
  BY WireInitInv, WireInvStep, PTL DEF WireSpec

(* Every variable of the Wire library, of its slave and of the bus has its   *)
(* type: write() and handleEvent never store past the end of buf_, however   *)
(* late the interrupt is and whatever both lengths are (Wire.cpp:89-128,      *)
(* 149-159), and the slave's transmit FIFO never holds more than one byte.    *)
THEOREM WireTypeCorrect == WireSpec => []WireTypeOK
<1>1. WireInv => WireTypeOK
  <2> SUFFICES ASSUME WireInv PROVE WireTypeOK
    OBVIOUS
  <2>1. WireTypes /\ WireStill
    BY DEF WireInv
  <2>2. \A w \in Wires : buf[w] \in Seq(Byte) /\ Len(buf[w]) <= Length[w]
    BY <2>1 DEF WireTypes
  <2>3. Len(reply) <= 1
    <3>1. Len(reply) \in Nat /\ Asked \in {0, 1} /\ Len(reply) + Asked <= 1
      BY <2>1 DEF WireTypes, Asked, WireStill
    <3> QED
      BY <3>1
  <2> QED
    BY <2>1, <2>2, <2>3 DEF WireTypes, WireTypeOK
<1> QED
  BY <1>1, WireInvAlways, PTL

(* While interrupts are served in time, and once the bus is at rest, the      *)
(* memory holds what the transmissions wrote and its address is where the     *)
(* last transfer left it, after any number of transfers of every length, with *)
(* stops or repeated starts (i2c_slave.c:19-24, 69-91,                        *)
(* example_mem_wire.cpp:32-47).                                               *)
THEOREM WireWritten == WireSpec => []Written
<1>1. WireInv => Written
  <2> SUFFICES ASSUME WireInv, late = 0, bus = "idle", intr = {} PROVE mem = expect /\ mem_address = cursor
    BY DEF Written
  <2>1. OneEvent /\ Places
    BY DEF WireInv, OnTime
  <2>2. Receive = <<>>
    BY <2>1 DEF OneEvent, Receive
  <2>3. Owed = <<>>
    BY <2>2 DEF Owed
  <2> QED
    BY <2>1, <2>3 DEF Places, MemAfter, PlaceAfter
<1> QED
  BY <1>1, WireInvAlways, PTL

(* While interrupts are served in time, requestFrom gives what was written at *)
(* the place the slave is at, also when a read goes on from a write or from    *)
(* another read (Wire.cpp:75-87, 160-166).                                    *)
THEOREM WireReadsBack == WireSpec => []ReadsBack
<1>1. WireInv => ReadsBack
  BY DEF WireInv, OnTime, Results, ReadsBack
<1> QED
  BY <1>1, WireInvAlways, PTL

(* While interrupts are served in time, the assertion of I2C_SLAVE_REQUEST     *)
(* that nothing is left in the buffer holds (Wire.cpp:160-166).               *)
THEOREM WireRequestsFindNothing == WireSpec => []RequestsFindNothing
<1>1. WireInv => RequestsFindNothing
  <2> SUFFICES ASSUME WireInv, late = 0, "rd_req" \in intr PROVE Receive = <<>>
    BY DEF RequestsFindNothing
  <2>1. WireTypes /\ WireStill /\ OneEvent /\ InRead
    BY DEF WireInv, OnTime
  <2>2. Asked = 1 /\ Len(reply) \in Nat
    BY <2>1 DEF Asked, WireTypes
  <2>3. bus = "read"
    BY <2>1, <2>2 DEF WireStill
  <2>4. "start" \notin intr
    BY <2>1 DEF OneEvent
  <2> QED
    BY <2>1, <2>3, <2>4 DEF InRead
<1> QED
  BY <1>1, WireInvAlways, PTL
=============================================================================
