----------------------------- MODULE HostProofs -----------------------------
(***************************************************************************)
(* Proofs about the host programs, for every assignment of clients to      *)
(* ports, every packet the board may send, every length and every bound.   *)
(***************************************************************************)
EXTENDS Host, FiniteSetTheorems, TLAPS

-----------------------------------------------------------------------------
(* Sequences *)
LEMMA Joined ==
    ASSUME NEW S, NEW h \in Seq(S), NEW d \in Seq(S)
    PROVE  /\ h \o d \in Seq(S) /\ Len(h \o d) = Len(h) + Len(d)
           /\ \A x \in 1 .. Len(h) : (h \o d)[x] = h[x]
           /\ \A x \in 1 .. Len(d) : (h \o d)[x + Len(h)] = d[x]
<1>1. Len(h) \in Nat /\ Len(d) \in Nat
  OBVIOUS
<1>2. h \o d \in Seq(S) /\ Len(h \o d) = Len(h) + Len(d)
  OBVIOUS
<1>3. \A x \in 1 .. Len(h) + Len(d) : (h \o d)[x] = IF x <= Len(h) THEN h[x] ELSE d[x - Len(h)]
  OBVIOUS
<1>4. ASSUME NEW x \in 1 .. Len(d) PROVE (h \o d)[x + Len(h)] = d[x]
  <2>1. x + Len(h) \in 1 .. Len(h) + Len(d) /\ ~(x + Len(h) <= Len(h)) /\ x + Len(h) - Len(h) = x
    BY <1>1
  <2> QED
    BY <1>3, <2>1
<1>5. ASSUME NEW x \in 1 .. Len(h) PROVE (h \o d)[x] = h[x]
  <2>1. x \in 1 .. Len(h) + Len(d) /\ x <= Len(h)
    BY <1>1
  <2> QED
    BY <1>3, <2>1
<1> QED
  BY <1>2, <1>4, <1>5

LEMMA Part ==
    ASSUME NEW S, NEW s \in Seq(S), NEW a \in Nat \ {0}, NEW b \in Nat, b <= Len(s), a <= b + 1
    PROVE  /\ SubSeq(s, a, b) \in Seq(S) /\ Len(SubSeq(s, a, b)) = b + 1 - a
           /\ \A x \in 1 .. b + 1 - a : SubSeq(s, a, b)[x] = s[x + a - 1]
<1>1. Len(s) \in Nat
  OBVIOUS
<1>2. SubSeq(s, a, b) = [i \in 1 .. b - a + 1 |-> s[a + i - 1]]
  BY <1>1
<1>3. \A i \in 1 .. b - a + 1 : s[a + i - 1] \in S
  <2> SUFFICES ASSUME NEW i \in 1 .. b - a + 1 PROVE s[a + i - 1] \in S
    OBVIOUS
  <2>1. a + i - 1 \in 1 .. Len(s)
    BY <1>1
  <2> QED
    BY <2>1
<1>4. b - a + 1 \in Nat
  OBVIOUS
<1>5. SubSeq(s, a, b) \in [1 .. b - a + 1 -> S]
  BY <1>2, <1>3
<1>6. SubSeq(s, a, b) \in Seq(S) /\ Len(SubSeq(s, a, b)) = b - a + 1
  BY <1>4, <1>5
<1>7. ASSUME NEW x \in 1 .. b + 1 - a PROVE SubSeq(s, a, b)[x] = s[x + a - 1]
  <2>1. x \in 1 .. b - a + 1 /\ a + x - 1 = x + a - 1
    OBVIOUS
  <2> QED
    BY <1>2, <2>1
<1> QED
  BY <1>4, <1>6, <1>7

LEMMA FourBefore ==
    ASSUME NEW a \in Nat, NEW b \in Nat, NEW c \in Nat, NEW e \in Nat, NEW d \in Seq(Nat)
    PROVE  /\ <<a, b, c, e>> \o d \in Seq(Nat)
           /\ Len(<<a, b, c, e>> \o d) = 4 + Len(d)
           /\ (<<a, b, c, e>> \o d)[1] = a /\ (<<a, b, c, e>> \o d)[2] = b
           /\ (<<a, b, c, e>> \o d)[3] = c /\ (<<a, b, c, e>> \o d)[4] = e
           /\ \A x \in 1 .. Len(d) : (<<a, b, c, e>> \o d)[4 + x] = d[x]
<1>1. <<a, b, c, e>> \in Seq(Nat)
  OBVIOUS
<1>2. <<a, b, c, e>> \o d \in Seq(Nat)
  BY <1>1
<1>3. Len(<<a, b, c, e>> \o d) = 4 + Len(d)
  OBVIOUS
<1>4. (<<a, b, c, e>> \o d)[1] = a /\ (<<a, b, c, e>> \o d)[2] = b
  OBVIOUS
<1>5. (<<a, b, c, e>> \o d)[3] = c /\ (<<a, b, c, e>> \o d)[4] = e
  OBVIOUS
<1>6. ASSUME NEW x \in 1 .. Len(d) PROVE (<<a, b, c, e>> \o d)[4 + x] = d[x]
  OBVIOUS
<1> QED
  BY <1>2, <1>3, <1>4, <1>5, <1>6

-----------------------------------------------------------------------------
(* The stream: a packet as the bytes it is sent as *)
Cell == [v : Nat, of : Nat, first : BOOLEAN]
Code(q, n) == Bytes(n, Values(q[n]))

LEMMA PacketData ==
    ASSUME NEW packet \in Packet
    PROVE  /\ packet.kind \in Ports /\ packet.data \in Seq(Nat)
           /\ packet.kind = "raw" => Len(packet.data) = 1 /\ packet.data[1] # SO
<1>1. CASE \E b \in Texts : packet = [kind |-> "raw", data |-> <<b>>]
  <2>1. PICK b \in Texts : packet = [kind |-> "raw", data |-> <<b>>]
    BY <1>1
  <2>2. b \in Nat /\ b # SO
    BY HostAssumption
  <2> QED
    BY <2>1, <2>2 DEF Ports
<1>2. CASE \E d \in PwmData : packet = [kind |-> "pwm", data |-> d]
  BY <1>2, HostAssumption DEF Ports
<1>3. CASE \E d \in OledData : packet = [kind |-> "oled", data |-> d]
  BY <1>3, HostAssumption DEF Ports
<1> QED
  BY <1>1, <1>2, <1>3 DEF Packet

(* What a packet is sent as, field by field *)
OledShape(w, d) ==
    /\ Len(w) = 4 + Len(d) /\ w[2] = PICTURE /\ w[3] + 256 * w[4] = Len(d)
    /\ \A x \in 1 .. Len(d) : w[4 + x] = d[x]
PwmShape(w, d) ==
    /\ Len(w) = 3 + Len(d) /\ w[2] = DUTY /\ w[3] = Len(d)
    /\ \A x \in 1 .. Len(d) : w[3 + x] = d[x]

LEMMA PacketValues ==
    ASSUME NEW packet \in Packet, NEW w, w = Values(packet), NEW d, d = packet.data
    PROVE  /\ w \in Seq(Nat) /\ Len(w) >= 1
           /\ packet.kind = "raw" => Len(w) = 1 /\ w[1] # SO
           /\ packet.kind # "raw" => w[1] = SO
           /\ packet.kind = "pwm" => PwmShape(w, d)
           /\ packet.kind = "oled" => OledShape(w, d)
<1>1. packet.kind \in Ports /\ d \in Seq(Nat) /\ Len(d) \in Nat
  BY PacketData
<1>2. CASE packet.kind = "raw"
  BY <1>1, <1>2, PacketData DEF Values
<1>3. CASE packet.kind = "pwm"
  <2>1. w = <<SO, DUTY, Len(d)>> \o d
    BY <1>3 DEF Values
  <2>2. <<SO, DUTY, Len(d)>> \in Seq(Nat)
    BY <1>1 DEF SO, DUTY
  <2>3. w \in Seq(Nat) /\ Len(w) = 3 + Len(d)
    BY <1>1, <2>1, <2>2
  <2>4. w[2] = DUTY /\ w[3] = Len(d) /\ \A x \in 1 .. Len(d) : w[3 + x] = d[x]
    BY <1>1, <2>1, <2>2
  <2>5. w[1] = SO /\ Len(w) >= 1
    BY <1>1, <2>1, <2>2
  <2>6. PwmShape(w, d)
    BY <2>3, <2>4 DEF PwmShape
  <2> QED
    BY <1>3, <2>3, <2>5, <2>6
<1>4. CASE packet.kind = "oled"
  <2>1. w = <<SO, PICTURE, Len(d) % 256, Len(d) \div 256>> \o d
    BY <1>4 DEF Values
  <2>2. /\ Len(d) % 256 \in Nat /\ Len(d) \div 256 \in Nat
        /\ (Len(d) % 256) + 256 * (Len(d) \div 256) = Len(d)
    <3>1. \A m \in Nat : m % 256 \in Nat /\ m \div 256 \in Nat /\ (m % 256) + 256 * (m \div 256) = m
      BY SMT
    <3> QED
      BY <1>1, <3>1
  <2>3. SO \in Nat /\ PICTURE \in Nat
    BY DEF SO, PICTURE
  <2>4. PICK a \in Nat, b \in Nat, c \in Nat, e \in Nat :
            a = SO /\ b = PICTURE /\ c = Len(d) % 256 /\ e = Len(d) \div 256
    BY <2>2, <2>3
  <2>5. w = <<a, b, c, e>> \o d
    BY <2>1, <2>4
  <2>6. w \in Seq(Nat) /\ Len(w) = 4 + Len(d) /\ \A x \in 1 .. Len(d) : w[4 + x] = d[x]
    <3>1. w \in Seq(Nat)
      BY <1>1, <2>5, FourBefore
    <3>2. Len(w) = 4 + Len(d)
      BY <1>1, <2>5, FourBefore
    <3>3. ASSUME NEW x \in 1 .. Len(d) PROVE w[4 + x] = d[x]
      BY <1>1, <2>5, FourBefore, SMTT(30)
    <3> QED
      BY <3>1, <3>2, <3>3
  <2>7. w[1] = a /\ w[2] = b /\ w[3] = c /\ w[4] = e
    BY <1>1, <2>5, FourBefore
  <2>8. w[3] + 256 * w[4] = Len(d)
    <3>1. c + 256 * e = Len(d)
      BY <2>2, <2>4, Zenon
    <3> QED
      BY <2>7, <3>1, Zenon
  <2>9. Len(w) >= 1
    BY <1>1, <2>6
  <2>10. OledShape(w, d)
    BY <2>4, <2>6, <2>7, <2>8 DEF OledShape
  <2>11. w[1] = SO
    BY <2>4, <2>7
  <2> QED
    BY <1>4, <2>6, <2>9, <2>10, <2>11
<1> QED
  BY <1>1, <1>2, <1>3, <1>4 DEF Ports

LEMMA CodeIs ==
    ASSUME NEW q \in Seq(Packet), NEW n \in 1 .. Len(q)
    PROVE  /\ q[n] \in Packet
           /\ Code(q, n) \in Seq(Cell)
           /\ Len(Code(q, n)) = Len(Values(q[n])) /\ Len(Code(q, n)) \in Nat /\ Len(Code(q, n)) >= 1
           /\ \A x \in 1 .. Len(Code(q, n)) :
                /\ Code(q, n)[x] \in Cell
                /\ Code(q, n)[x].v = Values(q[n])[x] /\ Code(q, n)[x].of = n
                /\ Code(q, n)[x].first <=> x = 1
<1> DEFINE w == Values(q[n])
<1>1. q[n] \in Packet
  OBVIOUS
<1>2. w \in Seq(Nat) /\ Len(w) >= 1
  BY <1>1, PacketValues
<1>3. Code(q, n) = [k \in 1 .. Len(w) |-> [v |-> w[k], of |-> n, first |-> k = 1]]
  BY DEF Code, Bytes
<1>4. \A k \in 1 .. Len(w) : [v |-> w[k], of |-> n, first |-> k = 1] \in Cell
  <2> SUFFICES ASSUME NEW k \in 1 .. Len(w) PROVE [v |-> w[k], of |-> n, first |-> k = 1] \in Cell
    OBVIOUS
  <2>1. w[k] \in Nat /\ n \in Nat /\ (k = 1) \in BOOLEAN
    BY <1>2
  <2> QED
    BY <2>1 DEF Cell
<1>5. Code(q, n) \in Seq(Cell) /\ Len(Code(q, n)) = Len(w)
  <2>1. Code(q, n) \in [1 .. Len(w) -> Cell]
    BY <1>3, <1>4
  <2>2. Len(w) \in Nat
    BY <1>2
  <2> QED
    BY <2>1, <2>2
<1>6. ASSUME NEW x \in 1 .. Len(Code(q, n))
      PROVE  /\ Code(q, n)[x] \in Cell
             /\ Code(q, n)[x].v = w[x] /\ Code(q, n)[x].of = n
             /\ Code(q, n)[x].first <=> x = 1
  <2>1. x \in 1 .. Len(w)
    BY <1>5
  <2>2. Code(q, n)[x] = [v |-> w[x], of |-> n, first |-> x = 1]
    BY <1>3, <2>1
  <2>3. Code(q, n)[x] \in Cell
    BY <1>4, <2>1, <2>2
  <2>4. Code(q, n)[x].v = w[x] /\ Code(q, n)[x].of = n
    BY <2>2
  <2>5. Code(q, n)[x].first = (x = 1)
    BY <2>2
  <2> QED
    BY <2>3, <2>4, <2>5
<1> QED
  BY <1>1, <1>2, <1>5, <1>6

(* From its k-th byte on, s is packet n from its j-th on, and then another  *)
(* packet's start                                                           *)
Goes(q, s, k, n, j) ==
    LET w == Code(q, n)
        end == k + Len(w) - j
    IN  /\ n \in 1 .. Len(q) /\ j \in 1 .. Len(w) + 1 /\ end <= Len(s)
        /\ \A x \in j .. Len(w) : s[k + x - j] = w[x]
        /\ end < Len(s) => s[end + 1].first

(* Where a packet starts in s, all of it follows *)
Whole(q, s) == \A k \in 1 .. Len(s) : s[k].first => Goes(q, s, k, s[k].of, 1)

(* Each byte of s is one of a packet's *)
Genuine(q, s) ==
    \A k \in 1 .. Len(s) : \E n \in 1 .. Len(q) : \E x \in 1 .. Len(Code(q, n)) : s[k] = Code(q, n)[x]

(* What is left when the first d bytes were taken *)
Without(s, d) == SubSeq(s, d + 1, Len(s))

LEMMA WithoutIs ==
    ASSUME NEW s \in Seq(Cell), NEW d \in 0 .. Len(s)
    PROVE  /\ Without(s, d) \in Seq(Cell) /\ Len(Without(s, d)) = Len(s) - d
           /\ \A x \in 1 .. Len(s) - d : Without(s, d)[x] = s[x + d]
<1>1. Len(s) \in Nat /\ d \in Nat /\ d <= Len(s)
  OBVIOUS
<1>2. d + 1 \in Nat \ {0} /\ Len(s) <= Len(s) /\ d + 1 <= Len(s) + 1
  BY <1>1
<1>3. /\ SubSeq(s, d + 1, Len(s)) \in Seq(Cell)
      /\ Len(SubSeq(s, d + 1, Len(s))) = Len(s) + 1 - (d + 1)
      /\ \A x \in 1 .. Len(s) + 1 - (d + 1) : SubSeq(s, d + 1, Len(s))[x] = s[x + (d + 1) - 1]
  BY <1>1, <1>2, Part
<1>4. Len(s) + 1 - (d + 1) = Len(s) - d
  BY <1>1
<1>5. ASSUME NEW x \in 1 .. Len(s) - d PROVE Without(s, d)[x] = s[x + d]
  <2>1. x + (d + 1) - 1 = x + d
    BY <1>1
  <2> QED
    BY <1>3, <1>4, <2>1 DEF Without
<1> QED
  BY <1>3, <1>4, <1>5 DEF Without

LEMMA GoesWithout ==
    ASSUME NEW q \in Seq(Packet), NEW s \in Seq(Cell), NEW d \in 0 .. Len(s),
           NEW k \in Nat, k > d, NEW n, NEW j, Goes(q, s, k, n, j)
    PROVE  Goes(q, Without(s, d), k - d, n, j)
<1> DEFINE w == Code(q, n)
           r == Without(s, d)
<1>1. /\ n \in 1 .. Len(q) /\ j \in 1 .. Len(w) + 1 /\ k + Len(w) - j <= Len(s)
      /\ \A x \in j .. Len(w) : s[k + x - j] = w[x]
      /\ k + Len(w) - j < Len(s) => s[k + Len(w) - j + 1].first
  BY DEF Goes
<1>2. Len(w) \in Nat /\ j \in Nat /\ 1 <= j /\ j <= Len(w) + 1 /\ Len(s) \in Nat /\ d \in Nat /\ d <= Len(s)
  BY <1>1, CodeIs
<1>3. Len(r) = Len(s) - d /\ \A x \in 1 .. Len(s) - d : r[x] = s[x + d]
  BY WithoutIs
<1> HIDE DEF w, r
<1>4. k - d + Len(w) - j <= Len(r)
  BY <1>1, <1>2, <1>3
<1>5. ASSUME NEW x \in j .. Len(w) PROVE r[k - d + x - j] = w[x]
  <2>1. k - d + x - j \in 1 .. Len(s) - d /\ k - d + x - j + d = k + x - j
    BY <1>1, <1>2, SMTT(30)
  <2> QED
    BY <1>1, <1>3, <2>1
<1>6. ASSUME k - d + Len(w) - j < Len(r) PROVE r[k - d + Len(w) - j + 1].first
  <2>1. k - d + Len(w) - j + 1 \in 1 .. Len(s) - d /\ k - d + Len(w) - j + 1 + d = k + Len(w) - j + 1
    BY <1>2, <1>3, <1>6
  <2>2. k + Len(w) - j < Len(s)
    BY <1>2, <1>3, <1>6
  <2>3. r[k - d + Len(w) - j + 1] = s[(k - d + Len(w) - j + 1) + d]
    BY <1>3, <2>1
  <2> QED
    BY <1>1, <2>1, <2>2, <2>3
<1> QED
  BY <1>1, <1>4, <1>5, <1>6 DEF Goes, w, r

LEMMA GoesOn ==
    ASSUME NEW q \in Seq(Packet), NEW s \in Seq(Cell), NEW n, NEW j,
           Goes(q, s, 1, n, j), NEW d \in Nat, d <= Len(Code(q, n)) + 1 - j
    PROVE  d \in 0 .. Len(s) /\ Goes(q, Without(s, d), 1, n, j + d)
<1> DEFINE w == Code(q, n)
           r == Without(s, d)
<1>1. /\ n \in 1 .. Len(q) /\ j \in 1 .. Len(w) + 1 /\ 1 + Len(w) - j <= Len(s)
      /\ \A x \in j .. Len(w) : s[1 + x - j] = w[x]
      /\ 1 + Len(w) - j < Len(s) => s[1 + Len(w) - j + 1].first
  BY DEF Goes
<1>2. /\ Len(w) \in Nat /\ j \in Nat /\ 1 <= j /\ j <= Len(w) + 1 /\ Len(s) \in Nat
      /\ d <= Len(w) + 1 - j
  BY <1>1, CodeIs
<1>3. d \in 0 .. Len(s)
  <2> HIDE DEF w, r
  <2> QED
    BY <1>1, <1>2
<1>4. Len(r) = Len(s) - d /\ \A x \in 1 .. Len(s) - d : r[x] = s[x + d]
  BY <1>3, WithoutIs
<1> HIDE DEF w, r
<1>5. j + d \in 1 .. Len(w) + 1 /\ 1 + Len(w) - (j + d) <= Len(r)
  BY <1>1, <1>2, <1>3, <1>4, SMTT(30)
<1>6. ASSUME NEW x \in j + d .. Len(w) PROVE r[1 + x - (j + d)] = w[x]
  <2>1. /\ x \in j .. Len(w) /\ 1 + x - (j + d) \in 1 .. Len(s) - d
        /\ 1 + x - (j + d) + d = 1 + x - j
    BY <1>1, <1>2, SMTT(30)
  <2> QED
    BY <1>1, <1>4, <2>1
<1>7. ASSUME 1 + Len(w) - (j + d) < Len(r) PROVE r[1 + Len(w) - (j + d) + 1].first
  <2>1. /\ 1 + Len(w) - (j + d) + 1 \in 1 .. Len(s) - d
        /\ 1 + Len(w) - (j + d) + 1 + d = 1 + Len(w) - j + 1
        /\ 1 + Len(w) - j < Len(s)
    BY <1>2, <1>3, <1>4, <1>7
  <2>2. r[1 + Len(w) - (j + d) + 1] = s[1 + Len(w) - j + 1]
    BY <1>4, <2>1
  <2> QED
    BY <1>1, <2>1, <2>2
<1>8. Goes(q, r, 1, n, j + d)
  BY <1>1, <1>5, <1>6, <1>7 DEF Goes, w
<1> QED
  BY <1>3, <1>8 DEF r

(* A packet is sent *)
LEMMA CodeStays ==
    ASSUME NEW q \in Seq(Packet), NEW packet \in Packet, NEW n \in 1 .. Len(q)
    PROVE  Code(Append(q, packet), n) = Code(q, n)
<1>1. Append(q, packet)[n] = q[n]
  OBVIOUS
<1> QED
  BY <1>1 DEF Code

Sends(q, s, packet, p, t) == p = Append(q, packet) /\ t = s \o Code(p, Len(q) + 1)

LEMMA SentOn ==
    ASSUME NEW q \in Seq(Packet), NEW s \in Seq(Cell), NEW packet \in Packet,
           NEW p, NEW t, Sends(q, s, packet, p, t)
    PROVE  /\ p \in Seq(Packet) /\ Len(p) = Len(q) + 1 /\ Len(q) \in Nat
           /\ Len(q) + 1 \in 1 .. Len(p)
           /\ \A n \in 1 .. Len(q) : n \in 1 .. Len(p) /\ p[n] = q[n] /\ Code(p, n) = Code(q, n)
           /\ t \in Seq(Cell) /\ Len(t) = Len(s) + Len(Code(p, Len(q) + 1))
           /\ \A x \in 1 .. Len(s) : t[x] = s[x]
           /\ \A x \in 1 .. Len(Code(p, Len(q) + 1)) : t[x + Len(s)] = Code(p, Len(q) + 1)[x]
<1>0. p = Append(q, packet) /\ t = s \o Code(p, Len(q) + 1)
  BY DEF Sends
<1>1. p \in Seq(Packet) /\ Len(p) = Len(q) + 1 /\ Len(q) \in Nat
  BY <1>0
<1>2. Len(q) + 1 \in 1 .. Len(p) /\ \A n \in 1 .. Len(q) : n \in 1 .. Len(p) /\ p[n] = q[n]
  BY <1>0, <1>1
<1>3. \A n \in 1 .. Len(q) : Code(p, n) = Code(q, n)
  BY <1>0, CodeStays
<1>4. Code(p, Len(q) + 1) \in Seq(Cell)
  BY <1>1, <1>2, CodeIs
<1>5. /\ t \in Seq(Cell) /\ Len(t) = Len(s) + Len(Code(p, Len(q) + 1))
      /\ \A x \in 1 .. Len(s) : t[x] = s[x]
  BY <1>0, <1>4, Joined
<1>6. \A x \in 1 .. Len(Code(p, Len(q) + 1)) : t[x + Len(s)] = Code(p, Len(q) + 1)[x]
  BY <1>0, <1>4, Joined
<1> QED
  BY <1>1, <1>2, <1>3, <1>5, <1>6

LEMMA GoesJoined ==
    ASSUME NEW q \in Seq(Packet), NEW s \in Seq(Cell), NEW packet \in Packet,
           NEW p, NEW t, Sends(q, s, packet, p, t),
           NEW k \in Nat \ {0}, NEW n, NEW j, Goes(q, s, k, n, j)
    PROVE  Goes(p, t, k, n, j)
<1> DEFINE w == Code(q, n)
           m == Len(q) + 1
<1>1. /\ n \in 1 .. Len(q) /\ j \in 1 .. Len(w) + 1 /\ k + Len(w) - j <= Len(s)
      /\ \A x \in j .. Len(w) : s[k + x - j] = w[x]
      /\ k + Len(w) - j < Len(s) => s[k + Len(w) - j + 1].first
  BY DEF Goes
<1>2. /\ Len(w) \in Nat /\ j \in Nat /\ 1 <= j /\ j <= Len(w) + 1 /\ Len(s) \in Nat
  BY <1>1, CodeIs
<1>3. n \in 1 .. Len(p) /\ Code(p, n) = w /\ m \in 1 .. Len(p) /\ p \in Seq(Packet)
  <2>1. n \in 1 .. Len(p) /\ Code(p, n) = w
    BY <1>1, SentOn
  <2>2. m \in 1 .. Len(p)
    BY SentOn
  <2>3. p \in Seq(Packet)
    BY SentOn
  <2> QED
    BY <2>1, <2>2, <2>3
<1>4. /\ Len(t) = Len(s) + Len(Code(p, m))
      /\ \A x \in 1 .. Len(s) : t[x] = s[x]
      /\ \A x \in 1 .. Len(Code(p, m)) : t[x + Len(s)] = Code(p, m)[x]
  BY SentOn
<1>5. Len(Code(p, m)) \in Nat /\ Len(Code(p, m)) >= 1 /\ Code(p, m)[1].first
  <2>1. Len(Code(p, m)) \in Nat /\ Len(Code(p, m)) >= 1
    BY <1>3, CodeIs
  <2>2. 1 \in 1 .. Len(Code(p, m))
    BY <2>1
  <2>3. Code(p, m)[1].first <=> 1 = 1
    BY <1>3, <2>2, CodeIs
  <2> QED
    BY <2>1, <2>3
<1> HIDE DEF w, m
<1>6. ASSUME NEW x \in j .. Len(w) PROVE t[k + x - j] = w[x]
  <2>1. k + x - j \in 1 .. Len(s)
    BY <1>1, <1>2
  <2> QED
    BY <1>1, <1>4, <2>1
<1>7. ASSUME k + Len(w) - j < Len(t) PROVE t[k + Len(w) - j + 1].first
  <2>1. CASE k + Len(w) - j < Len(s)
    <3>1. k + Len(w) - j + 1 \in 1 .. Len(s)
      BY <1>2, <2>1
    <3> QED
      BY <1>1, <1>4, <2>1, <3>1
  <2>2. CASE k + Len(w) - j = Len(s)
    <3>1. 1 \in 1 .. Len(Code(p, m)) /\ k + Len(w) - j + 1 = 1 + Len(s)
      BY <1>2, <1>5, <2>2
    <3>2. t[1 + Len(s)] = Code(p, m)[1]
      BY <1>4, <3>1
    <3> QED
      BY <1>5, <3>1, <3>2
  <2> QED
    BY <1>1, <1>2, <2>1, <2>2
<1>8. k + Len(w) - j <= Len(t)
  BY <1>1, <1>2, <1>4, <1>5
<1> QED
  BY <1>1, <1>3, <1>6, <1>7, <1>8 DEF Goes, w

LEMMA WholeWithout ==
    ASSUME NEW q \in Seq(Packet), NEW s \in Seq(Cell), NEW d \in 0 .. Len(s), Whole(q, s)
    PROVE  Whole(q, Without(s, d))
<1> DEFINE r == Without(s, d)
<1>1. r \in Seq(Cell) /\ Len(r) = Len(s) - d /\ \A x \in 1 .. Len(s) - d : r[x] = s[x + d]
  BY WithoutIs
<1>2. ASSUME NEW k \in 1 .. Len(r), r[k].first
      PROVE  Goes(q, r, k, r[k].of, 1)
  <2>1. k + d \in 1 .. Len(s) /\ k + d \in Nat /\ k + d > d /\ k + d - d = k /\ k \in 1 .. Len(s) - d
    BY <1>1
  <2>2. r[k] = s[k + d]
    BY <1>1, <2>1
  <2>3. Goes(q, s, k + d, s[k + d].of, 1)
    BY <1>2, <2>1, <2>2 DEF Whole
  <2>4. Goes(q, r, k + d - d, s[k + d].of, 1)
    BY <2>1, <2>3, GoesWithout
  <2> QED
    BY <2>1, <2>2, <2>4
<1> QED
  BY <1>2 DEF Whole

LEMMA WholeJoined ==
    ASSUME NEW q \in Seq(Packet), NEW s \in Seq(Cell), NEW packet \in Packet,
           NEW p, NEW t, Sends(q, s, packet, p, t), Whole(q, s)
    PROVE  Whole(p, t)
<1> DEFINE m == Len(q) + 1
           w == Code(p, m)
<1>1. /\ t \in Seq(Cell) /\ Len(t) = Len(s) + Len(w) /\ Len(s) \in Nat
      /\ \A x \in 1 .. Len(s) : t[x] = s[x]
      /\ \A x \in 1 .. Len(w) : t[x + Len(s)] = w[x]
  BY SentOn
<1>2. m \in 1 .. Len(p) /\ p \in Seq(Packet)
  <2>1. m \in 1 .. Len(p)
    BY SentOn
  <2>2. p \in Seq(Packet)
    BY SentOn
  <2> QED
    BY <2>1, <2>2
<1>3. /\ Len(w) \in Nat /\ Len(w) >= 1
      /\ \A x \in 1 .. Len(w) : w[x].of = m /\ (w[x].first <=> x = 1)
  BY <1>2, CodeIs
<1> HIDE DEF m, w
<1>4. ASSUME NEW k \in 1 .. Len(t), t[k].first
      PROVE  Goes(p, t, k, t[k].of, 1)
  <2>1. CASE k <= Len(s)
    <3>1. k \in 1 .. Len(s) /\ k \in Nat \ {0} /\ t[k] = s[k]
      BY <1>1, <2>1
    <3>2. Goes(q, s, k, s[k].of, 1)
      BY <1>4, <3>1 DEF Whole
    <3> QED
      BY <3>1, <3>2, GoesJoined
  <2>2. CASE k > Len(s)
    <3>1. k - Len(s) \in 1 .. Len(w) /\ k - Len(s) + Len(s) = k
      BY <1>1, <1>3, <2>2
    <3>2. t[k] = w[k - Len(s)]
      BY <1>1, <3>1
    <3>4. t[k].of = m /\ k - Len(s) = 1
      BY <1>3, <1>4, <3>1, <3>2
    <3>5. k = Len(s) + 1
      BY <1>1, <3>4
    <3>6. 1 \in 1 .. Len(w) + 1 /\ k + Len(w) - 1 = Len(t)
      BY <1>1, <1>3, <3>5
    <3>7. ASSUME NEW x \in 1 .. Len(w) PROVE t[k + x - 1] = w[x]
      <4>1. k + x - 1 = x + Len(s)
        BY <1>1, <3>5
      <4> QED
        BY <1>1, <4>1
    <3>8. Len(t) <= Len(t) /\ ~(Len(t) < Len(t))
      BY <1>1, <1>3
    <3>9. Goes(p, t, k, m, 1)
      BY <1>2, <3>6, <3>7, <3>8 DEF Goes, w
    <3> QED
      BY <3>4, <3>9
  <2> QED
    BY <1>1, <2>1, <2>2
<1> QED
  BY <1>4 DEF Whole

LEMMA GenuineWithout ==
    ASSUME NEW q \in Seq(Packet), NEW s \in Seq(Cell), NEW d \in 0 .. Len(s), Genuine(q, s)
    PROVE  Genuine(q, Without(s, d))
<1>1. /\ Len(Without(s, d)) = Len(s) - d
      /\ \A x \in 1 .. Len(s) - d : Without(s, d)[x] = s[x + d]
  BY WithoutIs
<1>2. ASSUME NEW k \in 1 .. Len(Without(s, d))
      PROVE  \E n \in 1 .. Len(q) : \E x \in 1 .. Len(Code(q, n)) : Without(s, d)[k] = Code(q, n)[x]
  <2>1. k + d \in 1 .. Len(s) /\ Without(s, d)[k] = s[k + d]
    BY <1>1
  <2> QED
    BY <2>1 DEF Genuine
<1> QED
  BY <1>2 DEF Genuine

LEMMA GenuineJoined ==
    ASSUME NEW q \in Seq(Packet), NEW s \in Seq(Cell), NEW packet \in Packet,
           NEW p, NEW t, Sends(q, s, packet, p, t), Genuine(q, s)
    PROVE  Genuine(p, t)
<1> DEFINE m == Len(q) + 1
           w == Code(p, m)
<1>1. /\ Len(t) = Len(s) + Len(w) /\ Len(s) \in Nat
      /\ \A x \in 1 .. Len(s) : t[x] = s[x]
      /\ \A x \in 1 .. Len(w) : t[x + Len(s)] = w[x]
  BY SentOn
<1>2. /\ m \in 1 .. Len(p) /\ p \in Seq(Packet)
      /\ \A n \in 1 .. Len(q) : n \in 1 .. Len(p) /\ Code(p, n) = Code(q, n)
  <2>1. m \in 1 .. Len(p)
    BY SentOn
  <2>2. p \in Seq(Packet)
    BY SentOn
  <2>3. ASSUME NEW n \in 1 .. Len(q) PROVE n \in 1 .. Len(p) /\ Code(p, n) = Code(q, n)
    BY SentOn
  <2> QED
    BY <2>1, <2>2, <2>3
<1>3. Len(w) \in Nat
  BY <1>2, CodeIs
<1> HIDE DEF m, w
<1>4. ASSUME NEW k \in 1 .. Len(t)
      PROVE  \E n \in 1 .. Len(p) : \E x \in 1 .. Len(Code(p, n)) : t[k] = Code(p, n)[x]
  <2>1. CASE k <= Len(s)
    <3>1. k \in 1 .. Len(s) /\ t[k] = s[k]
      BY <1>1, <2>1
    <3>2. PICK n \in 1 .. Len(q) : \E x \in 1 .. Len(Code(q, n)) : s[k] = Code(q, n)[x]
      BY <3>1 DEF Genuine
    <3> QED
      BY <1>2, <3>1, <3>2
  <2>2. CASE k > Len(s)
    <3>1. k - Len(s) \in 1 .. Len(w) /\ k - Len(s) + Len(s) = k
      BY <1>1, <1>3, <2>2
    <3>2. t[k] = w[k - Len(s)]
      BY <1>1, <3>1
    <3> QED
      BY <1>2, <3>1, <3>2 DEF w
  <2> QED
    BY <1>1, <2>1, <2>2
<1> QED
  BY <1>4 DEF Genuine

(* A read takes the first d bytes of what has been sent and not read: as    *)
(* many as it asks for, or all that have come                               *)
LEMMA SameElements ==
    ASSUME NEW S, NEW s \in Seq(S), NEW t \in Seq(S), Len(s) = Len(t),
           \A x \in 1 .. Len(s) : s[x] = t[x]
    PROVE  s = t
  OBVIOUS

LEMMA NothingLeft ==
    ASSUME NEW t \in Seq(Cell), NEW n \in Nat, n >= Len(t)
    PROVE  SubSeq(t, n + 1, Len(t)) = <<>>
  OBVIOUS

(* r read ahead, c coming, k bytes of it come now, t in stock, n asked for  *)
Stock(r, c, k, t) == t = r \o SubSeq(c, 1, k)

LEMMA StockIs ==
    ASSUME NEW r \in Seq(Cell), NEW c \in Seq(Cell), NEW k \in 0 .. Len(c), NEW t, Stock(r, c, k, t)
    PROVE  /\ t \in Seq(Cell) /\ Len(t) = Len(r) + k /\ r \o c \in Seq(Cell)
           /\ Len(r \o c) = Len(r) + Len(c) /\ Len(r) \in Nat /\ Len(c) \in Nat
           /\ \A x \in 1 .. Len(t) : t[x] = (r \o c)[x]
<1>1. Len(c) \in Nat /\ Len(r) \in Nat /\ k \in Nat /\ k <= Len(c)
  OBVIOUS
<1>2. /\ SubSeq(c, 1, k) \in Seq(Cell) /\ Len(SubSeq(c, 1, k)) = k + 1 - 1
      /\ \A x \in 1 .. k + 1 - 1 : SubSeq(c, 1, k)[x] = c[x + 1 - 1]
  BY <1>1, Part
<1>3. Len(SubSeq(c, 1, k)) = k /\ \A x \in 1 .. k : SubSeq(c, 1, k)[x] = c[x]
  BY <1>1, <1>2
<1>4. r \o c \in Seq(Cell) /\ Len(r \o c) = Len(r) + Len(c)
  BY Joined
<1>5. t \in Seq(Cell) /\ Len(t) = Len(r) + k
  <2>1. t = r \o SubSeq(c, 1, k)
    BY DEF Stock
  <2> QED
    BY <1>2, <1>3, <2>1, Joined
<1>6. ASSUME NEW x \in 1 .. Len(t) PROVE t[x] = (r \o c)[x]
  <2>0. t = r \o SubSeq(c, 1, k)
    BY DEF Stock
  <2>1. CASE x <= Len(r)
    <3>1. x \in 1 .. Len(r)
      BY <1>1, <1>5, <2>1
    <3>2. t[x] = r[x]
      BY <1>2, <2>0, <3>1, Joined
    <3>3. (r \o c)[x] = r[x]
      BY <3>1, Joined
    <3> QED
      BY <3>2, <3>3
  <2>2. CASE x > Len(r)
    <3>1. x - Len(r) \in 1 .. k /\ x - Len(r) \in 1 .. Len(c) /\ x - Len(r) + Len(r) = x
      BY <1>1, <1>5, <2>2
    <3>2. t[x - Len(r) + Len(r)] = SubSeq(c, 1, k)[x - Len(r)]
      BY <1>2, <1>3, <2>0, <3>1, Joined
    <3>3. (r \o c)[x - Len(r) + Len(r)] = c[x - Len(r)]
      BY <3>1, Joined
    <3> QED
      BY <1>3, <3>1, <3>2, <3>3
  <2> QED
    BY <1>1, <1>5, <2>1, <2>2
<1> QED
  BY <1>1, <1>4, <1>5, <1>6

Behind(lr, lc, k, d, lu, x) ==
    /\ lr \in Nat /\ lc \in Nat /\ k \in 0 .. lc /\ d \in 0 .. lr + k
    /\ lu = lr + k - d /\ x \in 1 .. lr + lc - d /\ x > lu
HasPlace(lr, lc, k, d, lu, x) ==
    \E y \in 1 .. lc - k : x = y + lu /\ y + k \in 1 .. lc /\ y + k + lr = x + d

LEMMA PlaceBehind ==
    ASSUME NEW lr, NEW lc, NEW k, NEW d, NEW lu, NEW x, Behind(lr, lc, k, d, lu, x)
    PROVE  HasPlace(lr, lc, k, d, lu, x)
<1>1. /\ lr \in Int /\ lc \in Int /\ k \in Int /\ d \in Int /\ lu \in Int /\ x \in Int
      /\ x - lu >= 1 /\ x <= lr + lc - d /\ lu = lr + k - d
  BY DEF Behind
<1>2. x - lu <= lc - k /\ 0 <= k
  BY <1>1 DEF Behind
<1>3. x = x - lu + lu /\ x - lu + k + lr = x + d
  BY <1>1
<1>4. x - lu + k >= 1 /\ x - lu + k <= lc
  BY <1>1, <1>2
<1>5. x - lu \in 1 .. lc - k /\ x - lu + k \in 1 .. lc
  BY <1>1, <1>2, <1>4
<1>6. \E y \in 1 .. lc - k : x = y + lu /\ y + k \in 1 .. lc /\ y + k + lr = x + d
  BY <1>3, <1>5
<1> QED
  BY <1>6 DEF HasPlace

TakesFirst(r, c, k, t, n, d) ==
    /\ d \in 0 .. Len(r \o c) /\ d <= n /\ d <= Len(t)
    /\ SubSeq(t, n + 1, Len(t)) \in Seq(Cell) /\ SubSeq(c, k + 1, Len(c)) \in Seq(Cell)
    /\ SubSeq(t, n + 1, Len(t)) \o SubSeq(c, k + 1, Len(c)) = Without(r \o c, d)
    /\ SubSeq(t, 1, d) \in Seq(Cell) /\ Len(SubSeq(t, 1, d)) = d
    /\ \A x \in 1 .. d : SubSeq(t, 1, d)[x] = (r \o c)[x]

LEMMA ReadTakes ==
    ASSUME NEW r \in Seq(Cell), NEW c \in Seq(Cell), NEW k \in 0 .. Len(c), NEW t, Stock(r, c, k, t),
           NEW n \in Nat, NEW d, d = IF n < Len(t) THEN n ELSE Len(t)
    PROVE  TakesFirst(r, c, k, t, n, d)
<1>1. /\ t \in Seq(Cell) /\ Len(t) = Len(r) + k /\ r \o c \in Seq(Cell)
      /\ Len(r \o c) = Len(r) + Len(c) /\ Len(r) \in Nat /\ Len(c) \in Nat
      /\ \A x \in 1 .. Len(t) : t[x] = (r \o c)[x]
  BY StockIs
<1>2. k \in Nat /\ k <= Len(c) /\ Len(t) \in Nat
  BY <1>1
<1>3. d \in Nat /\ d <= n /\ d <= Len(t) /\ d \in 0 .. Len(r \o c) /\ d \in 0 .. Len(t)
  BY <1>1, <1>2
<1>5. SubSeq(t, n + 1, Len(t)) = Without(t, d)
  <2>1. CASE n < Len(t)
    BY <2>1 DEF Without
  <2>2. CASE ~(n < Len(t))
    <3>1. d = Len(t) /\ n >= Len(t) /\ d >= Len(t)
      BY <1>2, <2>2
    <3>2. SubSeq(t, n + 1, Len(t)) = <<>>
      BY <1>1, <3>1, NothingLeft
    <3>3. SubSeq(t, d + 1, Len(t)) = <<>>
      BY <1>1, <1>3, <3>1, NothingLeft
    <3> QED
      BY <3>2, <3>3 DEF Without
  <2> QED
    BY <2>1, <2>2
<1>6. SubSeq(c, k + 1, Len(c)) = Without(c, k)
  BY DEF Without
<1> DEFINE u == Without(t, d)
           e == Without(c, k)
           w == Without(r \o c, d)
<1>7. u \in Seq(Cell) /\ Len(u) = Len(t) - d /\ \A x \in 1 .. Len(t) - d : u[x] = t[x + d]
  <2>1. t \in Seq(Cell) /\ d \in 0 .. Len(t)
    BY <1>1, <1>3
  <2> QED
    BY <2>1, WithoutIs
<1>8. e \in Seq(Cell) /\ Len(e) = Len(c) - k /\ \A x \in 1 .. Len(c) - k : e[x] = c[x + k]
  BY WithoutIs
<1>9. /\ w \in Seq(Cell) /\ Len(w) = Len(r \o c) - d
      /\ \A x \in 1 .. Len(r \o c) - d : w[x] = (r \o c)[x + d]
  BY <1>1, <1>3, WithoutIs
<1> HIDE DEF u, e, w
<1>0. u \in Seq(Cell) /\ e \in Seq(Cell) /\ w \in Seq(Cell)
  BY <1>7, <1>8, <1>9
<1>22. Len(u) = Len(t) - d /\ Len(e) = Len(c) - k
  BY <1>7, <1>8
<1>23. Len(w) = Len(r \o c) - d /\ Len(t) = Len(r) + k /\ Len(r \o c) = Len(r) + Len(c)
  BY <1>1, <1>9
<1>24. /\ Len(r) \in Nat /\ Len(c) \in Nat /\ k \in Nat /\ d \in Nat /\ d <= Len(r) + k /\ k <= Len(c)
       /\ Len(u) \in Nat /\ Len(e) \in Nat /\ Len(w) \in Nat
  BY <1>0, <1>1, <1>2, <1>3
<1>10. u \o e \in Seq(Cell) /\ Len(u \o e) = Len(u) + Len(e)
  BY <1>0
<1>11. \A x \in 1 .. Len(u) : (u \o e)[x] = u[x]
  BY <1>0, Joined
<1>12. \A x \in 1 .. Len(e) : (u \o e)[x + Len(u)] = e[x]
  BY <1>0, Joined
<1>13. Len(u \o e) = Len(w)
  BY <1>1, <1>2, <1>3, <1>7, <1>8, <1>9, <1>10
<1>14. ASSUME NEW x \in 1 .. Len(w) PROVE (u \o e)[x] = w[x]
  <2>1. CASE x <= Len(u)
    <3>1. x \in 1 .. Len(u) /\ x + d \in 1 .. Len(t) /\ x \in 1 .. Len(r \o c) - d /\ x \in 1 .. Len(t) - d
      BY <1>1, <1>2, <1>3, <1>7, <1>9, <2>1
    <3>2. (u \o e)[x] = t[x + d]
      BY <1>7, <1>11, <3>1
    <3> QED
      BY <1>1, <1>9, <3>1, <3>2
  <2>2. CASE x > Len(u)
    <3>1. d \in 0 .. Len(r) + k /\ k \in 0 .. Len(c) /\ Len(u) = Len(r) + k - d /\ x \in 1 .. Len(r) + Len(c) - d
      BY <1>22, <1>23, <1>24
    <3>2. Behind(Len(r), Len(c), k, d, Len(u), x)
      BY <1>24, <2>2, <3>1 DEF Behind
    <3>20. HasPlace(Len(r), Len(c), k, d, Len(u), x)
      BY <3>2, PlaceBehind
    <3>3. PICK y \in 1 .. Len(c) - k : x = y + Len(u) /\ y + k \in 1 .. Len(c) /\ y + k + Len(r) = x + d
      BY <3>20 DEF HasPlace
    <3>4. (u \o e)[y + Len(u)] = e[y]
      BY <1>12, <1>22, <3>3
    <3>5. e[y] = c[y + k]
      BY <1>8, <3>3
    <3>6. (r \o c)[y + k + Len(r)] = c[y + k]
      BY <3>3, Joined
    <3>7. w[x] = (r \o c)[x + d]
      BY <1>9, <1>23, <3>1
    <3> QED
      BY <3>3, <3>4, <3>5, <3>6, <3>7
  <2>3. x <= Len(u) \/ x > Len(u)
    BY <1>24
  <2> QED
    BY <2>1, <2>2, <2>3
<1>15. u \o e = w
  BY <1>9, <1>10, <1>13, <1>14, SameElements
<1>16. SubSeq(t, n + 1, Len(t)) \o SubSeq(c, k + 1, Len(c)) = Without(r \o c, d)
  BY <1>5, <1>6, <1>15 DEF u, e, w
<1>17. SubSeq(t, n + 1, Len(t)) \in Seq(Cell) /\ SubSeq(c, k + 1, Len(c)) \in Seq(Cell)
  BY <1>5, <1>6, <1>7, <1>8 DEF u, e
<1>18. 1 \in Nat \ {0} /\ d <= Len(t) /\ 1 <= d + 1 /\ d + 1 - 1 = d
  BY <1>3
<1>19. SubSeq(t, 1, d) \in Seq(Cell) /\ Len(SubSeq(t, 1, d)) = d + 1 - 1
  BY <1>1, <1>3, <1>18, Part
<1>20. \A x \in 1 .. d + 1 - 1 : SubSeq(t, 1, d)[x] = t[x + 1 - 1]
  BY <1>1, <1>3, <1>18, Part
<1>21. ASSUME NEW x \in 1 .. d PROVE SubSeq(t, 1, d)[x] = (r \o c)[x]
  <2>1. x \in 1 .. d + 1 - 1 /\ x + 1 - 1 = x /\ x \in 1 .. Len(t)
    BY <1>2, <1>3
  <2>2. SubSeq(t, 1, d)[x] = t[x]
    BY <1>20, <2>1
  <2> QED
    BY <1>1, <2>1, <2>2
<1> QED
  BY <1>3, <1>16, <1>17, <1>18, <1>19, <1>21 DEF TakesFirst

-----------------------------------------------------------------------------
(* The place of the program in the stream: q was sent, s is not read yet,   *)
(* c is pc, p port, l length, sl slipped and to torn                        *)
Labels == {"top", "first", "kind", "length", "data", "put", "sleep", "ended",
           "serve", "handle", "write"}
Busy == {"kind", "length", "data"}
Hides(q) == \E n \in 1 .. Len(q) : SO \in ToSet(Tail(Values(q[n])))
StartsHere(s) == s # <<>> => s[1].first
SizeOf(p) == IF p = "oled" THEN 2 ELSE 1

(* Behind the first byte of a packet, its second or its length *)
Position(q, s, c, p, l) ==
    /\ c = "kind" => \E n \in 1 .. Len(q) : q[n].kind # "raw" /\ Goes(q, s, 1, n, 2)
    /\ c = "length" => \E n \in 1 .. Len(q) : q[n].kind = p /\ Goes(q, s, 1, n, 3)
    /\ c = "data" => \E n \in 1 .. Len(q) :
         q[n].kind = p /\ l = Len(q[n].data) /\ Goes(q, s, 1, n, SizeOf(p) + 3)

Tame(q, sl, to) == ~sl \/ (~to /\ ~Hides(q))

Synced(q, s, c, p, l, sl, to) ==
    /\ Genuine(q, s)
    /\ ~sl \/ ~to => Whole(q, s)
    /\ ~sl /\ c \notin Busy => StartsHere(s)
    /\ Tame(q, sl, to) => Position(q, s, c, p, l)

(* What a packet's bytes are, by its kind *)
BytesAre(w, k, d) == \A x \in 1 .. Len(d) : w[k + x].v = d[x]

LEMMA FramedOled ==
    ASSUME NEW q \in Seq(Packet), NEW n \in 1 .. Len(q), q[n].kind = "oled",
           NEW w, w = Code(q, n), NEW d, d = q[n].data
    PROVE  /\ d \in Seq(Nat) /\ Len(w) = 4 + Len(d) /\ w[1].v = SO /\ w[2].v = PICTURE
           /\ w[3].v + 256 * w[4].v = Len(d)
           /\ BytesAre(w, 4, d)
<1> DEFINE b == Values(q[n])
<1>1. q[n] \in Packet
  OBVIOUS
<1>2. d \in Seq(Nat) /\ Len(d) \in Nat
  BY <1>1, PacketData
<1>3. b[1] = SO
  BY <1>1, PacketValues
<1>31. OledShape(b, d)
  BY <1>1, PacketValues
<1>4. Len(b) = 4 + Len(d) /\ b[2] = PICTURE /\ b[3] + 256 * b[4] = Len(d)
  BY <1>31 DEF OledShape
<1>5. \A x \in 1 .. Len(d) : b[4 + x] = d[x]
  BY <1>31 DEF OledShape
<1>6. Len(w) = Len(b)
  BY CodeIs
<1>7. \A x \in 1 .. Len(w) : w[x].v = b[x]
  BY CodeIs
<1> HIDE DEF b
<1>8. 1 \in 1 .. Len(w) /\ 2 \in 1 .. Len(w) /\ 3 \in 1 .. Len(w) /\ 4 \in 1 .. Len(w)
  BY <1>2, <1>4, <1>6
<1>9. ASSUME NEW x \in 1 .. Len(d) PROVE w[4 + x].v = d[x]
  <2>1. 4 + x \in 1 .. Len(w)
    BY <1>2, <1>4, <1>6
  <2> QED
    BY <1>5, <1>7, <2>1
<1> QED
  BY <1>2, <1>3, <1>4, <1>6, <1>7, <1>8, <1>9 DEF BytesAre

LEMMA FramedPwm ==
    ASSUME NEW q \in Seq(Packet), NEW n \in 1 .. Len(q), q[n].kind = "pwm",
           NEW w, w = Code(q, n), NEW d, d = q[n].data
    PROVE  /\ d \in Seq(Nat) /\ Len(w) = 3 + Len(d) /\ w[1].v = SO /\ w[2].v = DUTY
           /\ w[3].v = Len(d)
           /\ BytesAre(w, 3, d)
<1> DEFINE b == Values(q[n])
<1>1. q[n] \in Packet
  OBVIOUS
<1>2. d \in Seq(Nat) /\ Len(d) \in Nat
  BY <1>1, PacketData
<1>3. b[1] = SO
  BY <1>1, PacketValues
<1>31. PwmShape(b, d)
  BY <1>1, PacketValues
<1>4. Len(b) = 3 + Len(d) /\ b[2] = DUTY /\ b[3] = Len(d)
  BY <1>31 DEF PwmShape
<1>5. \A x \in 1 .. Len(d) : b[3 + x] = d[x]
  BY <1>31 DEF PwmShape
<1>6. Len(w) = Len(b)
  BY CodeIs
<1>7. \A x \in 1 .. Len(w) : w[x].v = b[x]
  BY CodeIs
<1> HIDE DEF b
<1>8. 1 \in 1 .. Len(w) /\ 2 \in 1 .. Len(w) /\ 3 \in 1 .. Len(w)
  BY <1>2, <1>4, <1>6
<1>9. ASSUME NEW x \in 1 .. Len(d) PROVE w[3 + x].v = d[x]
  <2>1. 3 + x \in 1 .. Len(w)
    BY <1>2, <1>4, <1>6
  <2> QED
    BY <1>5, <1>7, <2>1
<1> QED
  BY <1>2, <1>3, <1>4, <1>6, <1>7, <1>8, <1>9 DEF BytesAre

LEMMA FramedRaw ==
    ASSUME NEW q \in Seq(Packet), NEW n \in 1 .. Len(q), q[n].kind = "raw"
    PROVE  Len(Code(q, n)) = 1 /\ Code(q, n)[1].v # SO
<1>1. q[n] \in Packet
  OBVIOUS
<1>2. Len(Values(q[n])) = 1 /\ Values(q[n])[1] # SO
  BY <1>1, PacketValues
<1>3. Len(Code(q, n)) = 1
  BY <1>2, CodeIs
<1>4. 1 \in 1 .. Len(Code(q, n))
  BY <1>3
<1>5. Code(q, n)[1].v = Values(q[n])[1]
  BY <1>4, CodeIs
<1> QED
  BY <1>2, <1>3, <1>5

LEMMA KindIs ==
    ASSUME NEW q \in Seq(Packet), NEW n \in 1 .. Len(q)
    PROVE  q[n].kind \in {"raw", "oled", "pwm"}
<1>1. q[n] \in Packet
  OBVIOUS
<1> QED
  BY <1>1, PacketData DEF Ports

(* Behind the last byte of a packet another one starts *)
LEMMA PacketEnds ==
    ASSUME NEW q \in Seq(Packet), NEW s \in Seq(Cell), NEW n, NEW j, Goes(q, s, 1, n, j),
           j = Len(Code(q, n)) + 1
    PROVE  StartsHere(s)
<1> DEFINE w == Code(q, n)
<1>1. n \in 1 .. Len(q) /\ (1 + Len(w) - j < Len(s) => s[1 + Len(w) - j + 1].first)
  BY DEF Goes
<1>2. Len(w) \in Nat
  BY <1>1, CodeIs
<1> HIDE DEF w
<1>3. 1 + Len(w) - j = 0 /\ 1 + Len(w) - j + 1 = 1
  BY <1>2 DEF w
<1>4. s # <<>> => 0 < Len(s)
  OBVIOUS
<1> QED
  BY <1>1, <1>3, <1>4 DEF StartsHere

(* Where the program looks for a packet's start, or may have lost its place *)
LEMMA SyncedOutside ==
    ASSUME NEW q, NEW s, NEW c, NEW p, NEW l, NEW sl, NEW to, c \notin Busy, Genuine(q, s),
           ~sl \/ ~to => Whole(q, s), ~sl => StartsHere(s)
    PROVE  Synced(q, s, c, p, l, sl, to)
  BY DEF Synced, Position, Busy

LEMMA SyncedAnyway ==
    ASSUME NEW q, NEW s, NEW c, NEW p, NEW l, NEW sl, NEW to,
           NEW c2, NEW p2, NEW l2, Synced(q, s, c, p, l, sl, to), c \notin Busy, c2 \notin Busy
    PROVE  Synced(q, s, c2, p2, l2, sl, to)
  BY DEF Synced, Position, Busy

LEMMA SyncedLost ==
    ASSUME NEW q, NEW s, NEW c, NEW p, NEW l, NEW sl, NEW to, NEW c2, NEW p2, NEW l2,
           Synced(q, s, c, p, l, sl, to), c2 \notin Busy
    PROVE  Synced(q, s, c2, p2, l2, TRUE, to)
<1>1. Genuine(q, s) /\ (~to => Whole(q, s))
  BY DEF Synced
<1> QED
  BY <1>1, SyncedOutside

(* The board sends a packet *)
LEMMA PositionJoined ==
    ASSUME NEW q \in Seq(Packet), NEW s \in Seq(Cell), NEW packet \in Packet,
           NEW q2, NEW t, Sends(q, s, packet, q2, t),
           NEW c, NEW p, NEW l, Position(q, s, c, p, l)
    PROVE  Position(q2, t, c, p, l)
<1>1. ASSUME NEW n \in 1 .. Len(q) PROVE n \in 1 .. Len(q2) /\ q2[n] = q[n]
  BY SentOn
<1>2. 1 \in Nat \ {0}
  OBVIOUS
<1>3. ASSUME NEW n, NEW j, Goes(q, s, 1, n, j) PROVE Goes(q2, t, 1, n, j)
  BY <1>2, <1>3, GoesJoined
<1>4. ASSUME c = "kind" PROVE \E n \in 1 .. Len(q2) : q2[n].kind # "raw" /\ Goes(q2, t, 1, n, 2)
  <2>1. PICK n \in 1 .. Len(q) : q[n].kind # "raw" /\ Goes(q, s, 1, n, 2)
    BY <1>4 DEF Position
  <2> QED
    BY <1>1, <1>3, <2>1
<1>5. ASSUME c = "length" PROVE \E n \in 1 .. Len(q2) : q2[n].kind = p /\ Goes(q2, t, 1, n, 3)
  <2>1. PICK n \in 1 .. Len(q) : q[n].kind = p /\ Goes(q, s, 1, n, 3)
    BY <1>5 DEF Position
  <2> QED
    BY <1>1, <1>3, <2>1
<1>6. ASSUME c = "data"
      PROVE  \E n \in 1 .. Len(q2) :
                q2[n].kind = p /\ l = Len(q2[n].data) /\ Goes(q2, t, 1, n, SizeOf(p) + 3)
  <2>1. PICK n \in 1 .. Len(q) : q[n].kind = p /\ l = Len(q[n].data) /\ Goes(q, s, 1, n, SizeOf(p) + 3)
    BY <1>6 DEF Position
  <2> QED
    BY <1>1, <1>3, <2>1
<1> QED
  BY <1>4, <1>5, <1>6 DEF Position

LEMMA SyncedJoined ==
    ASSUME NEW q \in Seq(Packet), NEW s \in Seq(Cell), NEW packet \in Packet,
           NEW q2, NEW t, Sends(q, s, packet, q2, t),
           NEW c, NEW p, NEW l, NEW sl, NEW to, Synced(q, s, c, p, l, sl, to)
    PROVE  Synced(q2, t, c, p, l, sl, to)
<1>1. Genuine(q2, t)
  <2>1. Genuine(q, s)
    BY DEF Synced
  <2> QED
    BY <2>1, GenuineJoined
<1>2. ~sl \/ ~to => Whole(q2, t)
  <2>1. ~sl \/ ~to => Whole(q, s)
    BY DEF Synced
  <2> QED
    BY <2>1, WholeJoined
<1>3. Hides(q) => Hides(q2)
  <2> SUFFICES ASSUME Hides(q) PROVE Hides(q2)
    OBVIOUS
  <2>1. PICK n \in 1 .. Len(q) : SO \in ToSet(Tail(Values(q[n])))
    BY DEF Hides
  <2>2. n \in 1 .. Len(q2) /\ q2[n] = q[n]
    BY SentOn
  <2> QED
    BY <2>1, <2>2 DEF Hides
<1>4. Tame(q2, sl, to) => Position(q2, t, c, p, l)
  <2>1. Tame(q2, sl, to) => Position(q, s, c, p, l)
    BY <1>3 DEF Tame, Synced
  <2> QED
    BY <2>1, PositionJoined
<1>5. ASSUME ~sl, c \notin Busy PROVE StartsHere(t)
  <2> DEFINE w == Code(q2, Len(q) + 1)
  <2>1. StartsHere(s)
    BY <1>5 DEF Synced
  <2>2. \A x \in 1 .. Len(s) : t[x] = s[x]
    BY SentOn
  <2>3. \A x \in 1 .. Len(w) : t[x + Len(s)] = w[x]
    BY SentOn
  <2>4. Len(q) + 1 \in 1 .. Len(q2) /\ q2 \in Seq(Packet)
    <3>1. Len(q) + 1 \in 1 .. Len(q2)
      BY SentOn
    <3>2. q2 \in Seq(Packet)
      BY SentOn
    <3> QED
      BY <3>1, <3>2
  <2>5. Len(w) \in Nat /\ Len(w) >= 1
    BY <2>4, CodeIs
  <2>6. 1 \in 1 .. Len(w)
    BY <2>5
  <2>7. w[1].first <=> 1 = 1
    BY <2>4, <2>6, CodeIs
  <2> HIDE DEF w
  <2>8. CASE s = <<>>
    <3>1. Len(s) = 0 /\ 1 + Len(s) = 1
      BY <2>8
    <3> QED
      BY <2>3, <2>6, <2>7, <3>1 DEF StartsHere
  <2>9. CASE s # <<>>
    <3>1. 1 \in 1 .. Len(s)
      BY <2>9
    <3> QED
      BY <2>1, <2>2, <2>9, <3>1 DEF StartsHere
  <2> QED
    BY <2>8, <2>9
<1> QED
  BY <1>1, <1>2, <1>4, <1>5 DEF Synced

(* What a read of n bytes gives: d bytes are gone, f is what it returns *)
Gives(s, t, n, d, f) ==
    /\ d \in 0 .. Len(s) /\ d <= n /\ t = Without(s, d)
    /\ f \in Seq(Cell) /\ Len(f) \in {0, d} /\ (d = n => Len(f) = n)
    /\ \A x \in 1 .. Len(f) : f[x] = s[x]

IsPart(f, w, j) == \A x \in 1 .. Len(f) : j + x - 1 \in 1 .. Len(w) /\ f[x] = w[j + x - 1]

LEMMA GivenPart ==
    ASSUME NEW q \in Seq(Packet), NEW s \in Seq(Cell), NEW t, NEW n \in Nat, NEW d, NEW f,
           Gives(s, t, n, d, f), NEW i, NEW j, Goes(q, s, 1, i, j),
           n <= Len(Code(q, i)) + 1 - j
    PROVE  /\ i \in 1 .. Len(q) /\ j \in Nat /\ j >= 1
           /\ Goes(q, t, 1, i, j + d)
           /\ IsPart(f, Code(q, i), j)
<1> DEFINE w == Code(q, i)
<1>1. /\ i \in 1 .. Len(q) /\ j \in 1 .. Len(w) + 1 /\ \A x \in j .. Len(w) : s[1 + x - j] = w[x]
  BY DEF Goes
<1>2. Len(w) \in Nat
  BY <1>1, CodeIs
<1>3. /\ d \in Nat /\ d <= n /\ t = Without(s, d) /\ Len(f) \in Nat /\ Len(f) <= d
      /\ \A x \in 1 .. Len(f) : f[x] = s[x]
  BY DEF Gives
<1>4. j \in Nat /\ j >= 1 /\ n <= Len(w) + 1 - j
  BY <1>1, <1>2
<1>5. d <= Len(Code(q, i)) + 1 - j
  BY <1>2, <1>3, <1>4
<1>6. Goes(q, t, 1, i, j + d)
  BY <1>3, <1>5, GoesOn
<1> HIDE DEF w
<1>7. ASSUME NEW x \in 1 .. Len(f) PROVE j + x - 1 \in 1 .. Len(w) /\ f[x] = w[j + x - 1]
  <2>1. j + x - 1 \in 1 .. Len(w) /\ j + x - 1 \in j .. Len(w) /\ 1 + (j + x - 1) - j = x
    BY <1>2, <1>3, <1>4
  <2> QED
    BY <1>1, <1>3, <2>1
<1> QED
  BY <1>1, <1>4, <1>6, <1>7 DEF w, IsPart

LEMMA GivenGenuine ==
    ASSUME NEW q \in Seq(Packet), NEW s \in Seq(Cell), NEW t, NEW n, NEW d, NEW f,
           Gives(s, t, n, d, f), Genuine(q, s)
    PROVE  /\ t \in Seq(Cell) /\ Genuine(q, t) /\ (Whole(q, s) => Whole(q, t))
           /\ \A x \in 1 .. Len(f) : f[x].of \in 1 .. Len(q)
<1>1. d \in 0 .. Len(s) /\ t = Without(s, d)
  BY DEF Gives
<1>2. t \in Seq(Cell) /\ Genuine(q, t)
  BY <1>1, WithoutIs, GenuineWithout
<1>3. Whole(q, s) => Whole(q, t)
  BY <1>1, WholeWithout
<1>4. ASSUME NEW x \in 1 .. Len(f) PROVE f[x].of \in 1 .. Len(q)
  <2>1. x \in 1 .. Len(s) /\ f[x] = s[x]
    <3>1. Len(s) \in Nat /\ d \in Nat /\ d <= Len(s) /\ Len(f) \in {0, d} /\ f[x] = s[x]
      BY DEF Gives
    <3> QED
      BY <3>1
  <2>2. PICK m \in 1 .. Len(q) : \E y \in 1 .. Len(Code(q, m)) : s[x] = Code(q, m)[y]
    BY <2>1 DEF Genuine
  <2> QED
    BY <2>1, <2>2, CodeIs
<1> QED
  BY <1>2, <1>3, <1>4

(* The first byte *)
FirstCell(s, f) == f # <<>> => s # <<>> /\ f[1] = s[1]

LEMMA OneByte ==
    ASSUME NEW s \in Seq(Cell), NEW t, NEW d, NEW f, Gives(s, t, 1, d, f)
    PROVE  /\ f = <<>> => d = 0 /\ t = s
           /\ f # <<>> => d = 1 /\ Len(f) = 1 /\ s # <<>> /\ f[1] = s[1]
<1>1. /\ d \in 0 .. Len(s) /\ d <= 1 /\ t = Without(s, d)
      /\ f \in Seq(Cell) /\ Len(f) \in {0, d} /\ (d = 1 => Len(f) = 1)
      /\ \A x \in 1 .. Len(f) : f[x] = s[x]
  BY DEF Gives
<1>2. ASSUME f = <<>> PROVE d = 0 /\ t = s
  <2>1. d = 0
    BY <1>1, <1>2
  <2>2. Without(s, 0) = s
    <3>1. 0 \in 0 .. Len(s)
      OBVIOUS
    <3>2. Without(s, 0) \in Seq(Cell) /\ Len(Without(s, 0)) = Len(s) - 0
      BY <3>1, WithoutIs
    <3>3. \A x \in 1 .. Len(s) - 0 : Without(s, 0)[x] = s[x + 0]
      BY <3>1, WithoutIs
    <3>4. Len(Without(s, 0)) = Len(s) /\ \A x \in 1 .. Len(s) : Without(s, 0)[x] = s[x]
      BY <3>2, <3>3
    <3> QED
      BY <3>2, <3>4, SameElements
  <2> QED
    BY <1>1, <2>1, <2>2
<1>3. ASSUME f # <<>> PROVE d = 1 /\ Len(f) = 1 /\ s # <<>> /\ f[1] = s[1]
  <2>1. Len(f) # 0
    BY <1>1, <1>3
  <2>2. d = 1 /\ Len(f) = 1
    BY <1>1, <2>1
  <2>3. 1 \in 1 .. Len(f) /\ s # <<>>
    BY <1>1, <2>2
  <2> QED
    BY <1>1, <2>2, <2>3
<1> QED
  BY <1>2, <1>3

LEMMA FirstRead ==
    ASSUME NEW q \in Seq(Packet), NEW s \in Seq(Cell), NEW t, NEW d, NEW f, Gives(s, t, 1, d, f),
           NEW p, NEW l, NEW sl \in BOOLEAN, NEW to \in BOOLEAN, Synced(q, s, "first", p, l, sl, to),
           NEW p2, NEW l2
    PROVE  /\ f = <<>> \/ ~Is(f, SO) => \A c \in Labels \ Busy : Synced(q, t, c, p2, l2, sl, to)
           /\ Is(f, SO) => Synced(q, t, "kind", p2, l2, sl, to)
<1>1. Genuine(q, s) /\ (~sl \/ ~to => Whole(q, s)) /\ (~sl => StartsHere(s))
  BY DEF Synced, Busy
<1>2. t \in Seq(Cell) /\ Genuine(q, t)
  BY <1>1, GivenGenuine
<1>3. ~sl \/ ~to => Whole(q, t)
  BY <1>1, GivenGenuine
<1>4. CASE f = <<>>
  <2>1. t = s
    BY <1>4, OneByte
  <2>2. ASSUME NEW c \in Labels \ Busy PROVE Synced(q, t, c, p2, l2, sl, to)
    BY <1>1, <2>1, <2>2, SyncedOutside
  <2>3. ~Is(f, SO)
    BY <1>4 DEF Is
  <2> QED
    BY <2>2, <2>3
<1>5. CASE f # <<>>
  <2>1. d = 1 /\ Len(f) = 1 /\ s # <<>> /\ f[1] = s[1]
    BY <1>5, OneByte
  <2>2. 1 \in 1 .. Len(s)
    BY <2>1
  <2>3. PICK n \in 1 .. Len(q) : \E x \in 1 .. Len(Code(q, n)) : s[1] = Code(q, n)[x]
    BY <1>1, <2>2 DEF Genuine
  <2>4. PICK x \in 1 .. Len(Code(q, n)) : s[1] = Code(q, n)[x]
    BY <2>3
  <2>5. s[1].of = n /\ s[1].v = Values(q[n])[x] /\ (s[1].first <=> x = 1)
    BY <2>4, CodeIs
  <2>6. Len(Code(q, n)) \in Nat /\ Len(Code(q, n)) >= 1 /\ Len(Code(q, n)) = Len(Values(q[n]))
    BY CodeIs
  <2>7. ASSUME s[1].first, ~sl \/ ~to
        PROVE  Goes(q, t, 1, n, 2) /\ s[1].v = Code(q, n)[1].v
    <3>1. Goes(q, s, 1, n, 1)
      BY <1>1, <2>2, <2>5, <2>7 DEF Whole
    <3>2. 1 <= Len(Code(q, n)) + 1 - 1
      BY <2>6
    <3>3. Goes(q, t, 1, n, 1 + d)
      BY <3>1, <3>2, GivenPart
    <3>4. x = 1
      BY <2>5, <2>7
    <3> QED
      BY <2>1, <2>4, <3>3, <3>4
  <2>8. ASSUME ~Is(f, SO), NEW c \in Labels \ Busy PROVE Synced(q, t, c, p2, l2, sl, to)
    <3>1. ASSUME ~sl PROVE StartsHere(t)
      <4>1. s[1].first
        BY <1>1, <2>1, <3>1 DEF StartsHere
      <4>2. Goes(q, t, 1, n, 2) /\ s[1].v = Code(q, n)[1].v
        BY <2>7, <3>1, <4>1
      <4>3. Code(q, n)[1].v # SO
        BY <1>5, <2>1, <2>8, <4>2 DEF Is
      <4>4. q[n].kind = "raw"
        <5>1. CASE q[n].kind = "oled"
          BY <4>3, <5>1, FramedOled
        <5>2. CASE q[n].kind = "pwm"
          BY <4>3, <5>2, FramedPwm
        <5> QED
          BY <5>1, <5>2, KindIs
      <4>5. 2 = Len(Code(q, n)) + 1
        <5>1. Len(Code(q, n)) = 1
          BY <4>4, FramedRaw
        <5> QED
          BY <5>1
      <4> QED
        BY <1>2, <4>2, <4>5, PacketEnds
    <3> QED
      BY <1>2, <1>3, <2>8, <3>1, SyncedOutside
  <2>9. ASSUME Is(f, SO) PROVE Synced(q, t, "kind", p2, l2, sl, to)
    <3>1. s[1].v = SO
      BY <2>1, <2>9 DEF Is
    <3>2. ASSUME Tame(q, sl, to) PROVE Position(q, t, "kind", p2, l2)
      <4>1. s[1].first
        <5>1. CASE ~sl
          BY <1>1, <2>1, <5>1 DEF StartsHere
        <5>2. CASE ~to /\ ~Hides(q)
          <6> SUFFICES ASSUME x # 1 PROVE FALSE
            BY <2>5
          <6> DEFINE b == Values(q[n])
          <6>1. b \in Seq(Nat) /\ Len(b) >= 1
            <7>1. q[n] \in Packet
              OBVIOUS
            <7> QED
              BY <7>1, PacketValues
          <6>2. b[x] = SO /\ x \in 1 .. Len(b)
            BY <2>5, <2>6, <3>1
          <6> HIDE DEF b
          <6>3. x - 1 \in 1 .. Len(Tail(b)) /\ Tail(b)[x - 1] = b[x]
            BY <6>1, <6>2
          <6>4. SO \in ToSet(Tail(b))
            <7>1. Tail(b) \in Seq(Nat)
              BY <6>1
            <7>2. x - 1 \in DOMAIN Tail(b) /\ Tail(b)[x - 1] = SO
              BY <6>2, <6>3, <7>1
            <7> QED
              BY <7>2 DEF ToSet
          <6> QED
            BY <5>2, <6>4 DEF Hides, b
        <5> QED
          BY <3>2, <5>1, <5>2 DEF Tame
      <4>2. ~sl \/ ~to
        BY <3>2 DEF Tame
      <4>3. Goes(q, t, 1, n, 2) /\ s[1].v = Code(q, n)[1].v
        BY <2>7, <4>1, <4>2
      <4>4. q[n].kind # "raw"
        BY <3>1, <4>3, FramedRaw
      <4> QED
        BY <4>3, <4>4 DEF Position
    <3> QED
      BY <1>2, <1>3, <3>2 DEF Synced, Busy
  <2> QED
    BY <1>5, <2>8, <2>9
<1> QED
  BY <1>4, <1>5

(* The second, when the first was a packet's start *)
AfterKind(q, t, f, p, l, sl, to) ==
    /\ f = <<>> => \A c \in Labels \ Busy : Synced(q, t, c, p, l, TRUE, to)
    /\ Is(f, PICTURE) => Synced(q, t, "length", "oled", l, sl, to)
    /\ Is(f, DUTY) => Synced(q, t, "length", "pwm", l, sl, to)
    /\ f # <<>> /\ ~Is(f, PICTURE) /\ ~Is(f, DUTY)
         => \A c \in Labels \ Busy : Synced(q, t, c, p, l, sl, to)

LEMMA KindRead ==
    ASSUME NEW q \in Seq(Packet), NEW s \in Seq(Cell), NEW t, NEW d, NEW f, Gives(s, t, 1, d, f),
           NEW p, NEW l, NEW sl \in BOOLEAN, NEW to \in BOOLEAN, Synced(q, s, "kind", p, l, sl, to)
    PROVE  AfterKind(q, t, f, p, l, sl, to)
<1>1. Genuine(q, s) /\ (~sl \/ ~to => Whole(q, s)) /\ (Tame(q, sl, to) => Position(q, s, "kind", p, l))
  BY DEF Synced
<1>2. t \in Seq(Cell) /\ Genuine(q, t)
  BY <1>1, GivenGenuine
<1>3. ~sl \/ ~to => Whole(q, t)
  BY <1>1, GivenGenuine
<1>4. ASSUME f = <<>>, NEW c \in Labels \ Busy PROVE Synced(q, t, c, p, l, TRUE, to)
  BY <1>2, <1>3, <1>4, SyncedOutside
<1>5. ASSUME f # <<>>, Tame(q, sl, to)
      PROVE  \E n \in 1 .. Len(q) :
                /\ Goes(q, t, 1, n, 3)
                /\ \/ q[n].kind = "oled" /\ Is(f, PICTURE) /\ ~Is(f, DUTY)
                   \/ q[n].kind = "pwm" /\ Is(f, DUTY) /\ ~Is(f, PICTURE)
  <2>1. PICK n \in 1 .. Len(q) : q[n].kind # "raw" /\ Goes(q, s, 1, n, 2)
    BY <1>1, <1>5 DEF Position
  <2>2. d = 1 /\ Len(f) = 1
    BY <1>5, OneByte
  <2>3. Len(Code(q, n)) >= 2 /\ Len(Code(q, n)) \in Nat
    <3>1. CASE q[n].kind = "oled"
      <4>1. PICK e \in Seq(Nat) : Len(Code(q, n)) = 4 + Len(e)
        BY <3>1, FramedOled
      <4> QED
        BY <4>1
    <3>2. CASE q[n].kind = "pwm"
      <4>1. PICK e \in Seq(Nat) : Len(Code(q, n)) = 3 + Len(e)
        BY <3>2, FramedPwm
      <4> QED
        BY <4>1
    <3> QED
      BY <2>1, <3>1, <3>2, KindIs
  <2>4. 1 <= Len(Code(q, n)) + 1 - 2
    BY <2>3
  <2>5. Goes(q, t, 1, n, 2 + d)
    BY <2>1, <2>4, GivenPart
  <2>6. f[1] = Code(q, n)[2]
    <3>0. PICK j : j = 2
      OBVIOUS
    <3>3. Goes(q, s, 1, n, j) /\ 1 <= Len(Code(q, n)) + 1 - j
      BY <2>1, <2>4, <3>0
    <3>4. IsPart(f, Code(q, n), j)
      BY <3>3, GivenPart
    <3>1. \A x \in 1 .. Len(f) : f[x] = Code(q, n)[j + x - 1]
      BY <3>4 DEF IsPart
    <3>2. 1 \in 1 .. Len(f) /\ j + 1 - 1 = 2
      BY <2>2, <3>0
    <3> QED
      BY <3>1, <3>2
  <2>7. CASE q[n].kind = "oled"
    <3>1. f[1].v = PICTURE
      BY <2>6, <2>7, FramedOled
    <3>2. Is(f, PICTURE) /\ ~Is(f, DUTY)
      BY <1>5, <3>1 DEF Is, PICTURE, DUTY
    <3> QED
      BY <2>2, <2>5, <2>7, <3>2
  <2>8. CASE q[n].kind = "pwm"
    <3>1. f[1].v = DUTY
      BY <2>6, <2>8, FramedPwm
    <3>2. Is(f, DUTY) /\ ~Is(f, PICTURE)
      BY <1>5, <3>1 DEF Is, PICTURE, DUTY
    <3> QED
      BY <2>2, <2>5, <2>8, <3>2
  <2> QED
    BY <2>1, <2>7, <2>8, KindIs
<1>6. ASSUME Is(f, PICTURE) PROVE Synced(q, t, "length", "oled", l, sl, to)
  <2>1. ASSUME Tame(q, sl, to) PROVE Position(q, t, "length", "oled", l)
    <3>1. f # <<>>
      BY <1>6 DEF Is
    <3> QED
      BY <1>5, <1>6, <2>1, <3>1 DEF Position
  <2> QED
    BY <1>2, <1>3, <2>1 DEF Synced, Busy
<1>7. ASSUME Is(f, DUTY) PROVE Synced(q, t, "length", "pwm", l, sl, to)
  <2>1. ASSUME Tame(q, sl, to) PROVE Position(q, t, "length", "pwm", l)
    <3>1. f # <<>>
      BY <1>7 DEF Is
    <3> QED
      BY <1>5, <1>7, <2>1, <3>1 DEF Position
  <2> QED
    BY <1>2, <1>3, <2>1 DEF Synced, Busy
<1>8. ASSUME f # <<>>, ~Is(f, PICTURE), ~Is(f, DUTY), NEW c \in Labels \ Busy
      PROVE  Synced(q, t, c, p, l, sl, to)
  <2>1. sl
    BY <1>5, <1>8 DEF Tame
  <2> QED
    BY <1>2, <1>3, <1>8, <2>1, SyncedOutside
<1> QED
  BY <1>4, <1>6, <1>7, <1>8 DEF AfterKind

(* The length, low byte first *)
LEMMA LengthIsNat ==
    ASSUME NEW f \in Seq(Cell)
    PROVE  FromBytes(f) \in Nat
<1>1. CASE Len(f) = 0
  BY <1>1 DEF FromBytes
<1>2. CASE Len(f) >= 1
  <2>1. 1 \in 1 .. Len(f) /\ f[1] \in Cell
    BY <1>2
  <2>2. f[1].v \in Nat
    BY <2>1 DEF Cell
  <2>3. Len(f) = 2 => f[2].v \in Nat
    <3>1. ASSUME Len(f) = 2 PROVE f[2] \in Cell
      BY <3>1
    <3> QED
      BY <3>1 DEF Cell
  <2> QED
    BY <1>2, <2>2, <2>3 DEF FromBytes
<1>3. Len(f) \in Nat
  OBVIOUS
<1> QED
  BY <1>1, <1>2, <1>3

LEMMA LengthOf ==
    ASSUME NEW q \in Seq(Packet), NEW n \in 1 .. Len(q), NEW p \in {"oled", "pwm"}, q[n].kind = p,
           NEW f \in Seq(Cell), Len(f) = SizeOf(p), IsPart(f, Code(q, n), 3)
    PROVE  FromBytes(f) = Len(q[n].data)
<1>1. CASE p = "oled"
  <2>1. Len(f) = 2
    BY <1>1 DEF SizeOf
  <2>2. 1 \in 1 .. Len(f) /\ 2 \in 1 .. Len(f) /\ 3 + 1 - 1 = 3 /\ 3 + 2 - 1 = 4
    BY <2>1
  <2>3. f[1] = Code(q, n)[3] /\ f[2] = Code(q, n)[4]
    BY <2>2 DEF IsPart
  <2>4. Code(q, n)[3].v + 256 * Code(q, n)[4].v = Len(q[n].data)
    BY <1>1, FramedOled
  <2> QED
    BY <2>1, <2>3, <2>4 DEF FromBytes
<1>2. CASE p = "pwm"
  <2>1. Len(f) = 1
    BY <1>2 DEF SizeOf
  <2>2. 1 \in 1 .. Len(f) /\ 3 + 1 - 1 = 3
    BY <2>1
  <2>3. f[1] = Code(q, n)[3]
    BY <2>2 DEF IsPart
  <2>4. Code(q, n)[3].v = Len(q[n].data)
    BY <1>2, FramedPwm
  <2>5. Len(q[n].data) \in Nat
    <3>1. q[n] \in Packet
      OBVIOUS
    <3> QED
      BY <3>1, PacketData
  <2> QED
    BY <2>1, <2>3, <2>4, <2>5 DEF FromBytes
<1> QED
  BY <1>1, <1>2

(* A packet is its payload behind the length *)
LEMMA Framing2 ==
    ASSUME NEW q \in Seq(Packet), NEW n \in 1 .. Len(q), NEW p \in {"oled", "pwm"}, q[n].kind = p
    PROVE  /\ SizeOf(p) \in {1, 2} /\ q[n].data \in Seq(Nat) /\ Len(q[n].data) \in Nat
           /\ Len(Code(q, n)) = SizeOf(p) + 2 + Len(q[n].data)
<1>1. q[n].data \in Seq(Nat) /\ Len(q[n].data) \in Nat
  <2>1. q[n] \in Packet
    OBVIOUS
  <2> QED
    BY <2>1, PacketData
<1>2. CASE p = "oled"
  <2>1. Len(Code(q, n)) = 4 + Len(q[n].data)
    BY <1>2, FramedOled
  <2> QED
    BY <1>1, <1>2, <2>1 DEF SizeOf
<1>3. CASE p = "pwm"
  <2>1. Len(Code(q, n)) = 3 + Len(q[n].data)
    BY <1>3, FramedPwm
  <2> QED
    BY <1>1, <1>3, <2>1 DEF SizeOf
<1> QED
  BY <1>2, <1>3

LosesPlace(f, p, l2, longest, sl, to, sl2, to2) ==
    /\ sl2 <=> (sl \/ Len(f) < SizeOf(p) \/ l2 > longest)
    /\ to2 <=> (to \/ Len(f) \in 1 .. SizeOf(p) - 1)

AfterLength(q, t, p, l2, longest, sl2, to2) ==
    /\ l2 \in 1 .. longest => Synced(q, t, "data", p, l2, sl2, to2)
    /\ l2 \notin 1 .. longest => Synced(q, t, "top", p, l2, sl2, to2)

LEMMA LengthRead ==
    ASSUME NEW q \in Seq(Packet), NEW s \in Seq(Cell), NEW t, NEW d, NEW f,
           NEW p \in {"oled", "pwm"}, Gives(s, t, SizeOf(p), d, f),
           NEW l, NEW sl \in BOOLEAN, NEW to \in BOOLEAN, Synced(q, s, "length", p, l, sl, to),
           NEW l2, l2 = FromBytes(f), NEW longest \in Nat,
           NEW sl2 \in BOOLEAN, NEW to2 \in BOOLEAN, LosesPlace(f, p, l2, longest, sl, to, sl2, to2)
    PROVE  AfterLength(q, t, p, l2, longest, sl2, to2)
<1>9. /\ sl2 <=> (sl \/ Len(f) < SizeOf(p) \/ l2 > longest)
      /\ to2 <=> (to \/ Len(f) \in 1 .. SizeOf(p) - 1)
  BY DEF LosesPlace
<1>1. Genuine(q, s) /\ (~sl \/ ~to => Whole(q, s)) /\ (Tame(q, sl, to) => Position(q, s, "length", p, l))
  BY DEF Synced
<1>2. t \in Seq(Cell) /\ Genuine(q, t)
  BY <1>1, GivenGenuine
<1>3. ~sl2 \/ ~to2 => Whole(q, t)
  <2>1. ~sl \/ ~to => Whole(q, t)
    BY <1>1, GivenGenuine
  <2> QED
    BY <1>9, <2>1
<1>4. f \in Seq(Cell) /\ Len(f) \in {0, d} /\ d <= SizeOf(p) /\ d \in Nat /\ (d = SizeOf(p) => Len(f) = SizeOf(p))
  <2>1. d \in 0 .. Len(s) /\ Len(s) \in Nat
    BY DEF Gives
  <2> QED
    BY <2>1 DEF Gives
<1>5. l2 \in Nat /\ SizeOf(p) \in {1, 2}
  BY <1>4, LengthIsNat DEF SizeOf
<1>6. ASSUME Tame(q, sl, to), Len(f) = SizeOf(p)
      PROVE  \E n \in 1 .. Len(q) : q[n].kind = p /\ l2 = Len(q[n].data) /\ Goes(q, t, 1, n, SizeOf(p) + 3)
  <2>1. PICK n \in 1 .. Len(q) : q[n].kind = p /\ Goes(q, s, 1, n, 3)
    BY <1>1, <1>6 DEF Position
  <2>2. Len(Code(q, n)) = SizeOf(p) + 2 + Len(q[n].data) /\ Len(q[n].data) \in Nat
    BY <2>1, Framing2
  <2>3. SizeOf(p) <= Len(Code(q, n)) + 1 - 3 /\ SizeOf(p) \in Nat
    BY <1>5, <2>2, SMTT(30)
  <2>4. d = SizeOf(p) /\ 3 + d = SizeOf(p) + 3
    <3>1. Len(f) # 0
      BY <1>5, <1>6
    <3>2. d = SizeOf(p)
      BY <1>4, <1>6, <3>1
    <3> QED
      BY <1>5, <3>2
  <2>5. Goes(q, t, 1, n, 3 + d)
    BY <2>1, <2>3, GivenPart
  <2>6. IsPart(f, Code(q, n), 3)
    BY <2>1, <2>3, GivenPart
  <2>7. FromBytes(f) = Len(q[n].data)
    BY <1>4, <1>6, <2>1, <2>6, LengthOf
  <2> QED
    BY <2>1, <2>4, <2>5, <2>7
<1>7. ASSUME l2 \in 1 .. longest PROVE Synced(q, t, "data", p, l2, sl2, to2)
  <2>1. ASSUME Tame(q, sl2, to2) PROVE Position(q, t, "data", p, l2)
    <3>1. Len(f) # 0
      <4> SUFFICES ASSUME Len(f) = 0 PROVE FALSE
        OBVIOUS
      <4>1. FromBytes(f) = 0
        BY DEF FromBytes
      <4> QED
        BY <1>7, <4>1
    <3>2. Len(f) = SizeOf(p)
      <4> SUFFICES ASSUME Len(f) # SizeOf(p) PROVE FALSE
        OBVIOUS
      <4>1. Len(f) \in 1 .. SizeOf(p) - 1 /\ Len(f) < SizeOf(p)
        BY <1>4, <1>5, <3>1
      <4> QED
        BY <1>9, <2>1, <4>1 DEF Tame
    <3>3. Tame(q, sl, to)
      BY <1>9, <2>1 DEF Tame
    <3>4. \E n \in 1 .. Len(q) : q[n].kind = p /\ l2 = Len(q[n].data) /\ Goes(q, t, 1, n, SizeOf(p) + 3)
      BY <1>6, <3>2, <3>3
    <3> QED
      BY <3>4 DEF Position
  <2> QED
    BY <1>2, <1>3, <2>1 DEF Synced, Busy
<1>8. ASSUME l2 \notin 1 .. longest PROVE Synced(q, t, "top", p, l2, sl2, to2)
  <2>1. ASSUME ~sl2 PROVE StartsHere(t)
    <3>1. ~sl /\ Len(f) = SizeOf(p) /\ l2 = 0
      BY <1>4, <1>5, <1>8, <1>9, <2>1
    <3>2. PICK n \in 1 .. Len(q) : q[n].kind = p /\ l2 = Len(q[n].data) /\ Goes(q, t, 1, n, SizeOf(p) + 3)
      BY <1>6, <3>1 DEF Tame
    <3>3. Len(Code(q, n)) = SizeOf(p) + 2 + Len(q[n].data)
      BY <3>2, Framing2
    <3>4. SizeOf(p) + 3 = Len(Code(q, n)) + 1
      BY <1>5, <3>1, <3>2, <3>3
    <3> QED
      BY <1>2, <3>2, <3>4, PacketEnds
  <2>2. "top" \notin Busy
    BY DEF Busy
  <2> QED
    BY <1>2, <1>3, <2>1, <2>2, SyncedOutside
<1> QED
  BY <1>7, <1>8 DEF AfterLength

(* The payload *)
AllOf(q, f, l, p) ==
    \E n \in 1 .. Len(q) :
        /\ q[n].kind = p /\ Len(q[n].data) = l /\ q[n].data \in Seq(Nat)
        /\ \A x \in 1 .. l : f[x].of = n /\ f[x].v = q[n].data[x]
Short(f, l, sl, sl2) == sl2 <=> (sl \/ Len(f) < l)
AfterData(q, t, f, l, p, sl2, to) ==
    /\ \A c \in Labels \ Busy : \A p2, l2 : Synced(q, t, c, p2, l2, sl2, to)
    /\ Len(f) = l /\ ~to /\ ~Hides(q) => AllOf(q, f, l, p)

LEMMA DataRead ==
    ASSUME NEW q \in Seq(Packet), NEW s \in Seq(Cell), NEW t, NEW l \in Nat, NEW d, NEW f,
           Gives(s, t, l, d, f), NEW p \in {"oled", "pwm"},
           NEW sl, NEW to, Synced(q, s, "data", p, l, sl, to),
           NEW sl2, Short(f, l, sl, sl2)
    PROVE  AfterData(q, t, f, l, p, sl2, to)
<1>8. sl2 <=> (sl \/ Len(f) < l)
  BY DEF Short
<1>1. Genuine(q, s) /\ (~sl \/ ~to => Whole(q, s)) /\ (Tame(q, sl, to) => Position(q, s, "data", p, l))
  BY DEF Synced
<1>2. t \in Seq(Cell) /\ Genuine(q, t)
  BY <1>1, GivenGenuine
<1>3. ~sl2 \/ ~to => Whole(q, t)
  <2>1. ~sl \/ ~to => Whole(q, t)
    BY <1>1, GivenGenuine
  <2> QED
    BY <1>8, <2>1
<1>4. f \in Seq(Cell) /\ Len(f) \in {0, d} /\ d <= l /\ d \in Nat
  <2>1. d \in 0 .. Len(s) /\ Len(s) \in Nat
    BY DEF Gives
  <2> QED
    BY <2>1 DEF Gives
<1>5. ASSUME Tame(q, sl, to), Len(f) = l
      PROVE  StartsHere(t) /\ AllOf(q, f, l, p)
  <2>1. PICK n \in 1 .. Len(q) : q[n].kind = p /\ l = Len(q[n].data) /\ Goes(q, s, 1, n, SizeOf(p) + 3)
    BY <1>1, <1>5 DEF Position
  <2>2. SizeOf(p) \in {1, 2} /\ Len(Code(q, n)) = SizeOf(p) + 2 + l /\ q[n].data \in Seq(Nat)
    BY <2>1, Framing2
  <2>3. l <= Len(Code(q, n)) + 1 - (SizeOf(p) + 3)
    BY <2>2
  <2>4. d = l
    BY <1>4, <1>5
  <2>5. Goes(q, t, 1, n, SizeOf(p) + 3 + d)
    BY <2>1, <2>3, GivenPart
  <2>6. SizeOf(p) + 3 + d = Len(Code(q, n)) + 1
    BY <2>2, <2>4
  <2>7. StartsHere(t)
    BY <1>2, <2>5, <2>6, PacketEnds
  <2>8. IsPart(f, Code(q, n), SizeOf(p) + 3)
    <3>1. PICK j : j = SizeOf(p) + 3
      OBVIOUS
    <3>2. Goes(q, s, 1, n, j) /\ l <= Len(Code(q, n)) + 1 - j
      BY <2>1, <2>3, <3>1
    <3>3. IsPart(f, Code(q, n), j)
      BY <3>2, GivenPart
    <3> QED
      BY <3>1, <3>3
  <2>9. ASSUME NEW x \in 1 .. l PROVE f[x].of = n /\ f[x].v = q[n].data[x]
    <3>1. /\ SizeOf(p) + 3 + x - 1 \in 1 .. Len(Code(q, n))
          /\ f[x] = Code(q, n)[SizeOf(p) + 3 + x - 1]
      BY <1>5, <2>8 DEF IsPart
    <3>2. f[x].of = n
      BY <3>1, CodeIs
    <3>3. SizeOf(p) + 3 + x - 1 = SizeOf(p) + 2 + x /\ x \in 1 .. Len(q[n].data)
      BY <2>1, <2>2
    <3>4. f[x].v = q[n].data[x]
      <4>1. CASE p = "oled"
        <5>1. f[x] = Code(q, n)[4 + x]
          BY <2>2, <3>1, <3>3, <4>1 DEF SizeOf
        <5>4. q[n].kind = "oled"
          BY <2>1, <4>1
        <5>3. BytesAre(Code(q, n), 4, q[n].data)
          BY <5>4, FramedOled
        <5>2. Code(q, n)[4 + x].v = q[n].data[x]
          BY <3>3, <5>3 DEF BytesAre
        <5> QED
          BY <5>1, <5>2
      <4>2. CASE p = "pwm"
        <5>1. f[x] = Code(q, n)[3 + x]
          BY <2>2, <3>1, <3>3, <4>2 DEF SizeOf
        <5>4. q[n].kind = "pwm"
          BY <2>1, <4>2
        <5>3. BytesAre(Code(q, n), 3, q[n].data)
          BY <5>4, FramedPwm
        <5>2. Code(q, n)[3 + x].v = q[n].data[x]
          BY <3>3, <5>3 DEF BytesAre
        <5> QED
          BY <5>1, <5>2
      <4> QED
        BY <4>1, <4>2
    <3> QED
      BY <3>2, <3>4
  <2> QED
    BY <2>1, <2>2, <2>7, <2>9 DEF AllOf
<1>6. ASSUME NEW c \in Labels \ Busy, NEW p2, NEW l2 PROVE Synced(q, t, c, p2, l2, sl2, to)
  <2>1. ASSUME ~sl2 PROVE StartsHere(t)
    <3>1. ~sl /\ Len(f) = l
      BY <1>4, <1>8, <2>1
    <3> QED
      BY <1>5, <3>1 DEF Tame
  <2> QED
    BY <1>2, <1>3, <1>6, <2>1, SyncedOutside
<1>7. ASSUME Len(f) = l, ~to, ~Hides(q)
      PROVE  AllOf(q, f, l, p)
  BY <1>5, <1>7 DEF Tame
<1> QED
  BY <1>6, <1>7 DEF AfterData

(* No byte that is taken inside a packet starts one *)
LEMMA NoHeader ==
    ASSUME NEW q \in Seq(Packet), NEW s \in Seq(Cell), NEW t, NEW n \in Nat, NEW d, NEW f,
           Gives(s, t, n, d, f), NEW i, NEW j, Goes(q, s, 1, i, j), j >= 2,
           n <= Len(Code(q, i)) + 1 - j, NEW k \in 1 .. Len(s) - Len(t)
    PROVE  ~s[k].first
<1> DEFINE w == Code(q, i)
<1>1. /\ i \in 1 .. Len(q) /\ j \in 1 .. Len(w) + 1 /\ \A x \in j .. Len(w) : s[1 + x - j] = w[x]
  BY DEF Goes
<1>2. Len(w) \in Nat
  BY <1>1, CodeIs
<1>3. d \in 0 .. Len(s) /\ d <= n /\ t = Without(s, d)
  BY DEF Gives
<1>4. Len(t) = Len(s) - d
  BY <1>3, WithoutIs
<1>5. k \in Nat /\ k >= 1 /\ k <= n
  BY <1>3, <1>4
<1>6. \A x \in 1 .. Len(w) : w[x].first <=> x = 1
  BY <1>1, CodeIs
<1> HIDE DEF w
<1>7. n <= Len(w) + 1 - j /\ j \in Nat
  BY <1>1, <1>2 DEF w
<1>8. j + k - 1 \in j .. Len(w) /\ j + k - 1 \in 1 .. Len(w) /\ 1 + (j + k - 1) - j = k /\ j + k - 1 # 1
  BY <1>2, <1>5, <1>7
<1>9. s[k] = w[j + k - 1]
  BY <1>1, <1>8
<1> QED
  BY <1>6, <1>8, <1>9

-----------------------------------------------------------------------------
(* The invariant of the stream *)
StreamInv ==
    /\ sent \in Seq(Packet) /\ readfifo \in Seq(Cell) /\ coming \in Seq(Cell)
    /\ slipped \in BOOLEAN /\ torn \in BOOLEAN /\ length \in Nat
    /\ pc \in Labels /\ port \in Ports
    /\ pc \in {"length", "data"} => port \in {"oled", "pwm"}
    /\ pc = "data" => length \in 1 .. Longest
    /\ Synced(sent, Rest, pc, port, length, slipped, torn)

(* What a step may do to the stream *)
Still == UNCHANGED <<sent, readfifo, coming, slipped, torn, pc, port, length>>
Elsewhere ==
    /\ UNCHANGED <<sent, readfifo, coming, slipped, torn, length>>
    /\ pc \notin Busy /\ pc' \in Labels \ Busy /\ port' \in Ports
Begins ==
    /\ pc = "top" /\ pc' = "first" /\ length' = 0 /\ port' = "raw"
    /\ slipped' = (slipped /\ Rest # <<>>)
    /\ UNCHANGED <<sent, readfifo, coming, torn>>
Extends ==
    /\ \E packet \in Packet :
         /\ sent' = Append(sent, packet)
         /\ coming' = coming \o Bytes(Len(sent) + 1, Values(packet))
    /\ UNCHANGED <<readfifo, slipped, torn, pc, port, length>>
Fails ==
    /\ pc \in {"first", "kind", "length", "data"} /\ pc' = "sleep" /\ length' = 0
    /\ \E k \in Arrivals(Size) :
         readfifo' = Taken(k) /\ coming' = SubSeq(coming, k + 1, Len(coming))
    /\ slipped' = (slipped \/ pc # "first")
    /\ UNCHANGED <<sent, torn, port>>
Again ==
    /\ pc = "sleep" /\ pc' = "top"
    /\ \E k \in 0 .. Len(coming) :
         /\ coming' = SubSeq(coming, k + 1, Len(coming))
         /\ slipped' = (slipped \/ k > 0)
         /\ torn' = (torn \/ (k > 0 /\ readfifo # <<>>))
    /\ UNCHANGED <<sent, readfifo, port, length>>
First == ReadFirst("top") \/ ReadFirst("sleep")
Kind == ReadKind("top", "top") \/ ReadKind("top", "serve") \/ ReadKind("serve", "serve")
Payload == ReadData("put") \/ ReadData("sleep")

LEMMA FramingDoes ==
    ASSUME Decode(Framing) \/ StEp(StFraming) \/ StEp(EpFraming)
    PROVE  First \/ Kind \/ ReadLength \/ Payload \/ Again
<1>1. ASSUME Reopen PROVE Again
  BY <1>1 DEF Reopen, Again, Goto
<1>2. CASE Decode(Framing)
  <2>1. \/ ReadFirst(IF Full("raw") THEN "top" ELSE "sleep") \/ ReadKind("top", "top")
        \/ ReadLength \/ ReadData("put") \/ Reopen
    BY <1>2 DEF Decode, Framing
  <2>2. ReadFirst(IF Full("raw") THEN "top" ELSE "sleep") => First
    BY DEF First
  <2> QED
    BY <1>1, <2>1, <2>2 DEF Kind, Payload
<1>3. CASE StEp(StFraming)
  BY <1>1, <1>3 DEF StEp, StFraming, First, Kind, Payload
<1>4. CASE StEp(EpFraming)
  BY <1>1, <1>4 DEF StEp, EpFraming, First, Kind, Payload
<1> QED
  BY <1>2, <1>3, <1>4

LEMMA StreamSteps ==
    ASSUME Next, port \in Ports, pc \in Labels
    PROVE  \/ Still \/ Elsewhere \/ Begins \/ Extends \/ Fails \/ Again
           \/ First \/ Kind \/ ReadLength \/ Payload
<1> USE DEF Goto, stream, serial, board, clients
<1>1. CASE Decode(TakeCommand)
  BY <1>1 DEF Decode, TakeCommand, Begins
<1>2. CASE Decode(PutItem)
  BY <1>2 DEF Decode, PutItem, Elsewhere, Labels, Busy
<1>3. CASE \E p \in Ports :
              \/ Decode(Select(p)) \/ Decode(Accept(p))
              \/ Decode(Recv(p)) \/ Decode(RecvFails(p)) \/ Decode(PutCommands(p))
              \/ Decode(GetItem(p)) \/ Decode(Send(p))
  <2>1. PICK p \in Ports : \/ Select(p) \/ Accept(p) \/ Recv(p) \/ RecvFails(p) \/ PutCommands(p)
                           \/ GetItem(p) \/ Send(p)
    BY <1>3 DEF Decode
  <2>2. UNCHANGED Others
    BY <2>1 DEF Select, Accept, Recv, RecvFails, PutCommands, GetItem, Send
  <2> QED
    BY <2>2 DEF Others, Still
<1>4. CASE Decode(MainEnds)
  BY <1>4 DEF Decode, MainEnds, Others, Still
<1>5. CASE StEp(Start)
  BY <1>5 DEF StEp, Start, Begins
<1>6. CASE Decode(Framing) \/ StEp(StFraming) \/ StEp(EpFraming)
  BY <1>6, FramingDoes
<1>7. CASE StEp(AppendItem)
  BY <1>7 DEF StEp, AppendItem, Elsewhere, Labels, Busy, Ports
<1>8. CASE StEp(Raises)
  BY <1>8 DEF StEp, Raises, Elsewhere, Labels, Busy
<1>9. ASSUME Onwards PROVE pc' \in Labels \ Busy /\ port' \in Ports
  BY <1>9 DEF Onwards, NextPort, Ports, Labels, Busy
<1>10. ASSUME Return PROVE pc' \in Labels \ Busy /\ port' \in Ports
  BY <1>9, <1>10 DEF Return
<1>11. CASE StEp(SkipPort)
  BY <1>9, <1>11 DEF StEp, SkipPort, Quiet, Elsewhere, Busy
<1>12. CASE StEp(Poll)
  <2>1. pc = "serve" /\ UNCHANGED Quiet /\ (Return \/ (pc' = "handle" /\ UNCHANGED port))
    BY <1>12 DEF StEp, Poll
  <2> QED
    BY <1>10, <2>1 DEF Quiet, Elsewhere, Busy, Labels
<1>13. CASE StEp(AcceptOne)
  BY <1>13 DEF StEp, AcceptOne, Quiet, Elsewhere, Busy
<1>14. CASE StEp(RecvRaises)
  BY <1>10, <1>14 DEF StEp, RecvRaises, Quiet, Elsewhere, Busy
<1>15. CASE StEp(StRecv)
  BY <1>15 DEF StEp, StRecv, Quiet, Elsewhere, Busy
<1>16. CASE StEp(StSend)
  BY <1>10, <1>16 DEF StEp, StSend, Quiet, Elsewhere, Busy
<1>17. CASE StEp(EpHangUp)
  BY <1>17 DEF StEp, EpHangUp, Quiet, Elsewhere, Busy
<1>18. CASE StEp(EpRecvSend)
  BY <1>18 DEF StEp, EpRecvSend, Quiet, Elsewhere, Busy
<1>19. CASE StEp(EpReturn)
  BY <1>10, <1>19 DEF StEp, EpReturn, Quiet, Elsewhere, Busy
<1>20. CASE StEp(WriteCommands)
  BY <1>20 DEF StEp, WriteCommands, Elsewhere, Labels, Busy
<1>21. CASE Around(BoardSends)
  BY <1>21 DEF Around, BoardSends, Extends
<1>22. CASE Around(ReadFails)
  BY <1>22 DEF Around, ReadFails, Fails
<1>23. CASE Around(PicoEnds)
  BY <1>23 DEF Around, PicoEnds, Elsewhere, Labels, Busy
<1>24. CASE \E c \in Clients :
              Served(c) /\ (Around(Connect(c)) \/ Around(SendCommand(c)) \/ Around(Leave(c)))
  <2>1. UNCHANGED Client
    BY <1>24 DEF Around, Connect, SendCommand, Leave
  <2> QED
    BY <2>1 DEF Client, Still
<1> QED
  BY <1>1, <1>2, <1>3, <1>4, <1>5, <1>6, <1>7, <1>8, <1>11, <1>12, <1>13, <1>14, <1>15, <1>16,
     <1>17, <1>18, <1>19, <1>20, <1>21, <1>22, <1>23, <1>24 DEF Next

(* A read takes bytes in order *)
LEMMA ReadGives ==
    ASSUME readfifo \in Seq(Cell), coming \in Seq(Cell), NEW n \in Nat,
           NEW k \in Arrivals(n), MyRead(k, n)
    PROVE  /\ readfifo' \in Seq(Cell) /\ coming' \in Seq(Cell)
           /\ \E d : Gives(Rest, Rest', n, d, Read(k, n))
           /\ Taken(k) = <<>> => Read(k, n) = <<>>
           /\ n >= 1 /\ Read(k, 1) = <<>> => Taken(k) = <<>>
<1> DEFINE t == Taken(k)
           f == Read(k, n)
<1>1. k \in 0 .. Len(coming) /\ Stock(readfifo, coming, k, t)
  BY DEF Arrivals, Stock, Taken
<1>2. t \in Seq(Cell)
  BY <1>1, StockIs
<1>3. /\ readfifo' = SubSeq(t, n + 1, Len(t)) /\ coming' = SubSeq(coming, k + 1, Len(coming))
  BY DEF MyRead
<1>4. f = IF program = "ep" THEN (IF n <= Len(t) THEN SubSeq(t, 1, n) ELSE <<>>)
          ELSE SubSeq(t, 1, IF n < Len(t) THEN n ELSE Len(t))
  BY DEF Read, EpRead
<1>5. Read(k, 1) = IF program = "ep" THEN (IF 1 <= Len(t) THEN SubSeq(t, 1, 1) ELSE <<>>)
                   ELSE SubSeq(t, 1, IF 1 < Len(t) THEN 1 ELSE Len(t))
  BY DEF Read, EpRead
<1> HIDE DEF t, f
<1>6. PICK d : d = IF n < Len(t) THEN n ELSE Len(t)
  OBVIOUS
<1>18. TakesFirst(readfifo, coming, k, t, n, d)
  BY <1>1, <1>6, ReadTakes
<1>7. /\ d \in 0 .. Len(readfifo \o coming) /\ d <= n /\ d <= Len(t)
      /\ SubSeq(t, n + 1, Len(t)) \in Seq(Cell) /\ SubSeq(coming, k + 1, Len(coming)) \in Seq(Cell)
  BY <1>18 DEF TakesFirst
<1>8. SubSeq(t, n + 1, Len(t)) \o SubSeq(coming, k + 1, Len(coming)) = Without(readfifo \o coming, d)
  BY <1>18 DEF TakesFirst
<1>9. SubSeq(t, 1, d) \in Seq(Cell) /\ Len(SubSeq(t, 1, d)) = d
  BY <1>18 DEF TakesFirst
<1>10. \A x \in 1 .. d : SubSeq(t, 1, d)[x] = (readfifo \o coming)[x]
  BY <1>18 DEF TakesFirst
<1>11. readfifo' \in Seq(Cell) /\ coming' \in Seq(Cell) /\ Rest' = Without(Rest, d)
  BY <1>3, <1>7, <1>8 DEF Rest
<1>12. Len(t) \in Nat
  BY <1>2
<1>13. f = SubSeq(t, 1, d) \/ (f = <<>> /\ d # n)
  <2>1. CASE n <= Len(t)
    <3>1. d = n
      BY <1>6, <1>12, <2>1
    <3>2. f = SubSeq(t, 1, n)
      BY <1>4, <1>6, <2>1, <3>1
    <3> QED
      BY <3>1, <3>2
  <2>2. CASE ~(n <= Len(t))
    <3>1. d # n /\ ~(n < Len(t)) /\ d = Len(t)
      BY <1>6, <1>12, <2>2
    <3>2. f = <<>> \/ f = SubSeq(t, 1, Len(t))
      BY <1>4, <2>2, <3>1
    <3> QED
      BY <3>1, <3>2
  <2> QED
    BY <2>1, <2>2
<1>14. f \in Seq(Cell) /\ Len(f) \in {0, d} /\ (d = n => Len(f) = n) /\ \A x \in 1 .. Len(f) : f[x] = Rest[x]
  <2>1. CASE f = SubSeq(t, 1, d)
    BY <1>9, <1>10, <2>1 DEF Rest
  <2>2. CASE f = <<>> /\ d # n
    BY <2>2
  <2> QED
    BY <1>13, <2>1, <2>2
<1>15. Gives(Rest, Rest', n, d, f)
  <2>1. d \in 0 .. Len(Rest) /\ d <= n
    BY <1>7 DEF Rest
  <2> QED
    BY <1>11, <1>14, <2>1 DEF Gives
<1>16. ASSUME t = <<>> PROVE f = <<>>
  <2>1. d = 0
    BY <1>2, <1>7, <1>12, <1>16
  <2>2. f \in Seq(Cell) /\ Len(f) = 0
    BY <1>14, <2>1
  <2> QED
    BY <2>2
<1>17. ASSUME t # <<>> PROVE Read(k, 1) # <<>>
  <2>1. Len(t) >= 1
    BY <1>2, <1>12, <1>17
  <2>2. Read(k, 1) = SubSeq(t, 1, 1)
    <3>1. CASE 1 < Len(t)
      BY <1>5, <2>1, <3>1
    <3>2. CASE Len(t) = 1
      BY <1>5, <2>1, <3>2
    <3>4. \A m \in Nat : m >= 1 => 1 < m \/ m = 1
      OBVIOUS
    <3>3. 1 < Len(t) \/ Len(t) = 1
      BY <1>12, <2>1, <3>4
    <3> QED
      BY <3>1, <3>2, <3>3
  <2>3. Len(SubSeq(t, 1, 1)) = 1
    BY <1>2, <2>1
  <2> QED
    BY <2>2, <2>3
<1> QED
  BY <1>11, <1>15, <1>16, <1>17 DEF t, f

LEMMA InPacketType ==
    ASSUME port \in {"oled", "pwm"}
    PROVE  Size = SizeOf(port) /\ Size \in {1, 2} /\ Longest \in Nat
  BY HostAssumption DEF Size, SizeOf, Longest

LEMMA StreamFirst ==
    ASSUME StreamInv, First
    PROVE  StreamInv'
<1>1. PICK silent \in {"top", "sleep"} : ReadFirst(silent)
  BY DEF First
<1>2. PICK k \in Arrivals(1) :
         /\ MyRead(k, 1)
         /\ \/ Read(k, 1) = <<>> /\ Goto(silent) /\ UNCHANGED <<port, todo>>
            \/ Is(Read(k, 1), SO) /\ Goto("kind") /\ UNCHANGED <<port, todo>>
            \/ /\ Read(k, 1) # <<>> /\ ~Is(Read(k, 1), SO)
               /\ Goto("put") /\ port' = "raw"
  BY <1>1 DEF ReadFirst
<1>3. pc = "first" /\ UNCHANGED <<length, slipped, torn>>
  BY <1>1 DEF ReadFirst
<1>4. /\ sent \in Seq(Packet) /\ readfifo \in Seq(Cell) /\ coming \in Seq(Cell)
      /\ slipped \in BOOLEAN /\ torn \in BOOLEAN /\ length \in Nat /\ port \in Ports
  BY DEF StreamInv
<1>5. Synced(sent, Rest, "first", port, length, slipped, torn)
  BY <1>3 DEF StreamInv
<1>6. 1 \in Nat /\ Rest \in Seq(Cell)
  BY <1>4, Joined DEF Rest
<1>7. readfifo' \in Seq(Cell) /\ coming' \in Seq(Cell)
  BY <1>2, <1>4, <1>6, ReadGives
<1>8. PICK d : Gives(Rest, Rest', 1, d, Read(k, 1))
  BY <1>2, <1>4, <1>6, ReadGives
<1>9. sent' = sent
  BY <1>2 DEF MyRead
<1> DEFINE f == Read(k, 1)
<1>10. \A p, l : f = <<>> \/ ~Is(f, SO) => \A c \in Labels \ Busy : Synced(sent, Rest', c, p, l, slipped, torn)
  BY <1>4, <1>5, <1>6, <1>8, FirstRead
<1>11. \A p, l : Is(f, SO) => Synced(sent, Rest', "kind", p, l, slipped, torn)
  BY <1>4, <1>5, <1>6, <1>8, FirstRead
<1> HIDE DEF f
<1>12. /\ Synced(sent, Rest', pc', port', length', slipped, torn)
       /\ pc' \in Labels \ {"length", "data"} /\ port' \in Ports
  <2>1. CASE f = <<>> /\ pc' = silent /\ port' = port
    <3>1. silent \in Labels \ Busy /\ silent \in Labels \ {"length", "data"}
      BY DEF Busy, Labels
    <3> QED
      BY <1>4, <1>10, <2>1, <3>1
  <2>2. CASE Is(f, SO) /\ pc' = "kind" /\ port' = port
    <3>1. "kind" \in Labels \ {"length", "data"}
      BY DEF Labels
    <3> QED
      BY <1>4, <1>11, <2>2, <3>1
  <2>3. CASE ~Is(f, SO) /\ pc' = "put" /\ port' = "raw"
    <3>1. "put" \in Labels \ Busy /\ "put" \in Labels \ {"length", "data"} /\ "raw" \in Ports
      BY DEF Busy, Labels, Ports
    <3> QED
      BY <1>10, <2>3, <3>1
  <2> QED
    BY <1>2, <2>1, <2>2, <2>3 DEF Goto, f
<1> QED
  BY <1>3, <1>4, <1>7, <1>9, <1>12 DEF StreamInv

LEMMA StreamKind ==
    ASSUME StreamInv, Kind
    PROVE  StreamInv'
<1>1. PICK silent \in {"top", "serve"}, other \in {"top", "serve"} : ReadKind(silent, other)
  BY DEF Kind
<1>2. PICK k \in Arrivals(1) :
         /\ MyRead(k, 1)
         /\ \/ Read(k, 1) = <<>> /\ Goto(silent) /\ UNCHANGED port
            \/ Is(Read(k, 1), PICTURE) /\ Goto("length") /\ port' = "oled"
            \/ Is(Read(k, 1), DUTY) /\ Goto("length") /\ port' = "pwm"
            \/ /\ Read(k, 1) # <<>> /\ ~Is(Read(k, 1), PICTURE) /\ ~Is(Read(k, 1), DUTY)
               /\ Goto(other) /\ UNCHANGED port
         /\ slipped' = (slipped \/ Taken(k) = <<>>)
  BY <1>1 DEF ReadKind
<1>3. pc = "kind" /\ UNCHANGED <<length, torn>>
  BY <1>1 DEF ReadKind
<1>4. /\ sent \in Seq(Packet) /\ readfifo \in Seq(Cell) /\ coming \in Seq(Cell)
      /\ slipped \in BOOLEAN /\ torn \in BOOLEAN /\ length \in Nat /\ port \in Ports
  BY DEF StreamInv
<1>5. Synced(sent, Rest, "kind", port, length, slipped, torn)
  BY <1>3 DEF StreamInv
<1>6. 1 \in Nat /\ 1 >= 1 /\ Rest \in Seq(Cell)
  BY <1>4, Joined DEF Rest
<1>7. readfifo' \in Seq(Cell) /\ coming' \in Seq(Cell)
  BY <1>2, <1>4, <1>6, ReadGives
<1>8. PICK d : Gives(Rest, Rest', 1, d, Read(k, 1))
  BY <1>2, <1>4, <1>6, ReadGives
<1>9. sent' = sent
  BY <1>2 DEF MyRead
<1> DEFINE f == Read(k, 1)
<1>10. Taken(k) = <<>> <=> f = <<>>
  BY <1>2, <1>4, <1>6, ReadGives
<1>21. AfterKind(sent, Rest', f, port, length, slipped, torn)
  BY <1>4, <1>5, <1>6, <1>8, KindRead
<1>11. f = <<>> => \A c \in Labels \ Busy : Synced(sent, Rest', c, port, length, TRUE, torn)
  BY <1>21 DEF AfterKind
<1>12. Is(f, PICTURE) => Synced(sent, Rest', "length", "oled", length, slipped, torn)
  BY <1>21 DEF AfterKind
<1>13. Is(f, DUTY) => Synced(sent, Rest', "length", "pwm", length, slipped, torn)
  BY <1>21 DEF AfterKind
<1>14. f # <<>> /\ ~Is(f, PICTURE) /\ ~Is(f, DUTY)
         => \A c \in Labels \ Busy : Synced(sent, Rest', c, port, length, slipped, torn)
  BY <1>21 DEF AfterKind
<1>15. /\ silent \in Labels \ Busy /\ silent \notin {"length", "data"}
       /\ other \in Labels \ Busy /\ other \notin {"length", "data"}
  BY DEF Labels, Busy
<1>16. Is(f, PICTURE) \/ Is(f, DUTY) => f # <<>>
  BY DEF Is
<1> HIDE DEF f
<1>17. f = <<>> => slipped' = TRUE
  BY <1>2, <1>10
<1>18. f # <<>> => slipped' = slipped
  BY <1>2, <1>4, <1>10
<1>19. /\ Synced(sent, Rest', pc', port', length, slipped', torn)
       /\ pc' \in Labels /\ pc' # "data" /\ port' \in Ports /\ (pc' = "length" => port' \in {"oled", "pwm"})
  <2>1. CASE f = <<>> /\ pc' = silent /\ port' = port
    BY <1>4, <1>11, <1>15, <1>17, <2>1
  <2>2. CASE Is(f, PICTURE) /\ pc' = "length" /\ port' = "oled"
    <3>1. "length" \in Labels /\ "oled" \in Ports
      BY DEF Labels, Ports
    <3> QED
      BY <1>12, <1>16, <1>18, <2>2, <3>1
  <2>3. CASE Is(f, DUTY) /\ pc' = "length" /\ port' = "pwm"
    <3>1. "length" \in Labels /\ "pwm" \in Ports
      BY DEF Labels, Ports
    <3> QED
      BY <1>13, <1>16, <1>18, <2>3, <3>1
  <2>4. CASE f # <<>> /\ ~Is(f, PICTURE) /\ ~Is(f, DUTY) /\ pc' = other /\ port' = port
    BY <1>4, <1>14, <1>15, <1>18, <2>4
  <2> QED
    BY <1>2, <2>1, <2>2, <2>3, <2>4 DEF Goto, f
<1>20. slipped' \in BOOLEAN
  BY <1>4, <1>17, <1>18
<1> QED
  BY <1>3, <1>4, <1>7, <1>9, <1>19, <1>20 DEF StreamInv

LEMMA StreamLength ==
    ASSUME StreamInv, ReadLength
    PROVE  StreamInv'
<1>1. /\ pc = "length" /\ port' = port
  BY DEF ReadLength
<1>2. PICK k \in Arrivals(Size) :
         /\ MyRead(k, Size)
         /\ length' = FromBytes(Read(k, Size))
         /\ Goto(IF length' \in 1 .. Longest THEN "data" ELSE "top")
         /\ slipped' = (slipped \/ Len(Read(k, Size)) < Size \/ length' > Longest)
         /\ torn' = (torn \/ Len(Read(k, Size)) \in 1 .. Size - 1)
  BY DEF ReadLength
<1>3. /\ sent \in Seq(Packet) /\ readfifo \in Seq(Cell) /\ coming \in Seq(Cell)
      /\ slipped \in BOOLEAN /\ torn \in BOOLEAN /\ port \in {"oled", "pwm"} /\ port \in Ports
  BY <1>1 DEF StreamInv
<1>4. Synced(sent, Rest, "length", port, length, slipped, torn)
  BY <1>1 DEF StreamInv
<1>5. Size = SizeOf(port) /\ Size \in Nat /\ Longest \in Nat /\ Rest \in Seq(Cell)
  <2>1. Size = SizeOf(port) /\ Size \in {1, 2} /\ Longest \in Nat
    BY <1>3, InPacketType
  <2> QED
    BY <1>3, <2>1, Joined DEF Rest
<1> DEFINE f == Read(k, Size)
<1>6. readfifo' \in Seq(Cell) /\ coming' \in Seq(Cell)
  BY <1>2, <1>3, <1>5, ReadGives
<1>7. PICK d : Gives(Rest, Rest', Size, d, f)
  BY <1>2, <1>3, <1>5, ReadGives
<1>8. sent' = sent
  BY <1>2 DEF MyRead
<1> HIDE DEF f
<1>9. f \in Seq(Cell)
  BY <1>7 DEF Gives
<1>10. length' = FromBytes(f) /\ length' \in Nat
  BY <1>2, <1>9, LengthIsNat DEF f
<1>11. slipped' \in BOOLEAN /\ torn' \in BOOLEAN
  BY <1>2, <1>3
<1>12. slipped' <=> (slipped \/ Len(f) < SizeOf(port) \/ length' > Longest)
  BY <1>2, <1>5 DEF f
<1>13. torn' <=> (torn \/ Len(f) \in 1 .. SizeOf(port) - 1)
  BY <1>2, <1>5 DEF f
<1>14. Gives(Rest, Rest', SizeOf(port), d, f)
  BY <1>5, <1>7
<1>20. LosesPlace(f, port, length', Longest, slipped, torn, slipped', torn')
  BY <1>12, <1>13 DEF LosesPlace
<1>21. AfterLength(sent, Rest', port, length', Longest, slipped', torn')
  BY <1>3, <1>4, <1>5, <1>10, <1>11, <1>14, <1>20, LengthRead
<1>15. length' \in 1 .. Longest => Synced(sent, Rest', "data", port, length', slipped', torn')
  BY <1>21 DEF AfterLength
<1>16. length' \notin 1 .. Longest => Synced(sent, Rest', "top", port, length', slipped', torn')
  BY <1>21 DEF AfterLength
<1>17. Longest' = Longest
  BY <1>1 DEF Longest
<1>18. pc' = IF length' \in 1 .. Longest THEN "data" ELSE "top"
  BY <1>2 DEF Goto
<1>19. /\ Synced(sent, Rest', pc', port, length', slipped', torn')
       /\ pc' \in Labels /\ (pc' = "data" => length' \in 1 .. Longest)
  <2>1. CASE length' \in 1 .. Longest
    BY <1>15, <1>18, <2>1 DEF Labels
  <2>2. CASE length' \notin 1 .. Longest
    BY <1>16, <1>18, <2>2 DEF Labels
  <2> QED
    BY <2>1, <2>2
<1> QED
  BY <1>1, <1>3, <1>6, <1>8, <1>10, <1>11, <1>17, <1>19 DEF StreamInv

LEMMA StreamPayload ==
    ASSUME StreamInv, Payload
    PROVE  StreamInv'
<1>1. PICK picture \in {"put", "sleep"} : ReadData(picture)
  BY DEF Payload
<1>2. pc = "data" /\ length' = 0 /\ UNCHANGED <<port, torn>>
  BY <1>1 DEF ReadData
<1>3. PICK k \in Arrivals(length) :
         /\ MyRead(k, length)
         /\ slipped' = (slipped \/ Len(Read(k, length)) < length)
         /\ pc' \in {"top", "sleep", "put"}
  BY <1>1 DEF ReadData, Goto
<1>4. /\ sent \in Seq(Packet) /\ readfifo \in Seq(Cell) /\ coming \in Seq(Cell)
      /\ slipped \in BOOLEAN /\ torn \in BOOLEAN /\ port \in {"oled", "pwm"} /\ port \in Ports
      /\ length \in 1 .. Longest
  BY <1>2 DEF StreamInv
<1>5. Synced(sent, Rest, "data", port, length, slipped, torn)
  BY <1>2 DEF StreamInv
<1>6. length \in Nat \ {0} /\ length \in Nat /\ Rest \in Seq(Cell)
  <2>1. Longest \in Nat
    BY <1>4, InPacketType
  <2> QED
    BY <1>4, <2>1, Joined DEF Rest
<1> DEFINE f == Read(k, length)
<1>7. readfifo' \in Seq(Cell) /\ coming' \in Seq(Cell)
  BY <1>3, <1>4, <1>6, ReadGives
<1>8. PICK d : Gives(Rest, Rest', length, d, f)
  BY <1>3, <1>4, <1>6, ReadGives
<1>9. sent' = sent
  BY <1>3 DEF MyRead
<1>10. slipped' \in BOOLEAN /\ Short(f, length, slipped, slipped')
  BY <1>3, <1>4 DEF Short
<1> HIDE DEF f
<1>14. AfterData(sent, Rest', f, length, port, slipped', torn)
  BY <1>4, <1>5, <1>6, <1>8, <1>10, DataRead
<1>11. \A c \in Labels \ Busy : Synced(sent, Rest', c, port, length', slipped', torn)
  BY <1>14 DEF AfterData
<1>12. pc' \in Labels \ Busy
  BY <1>3 DEF Labels, Busy
<1>13. Synced(sent, Rest', pc', port, length', slipped', torn)
  BY <1>11, <1>12
<1> QED
  BY <1>2, <1>4, <1>7, <1>9, <1>10, <1>12, <1>13 DEF StreamInv, Busy

LEMMA StreamExtends ==
    ASSUME StreamInv, Extends
    PROVE  StreamInv'
<1>1. PICK packet \in Packet :
         /\ sent' = Append(sent, packet)
         /\ coming' = coming \o Bytes(Len(sent) + 1, Values(packet))
  BY DEF Extends
<1>2. UNCHANGED <<readfifo, slipped, torn, pc, port, length>>
  BY DEF Extends
<1>3. sent \in Seq(Packet) /\ readfifo \in Seq(Cell) /\ coming \in Seq(Cell) /\ Rest \in Seq(Cell)
  BY Joined DEF StreamInv, Rest
<1>4. sent' \in Seq(Packet) /\ Len(sent) + 1 \in 1 .. Len(sent') /\ sent'[Len(sent) + 1] = packet
  BY <1>1, <1>3
<1> DEFINE w == Code(sent', Len(sent) + 1)
<1>5. w = Bytes(Len(sent) + 1, Values(packet)) /\ w \in Seq(Cell)
  <2>1. w = Bytes(Len(sent) + 1, Values(packet))
    BY <1>4 DEF Code
  <2>2. w \in Seq(Cell)
    BY <1>4, CodeIs
  <2> QED
    BY <2>1, <2>2
<1>6. coming' = coming \o w
  BY <1>1, <1>5
<1> HIDE DEF w
<1>7. coming' \in Seq(Cell) /\ readfifo' \in Seq(Cell)
  BY <1>2, <1>3, <1>5, <1>6
<1>8. readfifo \o (coming \o w) = (readfifo \o coming) \o w
  BY <1>3, <1>5, SMTT(30)
<1>9. Rest' = Rest \o w
  BY <1>2, <1>6, <1>8 DEF Rest
<1>10. Sends(sent, Rest, packet, sent', Rest')
  BY <1>1, <1>9 DEF Sends, w
<1>11. Synced(sent, Rest, pc, port, length, slipped, torn)
  BY DEF StreamInv
<1>12. Synced(sent', Rest', pc, port, length, slipped, torn)
  BY <1>3, <1>10, <1>11, SyncedJoined
<1> QED
  BY <1>2, <1>4, <1>7, <1>12 DEF StreamInv, Longest

LEMMA Regrouped ==
    ASSUME NEW r \in Seq(Cell), NEW c \in Seq(Cell), NEW k \in 0 .. Len(c)
    PROVE  /\ r \o SubSeq(c, 1, k) \in Seq(Cell) /\ SubSeq(c, k + 1, Len(c)) \in Seq(Cell)
           /\ (r \o SubSeq(c, 1, k)) \o SubSeq(c, k + 1, Len(c)) = r \o c
<1>1. PICK t : Stock(r, c, k, t)
  BY DEF Stock
<1>2. PICK n \in Nat : n = 0
  OBVIOUS
<1>3. /\ t \in Seq(Cell) /\ Len(t) = Len(r) + k /\ r \o c \in Seq(Cell)
      /\ Len(r \o c) = Len(r) + Len(c)
      /\ \A x \in 1 .. Len(t) : t[x] = (r \o c)[x]
  BY <1>1, StockIs
<1> DEFINE e == Without(c, k)
<1>4. e \in Seq(Cell) /\ Len(e) = Len(c) - k /\ \A x \in 1 .. Len(c) - k : e[x] = c[x + k]
  BY WithoutIs
<1> HIDE DEF e
<1>10. t \in Seq(Cell) /\ e \in Seq(Cell)
  BY <1>3, <1>4
<1>5. t \o e \in Seq(Cell) /\ Len(t \o e) = Len(t) + Len(e)
  BY <1>10
<1>6. Len(r) \in Nat /\ Len(c) \in Nat /\ k \in Nat /\ k <= Len(c) /\ Len(t) \in Nat /\ Len(e) \in Nat
  BY <1>3, <1>4
<1>7. Len(t \o e) = Len(r \o c)
  BY <1>3, <1>4, <1>5, <1>6
<1>8. ASSUME NEW x \in 1 .. Len(t \o e) PROVE (t \o e)[x] = (r \o c)[x]
  <2>1. x \in Nat /\ x >= 1 /\ x <= Len(t) + Len(e)
    BY <1>5, <1>6
  <2>2. CASE x <= Len(t)
    <3>1. x \in 1 .. Len(t)
      BY <1>6, <2>1, <2>2
    <3>2. (t \o e)[x] = t[x]
      BY SMTT(30), <1>10, <3>1, Joined
    <3> QED
      BY <1>3, <3>1, <3>2
  <2>3. CASE x > Len(t)
    <3>1. PICK y : y = x - Len(t)
      OBVIOUS
    <3>2. y \in 1 .. Len(e) /\ y + Len(t) = x
      BY <1>6, <2>1, <2>3, <3>1
    <3>3. y + k \in 1 .. Len(c) /\ y \in 1 .. Len(c) - k /\ y + k + Len(r) = x
      BY <1>3, <1>4, <1>6, <3>2
    <3>4. (t \o e)[y + Len(t)] = e[y]
      BY SMTT(30), <1>10, <3>2, Joined
    <3>5. (r \o c)[y + k + Len(r)] = c[y + k]
      BY SMTT(30), <3>3, Joined
    <3> QED
      BY <1>4, <3>2, <3>3, <3>4, <3>5
  <2>4. x <= Len(t) \/ x > Len(t)
    BY <1>6, <2>1
  <2> QED
    BY <2>2, <2>3, <2>4
<1>9. t \o e = r \o c
  BY <1>3, <1>5, <1>7, <1>8, SameElements
<1> QED
  BY <1>1, <1>3, <1>4, <1>9 DEF Stock, e, Without

LEMMA StreamFails ==
    ASSUME StreamInv, Fails
    PROVE  StreamInv'
<1>1. PICK k \in Arrivals(Size) : readfifo' = Taken(k) /\ coming' = SubSeq(coming, k + 1, Len(coming))
  BY DEF Fails
<1>2. /\ pc \in {"first", "kind", "length", "data"} /\ pc' = "sleep" /\ length' = 0
      /\ slipped' = (slipped \/ pc # "first")
      /\ UNCHANGED <<sent, torn, port>>
  BY DEF Fails
<1>3. /\ sent \in Seq(Packet) /\ readfifo \in Seq(Cell) /\ coming \in Seq(Cell)
      /\ slipped \in BOOLEAN /\ torn \in BOOLEAN /\ port \in Ports
  BY DEF StreamInv
<1>4. k \in 0 .. Len(coming)
  BY DEF Arrivals
<1>5. readfifo' \in Seq(Cell) /\ coming' \in Seq(Cell) /\ Rest' = Rest
  BY <1>1, <1>3, <1>4, Regrouped DEF Taken, Rest
<1>6. Synced(sent, Rest, pc, port, length, slipped, torn)
  BY DEF StreamInv
<1>7. "sleep" \notin Busy /\ "sleep" \in Labels /\ "first" \notin Busy
  BY DEF Busy, Labels
<1>8. Synced(sent, Rest, "sleep", port, length', slipped', torn)
  <2>1. CASE pc = "first"
    <3>1. slipped' = slipped
      BY <1>2, <1>3, <2>1
    <3> QED
      BY <1>6, <1>7, <2>1, <3>1, SyncedAnyway
  <2>2. CASE pc # "first"
    <3>1. slipped' = TRUE
      BY <1>2, <2>2
    <3> QED
      BY <1>6, <1>7, <3>1, SyncedLost
  <2> QED
    BY <2>1, <2>2
<1>9. slipped' \in BOOLEAN
  BY <1>2, <1>3
<1> QED
  BY <1>2, <1>3, <1>5, <1>7, <1>8, <1>9 DEF StreamInv

LEMMA StreamAgain ==
    ASSUME StreamInv, Again
    PROVE  StreamInv'
<1>1. PICK k \in 0 .. Len(coming) :
         /\ coming' = SubSeq(coming, k + 1, Len(coming))
         /\ slipped' = (slipped \/ k > 0)
         /\ torn' = (torn \/ (k > 0 /\ readfifo # <<>>))
  BY DEF Again
<1>2. pc = "sleep" /\ pc' = "top" /\ UNCHANGED <<sent, readfifo, port, length>>
  BY DEF Again
<1>3. /\ sent \in Seq(Packet) /\ readfifo \in Seq(Cell) /\ coming \in Seq(Cell)
      /\ slipped \in BOOLEAN /\ torn \in BOOLEAN /\ port \in Ports /\ length \in Nat
  BY DEF StreamInv
<1>4. Synced(sent, Rest, "sleep", port, length, slipped, torn)
  BY <1>2 DEF StreamInv
<1>5. "sleep" \notin Busy /\ "top" \in Labels /\ "top" \notin Busy
  BY DEF Busy, Labels
<1>6. coming' = Without(coming, k) /\ coming' \in Seq(Cell)
  <2>1. coming' = Without(coming, k)
    BY <1>1 DEF Without
  <2> QED
    BY <1>3, <2>1, WithoutIs
<1>7. slipped' \in BOOLEAN /\ torn' \in BOOLEAN
  BY <1>1, <1>3
<1>8. Synced(sent, Rest', "top", port, length, slipped', torn')
  <2>1. CASE k = 0
    <3>1. coming' = coming
      <4>1. Len(coming') = Len(coming) - k /\ \A x \in 1 .. Len(coming) - k : coming'[x] = coming[x + k]
        BY <1>3, <1>6, WithoutIs
      <4>2. Len(coming') = Len(coming) /\ \A x \in 1 .. Len(coming) : coming'[x] = coming[x]
        BY <1>3, <2>1, <4>1
      <4> QED
        BY <1>3, <1>6, <4>2, SameElements
    <3>2. Rest' = Rest /\ slipped' = slipped /\ torn' = torn
      BY <1>1, <1>2, <1>3, <2>1, <3>1 DEF Rest
    <3> QED
      BY <1>4, <1>5, <3>2, SyncedAnyway
  <2>2. CASE k # 0
    <3>0. k > 0
      BY <1>3, <2>2
    <3>1. k > 0 /\ slipped' = TRUE
      BY <1>1, <3>0
    <3>2. CASE readfifo = <<>>
      <4>1. Rest = coming /\ Rest' = coming'
        BY <1>2, <1>3, <1>6, <3>2 DEF Rest
      <4>2. torn' = torn
        BY <1>1, <1>3, <3>2
      <4>3. Genuine(sent, coming) /\ (~torn => Whole(sent, coming))
        BY <1>4, <4>1 DEF Synced
      <4>4. Genuine(sent, coming')
        BY <1>3, <1>6, <4>3, GenuineWithout
      <4>5. ~torn => Whole(sent, coming')
        BY <1>3, <1>6, <4>3, WholeWithout
      <4> QED
        BY <1>5, <3>1, <4>1, <4>2, <4>4, <4>5, SyncedOutside
    <3>3. CASE readfifo # <<>>
      <4>1. torn' = TRUE
        BY <1>1, <3>1, <3>3
      <4>2. Genuine(sent, Rest')
        <5>1. Genuine(sent, Rest)
          BY <1>4 DEF Synced
        <5>2. \A x \in 1 .. Len(readfifo) : Rest[x] = readfifo[x] /\ Rest'[x] = readfifo[x]
          BY <1>2, <1>3, <1>6, Joined DEF Rest
        <5>3. \A x \in 1 .. Len(coming) : Rest[x + Len(readfifo)] = coming[x]
          BY <1>3, Joined DEF Rest
        <5>4. \A x \in 1 .. Len(coming') : Rest'[x + Len(readfifo)] = coming'[x]
          BY <1>2, <1>3, <1>6, Joined DEF Rest
        <5>5. Len(Rest) = Len(readfifo) + Len(coming)
          BY <1>3 DEF Rest
        <5>10. Len(Rest') = Len(readfifo) + Len(coming')
          BY <1>2, <1>3, <1>6 DEF Rest
        <5>6. Len(coming') = Len(coming) - k
          BY <1>3, <1>6, WithoutIs
        <5>7. \A x \in 1 .. Len(coming) - k : coming'[x] = coming[x + k]
          BY <1>3, <1>6, WithoutIs
        <5>8. Len(readfifo) \in Nat /\ Len(coming) \in Nat /\ k \in Nat /\ k <= Len(coming)
          BY <1>3
        <5>9. ASSUME NEW x \in 1 .. Len(Rest') PROVE \E y \in 1 .. Len(Rest) : Rest'[x] = Rest[y]
          <6>0. x \in Nat /\ x >= 1 /\ x <= Len(readfifo) + (Len(coming) - k)
            BY <5>6, <5>8, <5>10
          <6>1. CASE x <= Len(readfifo)
            <7>1. x \in 1 .. Len(readfifo) /\ x \in 1 .. Len(Rest)
              BY <5>5, <5>8, <6>0, <6>1
            <7> QED
              BY <5>2, <7>1
          <6>2. CASE x > Len(readfifo)
            <7>1. PICK y : y = x - Len(readfifo)
              OBVIOUS
            <7>2. y \in Nat /\ y >= 1 /\ y <= Len(coming) - k /\ y + Len(readfifo) = x
              BY <5>8, <6>0, <6>2, <7>1
            <7>3. y \in 1 .. Len(coming') /\ y \in 1 .. Len(coming) - k /\ y + k \in 1 .. Len(coming)
              BY <5>6, <5>8, <7>2
            <7>4. y + k + Len(readfifo) \in 1 .. Len(Rest)
              BY <5>5, <5>8, <7>3
            <7>5. Rest'[x] = coming'[y] /\ coming'[y] = coming[y + k]
              BY <5>4, <5>7, <7>2, <7>3
            <7>6. Rest[y + k + Len(readfifo)] = coming[y + k]
              BY <5>3, <7>3
            <7> QED
              BY <7>4, <7>5, <7>6
          <6> QED
            BY <5>8, <6>0, <6>1, <6>2
        <5>11. ASSUME NEW x \in 1 .. Len(Rest')
               PROVE  \E n \in 1 .. Len(sent) : \E z \in 1 .. Len(Code(sent, n)) : Rest'[x] = Code(sent, n)[z]
          <6>1. PICK y \in 1 .. Len(Rest) : Rest'[x] = Rest[y]
            BY <5>9
          <6> QED
            BY <5>1, <6>1 DEF Genuine
        <5> QED
          BY <5>11 DEF Genuine
      <4> QED
        BY <1>5, <3>1, <4>1, <4>2, SyncedOutside
    <3> QED
      BY <3>2, <3>3
  <2> QED
    BY <2>1, <2>2
<1> QED
  BY <1>2, <1>3, <1>5, <1>6, <1>7, <1>8 DEF StreamInv

LEMMA StreamBegins ==
    ASSUME StreamInv, Begins
    PROVE  StreamInv'
<1>1. /\ pc = "top" /\ pc' = "first" /\ length' = 0 /\ port' = "raw"
      /\ slipped' = (slipped /\ Rest # <<>>)
      /\ UNCHANGED <<sent, readfifo, coming, torn>>
  BY DEF Begins
<1>2. /\ sent \in Seq(Packet) /\ readfifo \in Seq(Cell) /\ coming \in Seq(Cell)
      /\ slipped \in BOOLEAN /\ torn \in BOOLEAN
  BY DEF StreamInv
<1>3. Synced(sent, Rest, "top", port, length, slipped, torn)
  BY <1>1 DEF StreamInv
<1>4. "first" \in Labels /\ "first" \notin Busy /\ "top" \notin Busy /\ "raw" \in Ports
  BY DEF Labels, Busy, Ports
<1>5. Rest' = Rest /\ Rest \in Seq(Cell)
  BY <1>1, <1>2, Joined DEF Rest
<1>6. Synced(sent, Rest, "first", port', length', slipped', torn)
  <2>1. CASE Rest = <<>>
    <3>1. Genuine(sent, Rest)
      BY <1>3 DEF Synced
    <3>2. Whole(sent, Rest)
      BY <2>1 DEF Whole
    <3>3. StartsHere(Rest)
      BY <2>1 DEF StartsHere
    <3> QED
      BY <1>4, <3>1, <3>2, <3>3, SyncedOutside
  <2>2. CASE Rest # <<>>
    <3>1. slipped' = slipped
      BY <1>1, <1>2, <2>2
    <3> QED
      BY <1>3, <1>4, <3>1, SyncedAnyway
  <2> QED
    BY <2>1, <2>2
<1>7. slipped' \in BOOLEAN
  BY <1>1, <1>2
<1> QED
  BY <1>1, <1>2, <1>4, <1>5, <1>6, <1>7 DEF StreamInv

LEMMA StreamElsewhere ==
    ASSUME StreamInv, Elsewhere \/ Still
    PROVE  StreamInv'
<1>1. UNCHANGED <<sent, readfifo, coming, slipped, torn, length>>
  BY DEF Elsewhere, Still
<1>2. Rest' = Rest
  BY <1>1 DEF Rest
<1>3. Synced(sent, Rest, pc, port, length, slipped, torn)
  BY DEF StreamInv
<1>4. CASE Elsewhere
  <2>1. pc \notin Busy /\ pc' \in Labels \ Busy /\ port' \in Ports
    BY <1>4 DEF Elsewhere
  <2>2. Synced(sent, Rest, pc', port', length, slipped, torn)
    BY <1>3, <2>1, SyncedAnyway
  <2>3. pc' \notin {"length", "data"}
    BY <2>1 DEF Busy
  <2> QED
    BY <1>1, <1>2, <2>1, <2>2, <2>3 DEF StreamInv
<1>5. CASE Still
  <2>1. UNCHANGED <<pc, port>>
    BY <1>5 DEF Still
  <2>2. Longest' = Longest
    BY <2>1 DEF Longest
  <2> QED
    BY <1>1, <1>2, <2>1, <2>2 DEF StreamInv
<1> QED
  BY <1>4, <1>5

LEMMA StreamInit ==
    ASSUME Init
    PROVE  StreamInv
<1>1. /\ sent = <<>> /\ coming = <<>> /\ readfifo = <<>> /\ pc = "top" /\ length = 0 /\ port = "raw"
      /\ slipped = FALSE /\ torn = FALSE
  BY DEF Init, SidesInit
<1>2. Rest = <<>>
  BY <1>1 DEF Rest
<1>3. Genuine(sent, Rest) /\ Whole(sent, Rest) /\ StartsHere(Rest)
  BY <1>2 DEF Genuine, Whole, StartsHere
<1>4. "top" \notin Busy /\ "top" \in Labels /\ "raw" \in Ports
  BY DEF Busy, Labels, Ports
<1>5. Synced(sent, Rest, pc, port, length, slipped, torn)
  BY <1>1, <1>3, <1>4, SyncedOutside
<1>6. sent \in Seq(Packet) /\ coming \in Seq(Cell) /\ readfifo \in Seq(Cell)
  BY <1>1
<1>7. slipped \in BOOLEAN /\ torn \in BOOLEAN /\ length \in Nat
  BY <1>1
<1> QED
  BY <1>1, <1>4, <1>5, <1>6, <1>7 DEF StreamInv

LEMMA StreamStep ==
    ASSUME StreamInv, [Next]_vars
    PROVE  StreamInv'
<1>1. CASE Next
  <2>1. port \in Ports /\ pc \in Labels
    BY DEF StreamInv
  <2>2. \/ Still \/ Elsewhere \/ Begins \/ Extends \/ Fails \/ Again
        \/ First \/ Kind \/ ReadLength \/ Payload
    BY <1>1, <2>1, StreamSteps
  <2> QED
    BY <2>2, StreamElsewhere, StreamBegins, StreamExtends, StreamFails, StreamAgain, StreamFirst,
       StreamKind, StreamLength, StreamPayload
<1>2. CASE UNCHANGED vars
  <2>1. Still
    BY <1>2 DEF vars, sides, board, serial, stream, Still
  <2> QED
    BY <2>1, StreamElsewhere
<1> QED
  BY <1>1, <1>2

(* Unless a read was cut short, a length refused or the port opened again,  *)
(* decode.py, st-decode.py and ep-decode.py look for the start of a packet  *)
(* exactly where the board's next packet starts, whatever the packets are,  *)
(* however their bytes come in pieces and whatever the clients do.          *)
THEOREM HostInStep == Spec => []InStep
<1>1. Init => StreamInv
  BY StreamInit
<1>2. StreamInv /\ [Next]_vars => StreamInv'
  BY StreamStep
<1>3. StreamInv => InStep
  <2> SUFFICES ASSUME StreamInv, ~slipped, pc \in {"top", "first"}, Rest # <<>> PROVE Rest[1].first
    BY DEF InStep
  <2>1. Synced(sent, Rest, pc, port, length, slipped, torn)
    BY DEF StreamInv
  <2>2. pc \notin Busy
    BY DEF Busy
  <2> QED
    BY <2>1, <2>2 DEF Synced, StartsHere
<1> QED
  BY <1>1, <1>2, <1>3, PTL DEF Spec

LEMMA NoneLost ==
    ASSUME StreamInv, Next, ~torn', ~Dirty, pc \in {"kind", "length", "data"}, pc' # "sleep",
           NEW k \in 1 .. Len(Rest) - Len(Rest')
    PROVE  ~Rest[k].first
<1>1. /\ sent \in Seq(Packet) /\ readfifo \in Seq(Cell) /\ coming \in Seq(Cell) /\ torn \in BOOLEAN
      /\ port \in Ports /\ pc \in Labels /\ Rest \in Seq(Cell)
  BY Joined DEF StreamInv, Rest
<1>2. \/ Still \/ Elsewhere \/ Begins \/ Extends \/ Fails \/ Again
      \/ First \/ Kind \/ ReadLength \/ Payload
  BY <1>1, StreamSteps
<1>3. ~Hides(sent)
  BY DEF Hides, Dirty
<1>4. ~torn => Position(sent, Rest, pc, port, length)
  BY <1>3 DEF StreamInv, Synced, Tame
<1>5. Len(Rest) \in Nat
  BY <1>1
<1>6. Len(Rest) # Len(Rest')
  BY <1>5
<1>7. CASE Still \/ Elsewhere \/ Begins
  <2>1. Rest' = Rest
    BY <1>7 DEF Still, Elsewhere, Begins, Rest
  <2> QED
    BY <1>6, <2>1
<1>8. CASE Extends
  <2>1. PICK packet \in Packet : sent' = Append(sent, packet) /\ coming' = coming \o Bytes(Len(sent) + 1, Values(packet))
    BY <1>8 DEF Extends
  <2>2. Len(sent) + 1 \in 1 .. Len(sent') /\ sent' \in Seq(Packet) /\ sent'[Len(sent) + 1] = packet
    BY <1>1, <2>1
  <2>3. Code(sent', Len(sent) + 1) \in Seq(Cell)
    BY <2>2, CodeIs
  <2>4. Bytes(Len(sent) + 1, Values(packet)) \in Seq(Cell)
    BY <2>2, <2>3 DEF Code
  <2>5. coming' \in Seq(Cell) /\ Len(coming') >= Len(coming)
    BY <1>1, <2>1, <2>4
  <2>6. readfifo' = readfifo
    BY <1>8 DEF Extends
  <2>7. Len(Rest) = Len(readfifo) + Len(coming) /\ Len(Rest') = Len(readfifo) + Len(coming')
    BY <1>1, <2>5, <2>6 DEF Rest
  <2>8. Len(readfifo) \in Nat /\ Len(coming) \in Nat /\ Len(coming') \in Nat
    BY <1>1, <2>5
  <2>9. k \in Nat /\ k >= 1 /\ k <= Len(Rest) - Len(Rest')
    BY <2>7, <2>8
  <2> QED
    BY <2>5, <2>7, <2>8, <2>9
<1>9. CASE Fails \/ Again \/ First
  BY <1>9 DEF Fails, Again, First, ReadFirst
<1>10. CASE Kind
  <2>1. PICK n \in Arrivals(1) : MyRead(n, 1)
    BY <1>10 DEF Kind, ReadKind
  <2>2. pc = "kind" /\ ~torn
    BY <1>10 DEF Kind, ReadKind
  <2>3. PICK i \in 1 .. Len(sent) : sent[i].kind # "raw" /\ Goes(sent, Rest, 1, i, 2)
    BY <1>4, <2>2 DEF Position
  <2>4. 1 \in Nat
    OBVIOUS
  <2>5. PICK d : Gives(Rest, Rest', 1, d, Read(n, 1))
    BY <1>1, <2>1, <2>4, ReadGives
  <2>6. sent[i].kind \in {"oled", "pwm"}
    BY <1>1, <2>3, KindIs
  <2>7. /\ SizeOf(sent[i].kind) \in {1, 2} /\ Len(sent[i].data) \in Nat
        /\ Len(Code(sent, i)) = SizeOf(sent[i].kind) + 2 + Len(sent[i].data)
    BY <1>1, <2>6, Framing2
  <2>8. 1 <= Len(Code(sent, i)) + 1 - 2
    BY <2>7
  <2>9. PICK j : j = 2
    OBVIOUS
  <2>10. Goes(sent, Rest, 1, i, j) /\ 1 <= Len(Code(sent, i)) + 1 - j /\ j >= 2
    BY <2>3, <2>8, <2>9
  <2> QED
    BY <1>1, <2>4, <2>5, <2>10, NoHeader
<1>11. CASE ReadLength
  <2>1. PICK n \in Arrivals(Size) : MyRead(n, Size) /\ torn' = (torn \/ Len(Read(n, Size)) \in 1 .. Size - 1)
    BY <1>11 DEF ReadLength
  <2>2. pc = "length" /\ ~torn /\ port \in {"oled", "pwm"}
    BY <1>1, <1>11, <2>1 DEF ReadLength, StreamInv
  <2>3. PICK i \in 1 .. Len(sent) : sent[i].kind = port /\ Goes(sent, Rest, 1, i, 3)
    BY <1>4, <2>2 DEF Position
  <2>4. Size = SizeOf(port) /\ Size \in Nat
    BY <2>2, InPacketType
  <2>5. PICK d : Gives(Rest, Rest', Size, d, Read(n, Size))
    BY <1>1, <2>1, <2>4, ReadGives
  <2>6. Len(Code(sent, i)) = Size + 2 + Len(sent[i].data) /\ Len(sent[i].data) \in Nat
    BY <1>1, <2>2, <2>3, <2>4, Framing2
  <2>7. PICK j : j = 3
    OBVIOUS
  <2>8. Goes(sent, Rest, 1, i, j) /\ Size <= Len(Code(sent, i)) + 1 - j /\ j >= 2
    BY <2>3, <2>4, <2>6, <2>7, SMTT(30)
  <2> QED
    BY <1>1, <2>4, <2>5, <2>8, NoHeader
<1>12. CASE Payload
  <2>1. PICK n \in Arrivals(length) : MyRead(n, length)
    BY <1>12 DEF Payload, ReadData
  <2>2. pc = "data" /\ ~torn
    BY <1>12 DEF Payload, ReadData
  <2>3. port \in {"oled", "pwm"} /\ length \in Nat
    BY <2>2 DEF StreamInv
  <2>4. PICK i \in 1 .. Len(sent) :
           sent[i].kind = port /\ length = Len(sent[i].data) /\ Goes(sent, Rest, 1, i, SizeOf(port) + 3)
    BY <1>4, <2>2 DEF Position
  <2>5. PICK d : Gives(Rest, Rest', length, d, Read(n, length))
    BY <1>1, <2>1, <2>3, ReadGives
  <2>6. SizeOf(port) \in {1, 2} /\ Len(Code(sent, i)) = SizeOf(port) + 2 + length
    BY <1>1, <2>3, <2>4, Framing2
  <2>7. PICK j : j = SizeOf(port) + 3
    OBVIOUS
  <2>8. Goes(sent, Rest, 1, i, j) /\ length <= Len(Code(sent, i)) + 1 - j /\ j >= 2
    BY SMTT(30), <2>3, <2>4, <2>6, <2>7
  <2> QED
    BY <1>1, <2>3, <2>5, <2>8, NoHeader
<1> QED
  BY <1>2, <1>7, <1>8, <1>9, <1>10, <1>11, <1>12

(* However a packet was lost, the one after it is found: its first byte is  *)
(* never read as anything but a first byte, or thrown away with a payload.  *)
(* The proof needs to know where in which packet the program is, which it   *)
(* may have lost and found again, as long as no length was cut in two and   *)
(* no payload or length holds an SO.                                        *)
THEOREM HostHeadersFound == Spec => HeadersFound
<1>1. Init => StreamInv
  BY StreamInit
<1>2. StreamInv /\ [Next]_vars => StreamInv'
  BY StreamStep
<1>3. StreamInv /\ [Next]_vars =>
        [~torn' /\ ~Dirty /\ pc \in {"kind", "length", "data"} /\ pc' # "sleep"
           => \A k \in 1 .. Len(Rest) - Len(Rest') : ~Rest[k].first]_vars
  BY NoneLost
<1> QED
  BY <1>1, <1>2, <1>3, PTL DEF Spec, HeadersFound

-----------------------------------------------------------------------------
(* The items: what was decoded, until it has been sent.  Good(q, p, s): the *)
(* items of s are of packets of kind p                                      *)
Good(q, p, s) == \A k \in 1 .. Len(s) : s[k].from \in 1 .. Len(q) /\ q[s[k].from].kind = p

ItemInv ==
    /\ load \in 0 .. MaxLoad /\ Len(sent) <= load
    /\ todo \in Seq(Item) /\ (pc = "put" <=> todo # <<>>)
    /\ qs \in [Ports -> Seq(Item)] /\ qd \in [Ports -> Seq(Item)] /\ outdata \in [Ports -> Seq(Item)]

KindInv ==
    ~torn /\ ~Dirty =>
        \A p \in {"oled", "pwm"} :
            /\ Good(sent, p, qs[p]) /\ Good(sent, p, qd[p]) /\ Good(sent, p, outdata[p])
            /\ port = p => Good(sent, p, todo)

(* What a step may do to the items *)
Kept ==
    /\ UNCHANGED <<todo, qs, qd, outdata>>
    /\ (pc = "put") <=> (pc' = "put")
    /\ port' = port \/ pc # "put"
    /\ sent' = sent \/ \E packet \in Packet : sent' = Append(sent, packet)
Dropped == UNCHANGED <<sent, qs, qd, outdata>> /\ todo' = <<>> /\ pc' # "put"
Returned ==
    /\ UNCHANGED <<sent, todo, qs, qd>> /\ pc # "put" /\ pc' # "put"
    /\ outdata' = [outdata EXCEPT ![port] = <<>>]
Went(p) == UNCHANGED <<sent, todo, qs, outdata, pc, port>> /\ qd' = [qd EXCEPT ![p] = <<>>]
Fetched(p) ==
    /\ UNCHANGED <<sent, todo, outdata, pc, port>> /\ qs[p] # <<>>
    /\ qd' = [qd EXCEPT ![p] = <<Head(qs[p])>>]
    /\ qs' = [qs EXCEPT ![p] = Tail(@)]
Moved ==
    /\ pc = "put" /\ todo' = Tail(todo) /\ UNCHANGED <<sent, qd>>
    /\ qs' = qs \/ qs' = [qs EXCEPT ![port] = Append(@, Head(todo))]
    /\ outdata' = outdata \/ outdata' = [outdata EXCEPT ![port] = Append(@, Head(todo))]
    /\ \/ Len(todo) = 1 /\ pc' # "put"
       \/ Len(todo) # 1 /\ pc' = "put" /\ port' = port
Text ==
    /\ UNCHANGED <<sent, qs, qd, outdata>> /\ pc' = "put" /\ port' = "raw"
    /\ \E k \in Arrivals(1) :
         MyRead(k, 1) /\ Read(k, 1) # <<>> /\ todo' = <<[from |-> Read(k, 1)[1].of, row |-> 0]>>
Loaded ==
    /\ UNCHANGED <<sent, qs, qd, outdata, port, torn>> /\ pc = "data" /\ pc' = "put"
    /\ \E k \in Arrivals(length) :
         MyRead(k, length) /\ Len(Read(k, length)) = length /\ todo' = Items(Read(k, length))

LEMMA FramingItems ==
    ASSUME Decode(Framing) \/ StEp(StFraming) \/ StEp(EpFraming), pc = "data" => port \in {"oled", "pwm"}
    PROVE  Kept \/ Text \/ Loaded
<1>1. UNCHANGED <<qs, qd, outdata>>
  BY DEF Decode, StEp, StFraming, EpFraming, bvars, dvars, Framing, call, tcp
<1>2. First \/ Kind \/ ReadLength \/ Payload \/ Again
  BY FramingDoes
<1>3. sent' = sent
  BY <1>2 DEF First, ReadFirst, Kind, ReadKind, ReadLength, Payload, ReadData, MyRead, Again
<1>4. CASE First
  <2>1. PICK silent \in {"top", "sleep"} : ReadFirst(silent)
    BY <1>4 DEF First
  <2>2. PICK k \in Arrivals(1) :
           /\ MyRead(k, 1)
           /\ \/ Goto(silent) /\ UNCHANGED <<port, todo>>
              \/ Goto("kind") /\ UNCHANGED <<port, todo>>
              \/ /\ Read(k, 1) # <<>> /\ Goto("put") /\ port' = "raw"
                 /\ todo' = <<[from |-> Read(k, 1)[1].of, row |-> 0]>>
    BY <2>1 DEF ReadFirst
  <2>3. pc = "first"
    BY <2>1 DEF ReadFirst
  <2>4. CASE pc' # "put" /\ UNCHANGED <<port, todo>>
    BY <1>1, <1>3, <2>3, <2>4 DEF Kept
  <2>5. CASE /\ Read(k, 1) # <<>> /\ Goto("put") /\ port' = "raw"
             /\ todo' = <<[from |-> Read(k, 1)[1].of, row |-> 0]>>
    BY <1>1, <1>3, <2>2, <2>5 DEF Text, Goto
  <2> QED
    BY <2>2, <2>4, <2>5 DEF Goto
<1>5. CASE Kind \/ ReadLength
  <2>1. pc \in {"kind", "length"} /\ pc' # "put" /\ todo' = todo
    BY <1>5 DEF Kind, ReadKind, ReadLength, Goto
  <2> QED
    BY <1>1, <1>3, <2>1 DEF Kept
<1>6. CASE Payload
  <2>1. PICK picture \in {"put", "sleep"} : ReadData(picture)
    BY <1>6 DEF Payload
  <2>2. pc = "data" /\ UNCHANGED <<port, torn>>
    BY <2>1 DEF ReadData
  <2>3. PICK k \in Arrivals(length) :
         /\ MyRead(k, length)
         /\ \/ pc' # "put" /\ UNCHANGED todo
            \/ Len(Read(k, length)) = length /\ pc' = "put" /\ todo' = Items(Read(k, length))
    BY <2>1 DEF ReadData, Goto
  <2> QED
    BY <1>1, <1>3, <2>2, <2>3 DEF Kept, Loaded
<1>7. CASE Again
  <2>1. todo' = todo
    <3>1. ASSUME Reopen PROVE todo' = todo
      BY <3>1 DEF Reopen
    <3> QED
      BY <1>7, <3>1 DEF Again, Decode, StEp, Framing, StFraming, EpFraming, ReadFirst, ReadKind, ReadLength, ReadData
  <2> QED
    BY <1>1, <1>3, <1>7, <2>1 DEF Kept, Again
<1> QED
  BY <1>2, <1>4, <1>5, <1>6, <1>7

LEMMA ItemSteps ==
    ASSUME Next, pc = "data" => port \in {"oled", "pwm"}
    PROVE  \/ Kept \/ Dropped \/ Returned \/ Moved \/ Text \/ Loaded
           \/ \E p \in Ports : Went(p) \/ Fetched(p)
<1> USE DEF Goto, stream, serial, board, clients
<1>1. CASE Decode(TakeCommand)
  BY <1>1 DEF Decode, TakeCommand, Kept, tcp, dvars
<1>2. CASE Decode(PutItem)
  BY <1>2 DEF Decode, PutItem, Moved, tcp, dvars
<1>3. CASE \E p \in Ports :
              \/ Decode(Select(p)) \/ Decode(Accept(p))
              \/ Decode(Recv(p)) \/ Decode(RecvFails(p)) \/ Decode(PutCommands(p))
              \/ Decode(GetItem(p)) \/ Decode(Send(p))
  <2>1. PICK p \in Ports : \/ Select(p) \/ Accept(p) \/ Recv(p) \/ RecvFails(p) \/ PutCommands(p)
                           \/ GetItem(p) \/ Send(p)
    BY <1>3 DEF Decode
  <2>2. UNCHANGED Others /\ UNCHANGED dvars
    BY <1>3, <2>1 DEF Decode, Select, Accept, Recv, RecvFails, PutCommands, GetItem, Send
  <2>3. UNCHANGED <<sent, todo, outdata, pc, port>>
    BY <2>2 DEF Others, dvars
  <2>4. CASE Select(p) \/ Accept(p) \/ Recv(p) \/ RecvFails(p) \/ PutCommands(p)
    <3>1. UNCHANGED <<qs, qd>>
      BY <2>4 DEF Select, Accept, Recv, RecvFails, PutCommands
    <3> QED
      BY <2>3, <3>1 DEF Kept
  <2>5. CASE GetItem(p)
    <3>1. \/ UNCHANGED <<qs, qd>>
          \/ /\ qs[p] # <<>> /\ qd' = [qd EXCEPT ![p] = <<Head(qs[p])>>]
             /\ qs' = [qs EXCEPT ![p] = Tail(@)]
      BY <2>5 DEF GetItem
    <3>2. CASE UNCHANGED <<qs, qd>>
      BY <2>3, <3>2 DEF Kept
    <3>3. CASE /\ qs[p] # <<>> /\ qd' = [qd EXCEPT ![p] = <<Head(qs[p])>>]
               /\ qs' = [qs EXCEPT ![p] = Tail(@)]
      BY <2>3, <3>3 DEF Fetched
    <3> QED
      BY <3>1, <3>2, <3>3
  <2>6. CASE Send(p)
    <3>1. UNCHANGED qs /\ qd' = [qd EXCEPT ![p] = <<>>]
      BY <2>6 DEF Send
    <3> QED
      BY <2>3, <3>1 DEF Went
  <2> QED
    BY <2>1, <2>4, <2>5, <2>6
<1>4. CASE Decode(MainEnds)
  BY <1>4 DEF Decode, MainEnds, Others, Kept, dvars
<1>5. CASE StEp(Start)
  BY <1>5 DEF StEp, Start, Kept, bvars, tcp, dvars
<1>6. CASE Decode(Framing) \/ StEp(StFraming) \/ StEp(EpFraming)
  BY <1>6, FramingItems
<1>7. CASE StEp(AppendItem)
  BY <1>7 DEF StEp, AppendItem, Moved, bvars, tcp
<1>8. CASE StEp(Raises)
  BY <1>8 DEF StEp, Raises, Dropped, bvars, tcp, dvars
<1>9. ASSUME Onwards PROVE pc' # "put"
  BY <1>9 DEF Onwards
<1>10. ASSUME Return PROVE pc' # "put" /\ outdata' = [outdata EXCEPT ![port] = <<>>]
  BY <1>9, <1>10 DEF Return
<1>11. CASE StEp(SkipPort)
  BY <1>9, <1>11 DEF StEp, SkipPort, Quiet, Kept, bvars, tcp
<1>12. CASE StEp(Poll)
  <2>1. pc = "serve" /\ UNCHANGED Quiet /\ (Return \/ (pc' = "handle" /\ UNCHANGED <<port, outdata>>))
    BY <1>12 DEF StEp, Poll
  <2>2. UNCHANGED <<sent, todo, qs, qd>>
    BY <1>12, <2>1 DEF StEp, Quiet, bvars, tcp
  <2>3. CASE Return
    BY <1>10, <2>1, <2>2, <2>3 DEF Returned
  <2>4. CASE pc' = "handle" /\ UNCHANGED <<port, outdata>>
    BY <2>1, <2>2, <2>4 DEF Kept
  <2> QED
    BY <2>1, <2>3, <2>4
<1>13. CASE StEp(AcceptOne)
  BY <1>13 DEF StEp, AcceptOne, Quiet, Kept, bvars, tcp
<1>14. CASE StEp(RecvRaises)
  BY <1>10, <1>14 DEF StEp, RecvRaises, Quiet, Returned, bvars, tcp
<1>15. CASE StEp(StRecv)
  BY <1>15 DEF StEp, StRecv, Quiet, Kept, bvars, tcp
<1>16. CASE StEp(StSend)
  BY <1>10, <1>16 DEF StEp, StSend, Quiet, Returned, bvars, tcp
<1>17. CASE StEp(EpHangUp)
  BY <1>17 DEF StEp, EpHangUp, Quiet, Kept, bvars, tcp
<1>18. CASE StEp(EpRecvSend)
  BY <1>18 DEF StEp, EpRecvSend, Quiet, Kept, bvars, tcp
<1>19. CASE StEp(EpReturn)
  BY <1>10, <1>19 DEF StEp, EpReturn, Quiet, Returned, bvars, tcp
<1>20. CASE StEp(WriteCommands)
  BY <1>20 DEF StEp, WriteCommands, Kept, bvars, tcp
<1>21. CASE Around(BoardSends)
  <2>1. \E packet \in Packet : sent' = Append(sent, packet)
    BY <1>21 DEF Around, BoardSends
  <2> QED
    BY <1>21, <2>1 DEF Around, BoardSends, Kept, bvars, tcp, dvars
<1>22. CASE Around(ReadFails)
  BY <1>22 DEF Around, ReadFails, Kept, bvars, tcp, dvars
<1>23. CASE Around(PicoEnds)
  BY <1>23 DEF Around, PicoEnds, Kept, bvars, tcp, dvars
<1>24. CASE \E c \in Clients :
              Served(c) /\ (Around(Connect(c)) \/ Around(SendCommand(c)) \/ Around(Leave(c)))
  <2>1. UNCHANGED Client
    BY <1>24 DEF Around, Connect, SendCommand, Leave
  <2>2. UNCHANGED bvars /\ UNCHANGED dvars
    BY <1>24 DEF Around
  <2> QED
    BY <2>1, <2>2 DEF Client, Kept, bvars, tcp, dvars
<1> QED
  BY <1>1, <1>2, <1>3, <1>4, <1>5, <1>6, <1>7, <1>8, <1>11, <1>12, <1>13, <1>14, <1>15, <1>16,
     <1>17, <1>18, <1>19, <1>20, <1>21, <1>22, <1>23, <1>24 DEF Next

LEMMA LoadSteps ==
    ASSUME Next
    PROVE  /\ load' = load \/ Counted
           /\ sent' = sent \/ (Counted /\ \E packet \in Packet : sent' = Append(sent, packet))
<1> DEFINE Same == load' = load /\ sent' = sent
<1> USE DEF board
<1>1. CASE Decode(TakeCommand)
  BY <1>1 DEF Decode, TakeCommand
<1>2. CASE Decode(PutItem)
  BY <1>2 DEF Decode, PutItem
<1>3. CASE \E p \in Ports :
              \/ Decode(Select(p)) \/ Decode(Accept(p))
              \/ Decode(Recv(p)) \/ Decode(RecvFails(p)) \/ Decode(PutCommands(p))
              \/ Decode(GetItem(p)) \/ Decode(Send(p))
  <2>1. UNCHANGED Others
    BY <1>3 DEF Decode, Select, Accept, Recv, RecvFails, PutCommands, GetItem, Send
  <2> QED
    BY <2>1 DEF Others
<1>4. CASE Decode(MainEnds)
  BY <1>4 DEF Decode, MainEnds, Others
<1>5. CASE StEp(Start)
  BY <1>5 DEF StEp, Start
<1>6. CASE Decode(Framing) \/ StEp(StFraming) \/ StEp(EpFraming)
  <2>1. First \/ Kind \/ ReadLength \/ Payload \/ Again
    BY <1>6, FramingDoes
  <2>2. CASE First \/ Kind \/ ReadLength \/ Payload
    BY <2>2 DEF First, ReadFirst, Kind, ReadKind, ReadLength, Payload, ReadData, MyRead
  <2>3. CASE Again
    <3>1. ASSUME Reopen PROVE load' = load /\ sent' = sent
      BY <3>1 DEF Reopen
    <3> QED
      BY <1>6, <2>3, <3>1 DEF Again, Decode, StEp, Framing, StFraming, EpFraming, ReadFirst, ReadKind, ReadLength, ReadData
  <2> QED
    BY <2>1, <2>2, <2>3
<1>7. CASE StEp(AppendItem) \/ StEp(Raises)
  BY <1>7 DEF StEp, AppendItem, Raises
<1>8. CASE StEp(SkipPort) \/ StEp(Poll) \/ StEp(AcceptOne) \/ StEp(RecvRaises) \/ StEp(StRecv)
  <2>1. UNCHANGED Quiet
    BY <1>8 DEF StEp, SkipPort, Poll, AcceptOne, RecvRaises, StRecv
  <2> QED
    BY <2>1 DEF Quiet
<1>9. CASE StEp(StSend) \/ StEp(EpHangUp) \/ StEp(EpRecvSend) \/ StEp(EpReturn)
  <2>1. UNCHANGED Quiet
    BY <1>9 DEF StEp, StSend, EpHangUp, EpRecvSend, EpReturn
  <2> QED
    BY <2>1 DEF Quiet
<1>10. CASE StEp(WriteCommands)
  BY <1>10 DEF StEp, WriteCommands
<1>11. CASE Around(BoardSends)
  BY <1>11 DEF Around, BoardSends
<1>12. CASE Around(ReadFails) \/ Around(PicoEnds)
  BY <1>12 DEF Around, ReadFails, PicoEnds
<1>13. CASE \E c \in Clients :
              Served(c) /\ (Around(Connect(c)) \/ Around(SendCommand(c)) \/ Around(Leave(c)))
  BY <1>13 DEF Around, Connect, SendCommand, Leave, Client
<1> QED
  BY <1>1, <1>2, <1>3, <1>4, <1>5, <1>6, <1>7, <1>8, <1>9, <1>10, <1>11, <1>12, <1>13 DEF Next

LEMMA MaxIs ==
    ASSUME NEW a \in Nat, NEW b \in Nat
    PROVE  Max({a, b}) \in Nat /\ Max({a, b}) >= a /\ Max({a, b}) >= b
<1>1. \E x \in {a, b} : \A y \in {a, b} : x >= y
  OBVIOUS
<1> QED
  BY <1>1 DEF Max

LEMMA ItemIs ==
    ASSUME NEW n \in 0 .. MaxLoad, NEW r \in Nat, r <= Rows \/ r <= MaxPwm
    PROVE  [from |-> n, row |-> r] \in Item
<1>1. Rows \in Nat /\ MaxPwm \in Nat
  BY HostAssumption
<1>2. Max({Rows, MaxPwm}) \in Nat /\ Max({Rows, MaxPwm}) >= Rows /\ Max({Rows, MaxPwm}) >= MaxPwm
  BY <1>1, MaxIs
<1>3. r \in 0 .. Max({Rows, MaxPwm})
  BY <1>1, <1>2
<1> QED
  BY <1>3 DEF Item

LEMMA PacketOfIs ==
    ASSUME sent \in Seq(Packet), NEW f \in Seq(Cell), Len(f) >= 1,
           \A x \in 1 .. Len(f) : f[x].of \in 1 .. Len(sent)
    PROVE  /\ PacketOf(f) \in 0 .. Len(sent)
           /\ \A p : AllOf(sent, f, Len(f), p) => PacketOf(f) \in 1 .. Len(sent) /\ sent[PacketOf(f)].kind = p
<1>1. f[1].of \in 1 .. Len(sent) /\ Len(sent) \in Nat /\ Len(f) \in Nat
  <2>1. 1 \in 1 .. Len(f)
    OBVIOUS
  <2> QED
    BY <2>1
<1>2. PacketOf(f) \in {0, f[1].of}
  BY DEF PacketOf
<1>3. ASSUME NEW p, AllOf(sent, f, Len(f), p)
      PROVE  PacketOf(f) \in 1 .. Len(sent) /\ sent[PacketOf(f)].kind = p
  <2>1. PICK n \in 1 .. Len(sent) :
           /\ sent[n].kind = p /\ Len(sent[n].data) = Len(f) /\ sent[n].data \in Seq(Nat)
           /\ \A x \in 1 .. Len(f) : f[x].of = n /\ f[x].v = sent[n].data[x]
    BY <1>3 DEF AllOf
  <2>2. f[1].of = n
    <3>1. 1 \in 1 .. Len(f)
      BY <1>1
    <3> QED
      BY <2>1, <3>1
  <2>3. \A b \in ToSet(f) : b.of = f[1].of
    <3>1. DOMAIN f = 1 .. Len(f)
      OBVIOUS
    <3> QED
      BY <2>1, <2>2, <3>1 DEF ToSet
  <2> DEFINE g == [k \in 1 .. Len(f) |-> f[k].v]
  <2>4. g \in Seq(Nat) /\ Len(g) = Len(f) /\ \A x \in 1 .. Len(g) : g[x] = sent[n].data[x]
    <3>1. \A k \in 1 .. Len(f) : f[k].v \in Nat
      <4> SUFFICES ASSUME NEW k \in 1 .. Len(f) PROVE f[k].v \in Nat
        OBVIOUS
      <4>1. f[k] \in Cell
        OBVIOUS
      <4> QED
        BY <4>1 DEF Cell
    <3>2. g \in [1 .. Len(f) -> Nat]
      BY <3>1
    <3>3. g \in Seq(Nat) /\ Len(g) = Len(f)
      BY <1>1, <3>2
    <3> QED
      BY <2>1, <3>3
  <2>5. sent[n].data = g
    <3> HIDE DEF g
    <3> QED
      BY <2>1, <2>4, SameElements
  <2>6. PacketOf(f) = n
    BY <2>2, <2>3, <2>5 DEF PacketOf
  <2> QED
    BY <2>1, <2>6
<1> QED
  BY <1>1, <1>2, <1>3

LEMMA ItemsAre ==
    ASSUME StreamInv, Loaded, Len(sent) <= MaxLoad
    PROVE  /\ todo' \in Seq(Item) /\ todo' # <<>>
           /\ ~torn /\ ~Dirty => Good(sent, port, todo')
<1>1. PICK k \in Arrivals(length) :
         MyRead(k, length) /\ Len(Read(k, length)) = length /\ todo' = Items(Read(k, length))
  BY DEF Loaded
<1> DEFINE f == Read(k, length)
<1>2. /\ sent \in Seq(Packet) /\ readfifo \in Seq(Cell) /\ coming \in Seq(Cell) /\ length \in Nat
      /\ slipped \in BOOLEAN /\ torn \in BOOLEAN /\ pc = "data"
  BY DEF StreamInv, Loaded
<1>3. port \in {"oled", "pwm"} /\ length \in 1 .. Longest
  BY <1>2 DEF StreamInv
<1>4. Longest \in Nat /\ length >= 1 /\ length <= Longest
  <2>1. Longest \in Nat
    BY <1>3, InPacketType
  <2> QED
    BY <1>3, <2>1
<1>5. PICK d : Gives(Rest, Rest', length, d, f)
  BY <1>1, <1>2, ReadGives
<1>6. Synced(sent, Rest, "data", port, length, slipped, torn)
  BY <1>2 DEF StreamInv
<1>7. Rest \in Seq(Cell)
  BY <1>2, Joined DEF Rest
<1>8. PICK sl2 : Short(f, length, slipped, sl2)
  BY DEF Short
<1>9. AfterData(sent, Rest', f, length, port, sl2, torn)
  BY <1>2, <1>3, <1>5, <1>6, <1>7, <1>8, DataRead
<1>10. Genuine(sent, Rest)
  BY <1>6 DEF Synced
<1>11. f \in Seq(Cell) /\ Len(f) = length
  BY <1>1, <1>5 DEF Gives
<1>12. \A x \in 1 .. Len(f) : f[x].of \in 1 .. Len(sent)
  BY <1>2, <1>5, <1>7, <1>10, GivenGenuine
<1>13. ~torn /\ ~Dirty => AllOf(sent, f, Len(f), port)
  BY <1>9, <1>11 DEF AfterData, Dirty, Hides
<1> HIDE DEF f
<1>14. Len(f) >= 1
  BY <1>4, <1>11
<1>15. PacketOf(f) \in 0 .. Len(sent)
  BY <1>2, <1>11, <1>12, <1>14, PacketOfIs
<1>16. ~torn /\ ~Dirty => PacketOf(f) \in 1 .. Len(sent) /\ sent[PacketOf(f)].kind = port
  BY <1>2, <1>11, <1>12, <1>13, <1>14, PacketOfIs
<1> DEFINE m == IF port = "oled" THEN Rows ELSE Len(f)
<1>17. todo' = [k2 \in 1 .. m |-> [from |-> PacketOf(f), row |-> k2]]
  BY <1>1 DEF Items, f
<1>18. m \in Nat /\ m >= 1 /\ (m <= Rows \/ m <= MaxPwm)
  <2>1. CASE port = "oled"
    BY <2>1, HostAssumption
  <2>2. CASE port # "oled"
    <3>1. m = Len(f) /\ Longest = MaxPwm
      BY <2>2 DEF Longest
    <3> QED
      BY <1>4, <1>11, <3>1
  <2> QED
    BY <2>1, <2>2
<1>19. Rows \in Nat /\ MaxPwm \in Nat /\ MaxLoad \in Nat /\ Len(sent) \in Nat
  BY <1>2, HostAssumption
<1> HIDE DEF m
<1>20. ASSUME NEW x \in 1 .. m PROVE [from |-> PacketOf(f), row |-> x] \in Item
  <2>1. PacketOf(f) \in 0 .. MaxLoad
    BY <1>15, <1>19
  <2>2. x \in Nat /\ (x <= Rows \/ x <= MaxPwm)
    BY <1>18, <1>19
  <2> QED
    BY <2>1, <2>2, ItemIs
<1>21. todo' \in Seq(Item) /\ Len(todo') = m /\ todo' # <<>>
  <2>1. todo' \in [1 .. m -> Item]
    BY <1>17, <1>20
  <2>2. todo' \in Seq(Item) /\ Len(todo') = m
    BY <1>18, <2>1
  <2> QED
    BY <1>18, <2>2
<1>22. \A x \in 1 .. Len(todo') : todo'[x].from = PacketOf(f)
  BY <1>17, <1>21
<1>23. ~torn /\ ~Dirty => Good(sent, port, todo')
  BY <1>16, <1>22 DEF Good
<1> QED
  BY <1>21, <1>23

LEMMA TextIs ==
    ASSUME StreamInv, Text, Len(sent) <= MaxLoad
    PROVE  todo' \in Seq(Item) /\ todo' # <<>>
<1>1. PICK k \in Arrivals(1) :
         MyRead(k, 1) /\ Read(k, 1) # <<>> /\ todo' = <<[from |-> Read(k, 1)[1].of, row |-> 0]>>
  BY DEF Text
<1> DEFINE f == Read(k, 1)
<1>2. /\ sent \in Seq(Packet) /\ readfifo \in Seq(Cell) /\ coming \in Seq(Cell) /\ Genuine(sent, Rest)
  BY DEF StreamInv, Synced
<1>3. 1 \in Nat /\ Rest \in Seq(Cell)
  BY <1>2, Joined DEF Rest
<1>4. PICK d : Gives(Rest, Rest', 1, d, f)
  BY <1>1, <1>2, <1>3, ReadGives
<1>5. f # <<>>
  BY <1>1
<1>6. f \in Seq(Cell) /\ \A x \in 1 .. Len(f) : f[x].of \in 1 .. Len(sent)
  <2>1. f \in Seq(Cell)
    BY <1>4 DEF Gives
  <2>2. \A x \in 1 .. Len(f) : f[x].of \in 1 .. Len(sent)
    BY <1>2, <1>3, <1>4, GivenGenuine
  <2> QED
    BY <2>1, <2>2
<1> HIDE DEF f
<1>7. f[1].of \in 1 .. Len(sent)
  <2>1. 1 \in 1 .. Len(f)
    BY <1>5, <1>6
  <2> QED
    BY <1>6, <2>1
<1>8. f[1].of \in 0 .. MaxLoad /\ 0 \in Nat /\ 0 <= Rows
  <2>1. MaxLoad \in Nat /\ Len(sent) \in Nat /\ Rows \in Nat
    BY <1>2, HostAssumption
  <2> QED
    BY <1>7, <2>1
<1>9. [from |-> f[1].of, row |-> 0] \in Item
  BY <1>8, ItemIs
<1>10. todo' = <<[from |-> f[1].of, row |-> 0]>>
  BY <1>1 DEF f
<1> QED
  BY <1>9, <1>10

LEMMA TailIs ==
    ASSUME NEW S, NEW s \in Seq(S), s # <<>>
    PROVE  /\ Head(s) \in S /\ Head(s) = s[1] /\ 1 \in 1 .. Len(s)
           /\ Tail(s) \in Seq(S) /\ Len(Tail(s)) = Len(s) - 1
           /\ \A x \in 1 .. Len(Tail(s)) : x + 1 \in 1 .. Len(s) /\ Tail(s)[x] = s[x + 1]
  OBVIOUS

LEMMA NoneLeft ==
    ASSUME NEW S, NEW s \in Seq(S), Len(s) = 0
    PROVE  s = <<>>
  OBVIOUS

LEMMA AppendIs ==
    ASSUME NEW S, NEW s \in Seq(S), NEW e \in S
    PROVE  /\ Append(s, e) \in Seq(S) /\ Len(Append(s, e)) = Len(s) + 1
           /\ \A x \in 1 .. Len(s) : Append(s, e)[x] = s[x]
           /\ Append(s, e)[Len(s) + 1] = e
  OBVIOUS

LEMMA ItemInvStep ==
    ASSUME StreamInv, ItemInv, Next
    PROVE  ItemInv'
<1>1. /\ load \in 0 .. MaxLoad /\ Len(sent) <= load
      /\ todo \in Seq(Item) /\ (pc = "put" <=> todo # <<>>)
      /\ qs \in [Ports -> Seq(Item)] /\ qd \in [Ports -> Seq(Item)] /\ outdata \in [Ports -> Seq(Item)]
  BY DEF ItemInv
<1>2. sent \in Seq(Packet) /\ port \in Ports /\ (pc = "data" => port \in {"oled", "pwm"})
  BY DEF StreamInv
<1>3. load' \in 0 .. MaxLoad /\ Len(sent') <= load'
  <2>1. /\ load' = load \/ (load < MaxLoad /\ load' = load + 1)
        /\ sent' = sent \/ (load' = load + 1 /\ \E packet \in Packet : sent' = Append(sent, packet))
    BY LoadSteps DEF Counted
  <2>2. Len(sent) \in Nat /\ MaxLoad \in Nat
    BY <1>2, HostAssumption
  <2>3. CASE sent' = sent
    BY <1>1, <2>1, <2>2, <2>3
  <2>4. CASE load' = load + 1 /\ \E packet \in Packet : sent' = Append(sent, packet)
    <3>1. Len(sent') = Len(sent) + 1
      BY <1>2, <2>4
    <3>2. load < MaxLoad
      BY <1>1, <2>1, <2>4
    <3> QED
      BY <1>1, <2>2, <2>4, <3>1, <3>2
  <2> QED
    BY <2>1, <2>3, <2>4
<1>4. Len(sent) <= MaxLoad
  BY <1>1, <1>2, HostAssumption
<1>5. <<>> \in Seq(Item)
  OBVIOUS
<1>6. \/ Kept \/ Dropped \/ Returned \/ Moved \/ Text \/ Loaded
      \/ \E p \in Ports : Went(p) \/ Fetched(p)
  BY <1>2, ItemSteps
<1>7. CASE Kept
  BY <1>1, <1>3, <1>7 DEF Kept, ItemInv
<1>8. CASE Dropped
  BY <1>1, <1>3, <1>5, <1>8 DEF Dropped, ItemInv
<1>9. CASE Returned
  BY <1>1, <1>3, <1>5, <1>9 DEF Returned, ItemInv
<1>10. CASE Moved
  <2>1. /\ pc = "put" /\ todo' = Tail(todo) /\ UNCHANGED qd
        /\ qs' = qs \/ qs' = [qs EXCEPT ![port] = Append(@, Head(todo))]
        /\ outdata' = outdata \/ outdata' = [outdata EXCEPT ![port] = Append(@, Head(todo))]
        /\ \/ Len(todo) = 1 /\ pc' # "put"
           \/ Len(todo) # 1 /\ pc' = "put"
    BY <1>10 DEF Moved
  <2>2. todo # <<>>
    BY <1>1, <2>1
  <2>3. Head(todo) \in Item /\ Tail(todo) \in Seq(Item)
    BY <1>1, <2>2, TailIs
  <2>4. Len(Tail(todo)) = Len(todo) - 1 /\ Len(todo) \in Nat
    BY <1>1, <2>2, TailIs
  <2>5. pc' = "put" <=> todo' # <<>>
    <3>1. CASE Len(todo) = 1
      <4>1. Len(Tail(todo)) = 0
        BY <2>4, <3>1
      <4> QED
        BY <2>1, <2>3, <3>1, <4>1
    <3>2. CASE Len(todo) # 1
      <4>1. Len(Tail(todo)) # 0
        BY <2>4, <3>2
      <4>2. Tail(todo) # <<>>
        <5>1. Len(<<>>) = 0
          OBVIOUS
        <5> QED
          BY <4>1, <5>1
      <4>3. pc' = "put"
        BY <2>1, <3>2
      <4> QED
        BY <2>1, <4>2, <4>3
    <3> QED
      BY <3>1, <3>2
  <2>6. qs' \in [Ports -> Seq(Item)]
    <3>1. qs[port] \in Seq(Item)
      BY <1>1, <1>2
    <3>2. Append(qs[port], Head(todo)) \in Seq(Item)
      BY <2>3, <3>1, AppendIs
    <3>3. CASE qs' = [qs EXCEPT ![port] = Append(@, Head(todo))]
      BY <1>1, <3>2, <3>3
    <3> QED
      BY <1>1, <2>1, <3>3
  <2>7. outdata' \in [Ports -> Seq(Item)]
    <3>1. outdata[port] \in Seq(Item)
      BY <1>1, <1>2
    <3>2. Append(outdata[port], Head(todo)) \in Seq(Item)
      BY <2>3, <3>1, AppendIs
    <3>3. CASE outdata' = [outdata EXCEPT ![port] = Append(@, Head(todo))]
      BY <1>1, <3>2, <3>3
    <3> QED
      BY <1>1, <2>1, <3>3
  <2> QED
    BY <1>1, <1>3, <2>1, <2>3, <2>5, <2>6, <2>7 DEF ItemInv
<1>11. CASE Text
  <2>1. todo' \in Seq(Item) /\ todo' # <<>>
    BY <1>4, <1>11, TextIs
  <2> QED
    BY <1>1, <1>3, <1>11, <2>1 DEF Text, ItemInv
<1>12. CASE Loaded
  <2>1. todo' \in Seq(Item) /\ todo' # <<>>
    BY <1>4, <1>12, ItemsAre
  <2> QED
    BY <1>1, <1>3, <1>12, <2>1 DEF Loaded, ItemInv
<1>13. CASE \E p \in Ports : Went(p)
  BY <1>1, <1>3, <1>5, <1>13 DEF Went, ItemInv
<1>14. CASE \E p \in Ports : Fetched(p)
  <2>1. PICK p \in Ports : Fetched(p)
    BY <1>14
  <2>2. /\ UNCHANGED <<sent, todo, outdata, pc, port>> /\ qs[p] # <<>>
        /\ qd' = [qd EXCEPT ![p] = <<Head(qs[p])>>]
        /\ qs' = [qs EXCEPT ![p] = Tail(@)]
    BY <2>1 DEF Fetched
  <2>3. qs[p] \in Seq(Item)
    BY <1>1
  <2>4. Head(qs[p]) \in Item /\ Tail(qs[p]) \in Seq(Item)
    BY <2>2, <2>3, TailIs
  <2>5. qd' \in [Ports -> Seq(Item)]
    BY <1>1, <2>2, <2>4
  <2>6. qs' \in [Ports -> Seq(Item)]
    BY <1>1, <2>2, <2>4
  <2> QED
    BY <1>1, <1>3, <2>2, <2>5, <2>6 DEF ItemInv
<1> QED
  BY <1>6, <1>7, <1>8, <1>9, <1>10, <1>11, <1>12, <1>13, <1>14

LEMMA GoodNone ==
    ASSUME NEW q, NEW p
    PROVE  Good(q, p, <<>>)
  BY DEF Good

LEMMA GoodLater ==
    ASSUME NEW q \in Seq(Packet), NEW e \in Packet, NEW p, NEW s \in Seq(Item), Good(q, p, s)
    PROVE  Good(Append(q, e), p, s)
<1> SUFFICES ASSUME NEW k \in 1 .. Len(s)
             PROVE  s[k].from \in 1 .. Len(Append(q, e)) /\ Append(q, e)[s[k].from].kind = p
  BY DEF Good
<1>1. s[k].from \in 1 .. Len(q) /\ q[s[k].from].kind = p
  BY DEF Good
<1>2. PICK n : n = s[k].from
  OBVIOUS
<1>3. n \in 1 .. Len(q) /\ q[n].kind = p
  BY <1>1, <1>2
<1>4. n \in 1 .. Len(Append(q, e)) /\ Append(q, e)[n] = q[n]
  BY <1>3, AppendIs
<1> QED
  BY <1>2, <1>3, <1>4

LEMMA GoodRest ==
    ASSUME NEW q, NEW p, NEW s \in Seq(Item), s # <<>>, Good(q, p, s)
    PROVE  Good(q, p, Tail(s)) /\ Good(q, p, <<Head(s)>>)
<1>1. Good(q, p, Tail(s))
  <2> SUFFICES ASSUME NEW k \in 1 .. Len(Tail(s))
               PROVE  Tail(s)[k].from \in 1 .. Len(q) /\ q[Tail(s)[k].from].kind = p
    BY DEF Good
  <2>1. k + 1 \in 1 .. Len(s) /\ Tail(s)[k] = s[k + 1]
    BY TailIs
  <2> QED
    BY <2>1 DEF Good
<1>2. Head(s) = s[1] /\ 1 \in 1 .. Len(s)
  BY TailIs
<1>3. s[1].from \in 1 .. Len(q) /\ q[s[1].from].kind = p
  BY <1>2 DEF Good
<1>4. Good(q, p, <<Head(s)>>)
  <2> DEFINE t == <<Head(s)>>
  <2>1. Len(t) = 1 /\ t[1] = Head(s)
    OBVIOUS
  <2> HIDE DEF t
  <2>2. \A k \in 1 .. Len(t) : k = 1
    BY <2>1
  <2>3. Good(q, p, t)
    BY <1>2, <1>3, <2>1, <2>2 DEF Good
  <2> QED
    BY <2>3 DEF t
<1> QED
  BY <1>1, <1>4

LEMMA GoodAppended ==
    ASSUME NEW q, NEW p, NEW s \in Seq(Item), NEW t \in Seq(Item), t # <<>>, Good(q, p, s), Good(q, p, t)
    PROVE  Good(q, p, Append(s, Head(t)))
<1> DEFINE u == Append(s, Head(t))
<1>1. Head(t) \in Item /\ Head(t) = t[1] /\ 1 \in 1 .. Len(t)
  BY TailIs
<1>2. t[1].from \in 1 .. Len(q) /\ q[t[1].from].kind = p
  BY <1>1 DEF Good
<1>3. Len(u) = Len(s) + 1 /\ (\A k \in 1 .. Len(s) : u[k] = s[k]) /\ u[Len(s) + 1] = t[1]
  BY <1>1, AppendIs
<1> HIDE DEF u
<1>4. ASSUME NEW k \in 1 .. Len(u) PROVE u[k].from \in 1 .. Len(q) /\ q[u[k].from].kind = p
  <2>1. k \in 1 .. Len(s) \/ k = Len(s) + 1
    BY <1>3
  <2>2. CASE k \in 1 .. Len(s)
    <3>1. u[k] = s[k] /\ s[k].from \in 1 .. Len(q) /\ q[s[k].from].kind = p
      BY <1>3, <2>2 DEF Good
    <3> QED
      BY <3>1
  <2>3. CASE k = Len(s) + 1
    BY <1>2, <1>3, <2>3
  <2> QED
    BY <2>1, <2>2, <2>3
<1>5. Good(q, p, u)
  BY <1>4 DEF Good
<1> QED
  BY <1>5 DEF u

(* What was torn stays torn, and a packet that hides a header stays sent *)
LEMMA Monotone ==
    ASSUME StreamInv, Next
    PROVE  (torn => torn') /\ (Dirty => Dirty')
<1>1. sent \in Seq(Packet) /\ port \in Ports /\ pc \in Labels /\ (pc = "data" => port \in {"oled", "pwm"})
  BY DEF StreamInv
<1>2. torn => torn'
  BY <1>1, StreamSteps DEF Still, Elsewhere, Begins, Extends, Fails, Again, First, Kind, Payload,
     ReadFirst, ReadKind, ReadLength, ReadData
<1>3. sent' = sent \/ \E packet \in Packet : sent' = Append(sent, packet)
  BY <1>1, LoadSteps
<1>4. CASE sent' = sent
  BY <1>2, <1>4 DEF Dirty
<1>5. CASE \E packet \in Packet : sent' = Append(sent, packet)
  <2>1. PICK packet \in Packet : sent' = Append(sent, packet)
    BY <1>5
  <2>2. ASSUME Dirty PROVE Dirty'
    <3>1. PICK n \in 1 .. Len(sent) : SO \in ToSet(Tail(Values(sent[n])))
      BY <2>2 DEF Dirty
    <3>2. n \in 1 .. Len(sent') /\ sent'[n] = sent[n]
      BY <1>1, <2>1, AppendIs
    <3>3. SO \in ToSet(Tail(Values(sent'[n])))
      BY <3>1, <3>2
    <3> QED
      BY <3>2, <3>3 DEF Dirty
  <2> QED
    BY <1>2, <2>2
<1> QED
  BY <1>3, <1>4, <1>5

LEMMA KindInvStep ==
    ASSUME StreamInv, ItemInv, KindInv, Next
    PROVE  KindInv'
<1>1. /\ Len(sent) <= MaxLoad
      /\ todo \in Seq(Item) /\ (pc = "put" <=> todo # <<>>)
      /\ qs \in [Ports -> Seq(Item)] /\ qd \in [Ports -> Seq(Item)] /\ outdata \in [Ports -> Seq(Item)]
  <2>1. load \in 0 .. MaxLoad /\ Len(sent) <= load /\ sent \in Seq(Packet) /\ MaxLoad \in Nat
    BY HostAssumption DEF ItemInv, StreamInv
  <2>2. Len(sent) <= MaxLoad
    BY <2>1
  <2> QED
    BY <2>2 DEF ItemInv
<1>2. sent \in Seq(Packet) /\ port \in Ports /\ (pc = "data" => port \in {"oled", "pwm"})
  BY DEF StreamInv
<1> SUFFICES ASSUME ~torn', ~Dirty', NEW p \in {"oled", "pwm"}
             PROVE  /\ Good(sent', p, qs'[p]) /\ Good(sent', p, qd'[p]) /\ Good(sent', p, outdata'[p])
                    /\ port' = p => Good(sent', p, todo')
  BY DEF KindInv
<1>3. ~torn /\ ~Dirty
  BY Monotone
<1>4. /\ Good(sent, p, qs[p]) /\ Good(sent, p, qd[p]) /\ Good(sent, p, outdata[p])
      /\ port = p => Good(sent, p, todo)
  BY <1>3 DEF KindInv
<1>5. p \in Ports /\ qs[p] \in Seq(Item) /\ qd[p] \in Seq(Item) /\ outdata[p] \in Seq(Item)
  BY <1>1 DEF Ports
<1>6. \/ Kept \/ Dropped \/ Returned \/ Moved \/ Text \/ Loaded
      \/ \E r \in Ports : Went(r) \/ Fetched(r)
  BY <1>2, ItemSteps
<1>7. CASE Kept
  <2>1. UNCHANGED <<todo, qs, qd, outdata>> /\ (port' = port \/ pc # "put")
        /\ (sent' = sent \/ \E packet \in Packet : sent' = Append(sent, packet))
    BY <1>7 DEF Kept
  <2>2. port' = p => Good(sent, p, todo)
    <3>1. CASE port' = port
      BY <1>4, <3>1
    <3>2. CASE pc # "put"
      BY <1>1, <3>2, GoodNone
    <3> QED
      BY <2>1, <3>1, <3>2
  <2>3. CASE sent' = sent
    BY <1>4, <2>1, <2>2, <2>3
  <2>4. CASE \E packet \in Packet : sent' = Append(sent, packet)
    <3>1. PICK packet \in Packet : sent' = Append(sent, packet)
      BY <2>4
    <3>2. Good(sent', p, qs[p])
      BY <1>2, <1>4, <1>5, <3>1, GoodLater
    <3>3. Good(sent', p, qd[p])
      BY <1>2, <1>4, <1>5, <3>1, GoodLater
    <3>4. Good(sent', p, outdata[p])
      BY <1>2, <1>4, <1>5, <3>1, GoodLater
    <3>5. port' = p => Good(sent', p, todo)
      BY <1>1, <1>2, <2>2, <3>1, GoodLater
    <3> QED
      BY <2>1, <3>2, <3>3, <3>4, <3>5
  <2> QED
    BY <2>1, <2>3, <2>4
<1>8. CASE Dropped
  BY <1>4, <1>8, GoodNone DEF Dropped
<1>9. CASE Returned
  <2>1. UNCHANGED <<sent, todo, qs, qd>> /\ todo = <<>> /\ outdata' = [outdata EXCEPT ![port] = <<>>]
    BY <1>1, <1>9 DEF Returned
  <2>2. outdata'[p] = outdata[p] \/ outdata'[p] = <<>>
    BY <1>1, <1>5, <2>1
  <2>3. Good(sent, p, outdata'[p])
    BY <1>4, <2>2, GoodNone
  <2> QED
    BY <1>4, <2>1, <2>3, GoodNone
<1>10. CASE Moved
  <2>1. /\ pc = "put" /\ todo' = Tail(todo) /\ UNCHANGED <<sent, qd>>
        /\ qs' = qs \/ qs' = [qs EXCEPT ![port] = Append(@, Head(todo))]
        /\ outdata' = outdata \/ outdata' = [outdata EXCEPT ![port] = Append(@, Head(todo))]
        /\ Len(todo) = 1 \/ port' = port
    BY <1>10 DEF Moved
  <2>2. todo # <<>>
    BY <1>1, <2>1
  <2>3. Good(sent, p, qs'[p])
    <3>1. CASE port = p /\ qs' = [qs EXCEPT ![port] = Append(@, Head(todo))]
      <4>1. qs'[p] = Append(qs[p], Head(todo))
        BY <1>1, <1>5, <3>1
      <4>2. Good(sent, p, Append(qs[p], Head(todo)))
        BY <1>1, <1>4, <1>5, <2>2, <3>1, GoodAppended
      <4> QED
        BY <4>1, <4>2
    <3>2. CASE ~(port = p /\ qs' = [qs EXCEPT ![port] = Append(@, Head(todo))])
      <4>1. qs'[p] = qs[p]
        BY <1>1, <1>5, <2>1, <3>2
      <4> QED
        BY <1>4, <4>1
    <3> QED
      BY <3>1, <3>2
  <2>4. Good(sent, p, outdata'[p])
    <3>1. CASE port = p /\ outdata' = [outdata EXCEPT ![port] = Append(@, Head(todo))]
      <4>1. outdata'[p] = Append(outdata[p], Head(todo))
        BY <1>1, <1>5, <3>1
      <4>2. Good(sent, p, Append(outdata[p], Head(todo)))
        BY <1>1, <1>4, <1>5, <2>2, <3>1, GoodAppended
      <4> QED
        BY <4>1, <4>2
    <3>2. CASE ~(port = p /\ outdata' = [outdata EXCEPT ![port] = Append(@, Head(todo))])
      <4>1. outdata'[p] = outdata[p]
        BY <1>1, <1>5, <2>1, <3>2
      <4> QED
        BY <1>4, <4>1
    <3> QED
      BY <3>1, <3>2
  <2>5. port' = p => Good(sent, p, Tail(todo))
    <3>1. CASE port' = port
      BY <1>1, <1>4, <2>2, <3>1, GoodRest
    <3>2. CASE Len(todo) = 1
      <4>1. Tail(todo) \in Seq(Item) /\ Len(Tail(todo)) = 0
        BY <1>1, <2>2, <3>2, TailIs
      <4>2. Tail(todo) = <<>>
        BY <4>1, NoneLeft
      <4> QED
        BY <4>2, GoodNone
    <3> QED
      BY <2>1, <3>1, <3>2
  <2> QED
    BY <1>4, <2>1, <2>3, <2>4, <2>5
<1>11. CASE Text
  <2>1. UNCHANGED <<sent, qs, qd, outdata>> /\ port' # p
    BY <1>11 DEF Text
  <2> QED
    BY <1>4, <2>1
<1>12. CASE Loaded
  <2>1. UNCHANGED <<sent, qs, qd, outdata, port>>
    BY <1>12 DEF Loaded
  <2>2. Good(sent, port, todo')
    BY <1>1, <1>3, <1>12, ItemsAre
  <2> QED
    BY <1>4, <2>1, <2>2
<1>13. CASE \E r \in Ports : Went(r)
  <2>1. PICK r \in Ports : Went(r)
    BY <1>13
  <2>2. UNCHANGED <<sent, todo, qs, outdata, port>> /\ qd' = [qd EXCEPT ![r] = <<>>]
    BY <2>1 DEF Went
  <2>3. qd'[p] = qd[p] \/ qd'[p] = <<>>
    BY <1>1, <1>5, <2>2
  <2>4. Good(sent, p, qd'[p])
    BY <1>4, <2>3, GoodNone
  <2> QED
    BY <1>4, <2>2, <2>4
<1>14. CASE \E r \in Ports : Fetched(r)
  <2>1. PICK r \in Ports : Fetched(r)
    BY <1>14
  <2>2. /\ UNCHANGED <<sent, todo, outdata, port>> /\ qs[r] # <<>>
        /\ qd' = [qd EXCEPT ![r] = <<Head(qs[r])>>]
        /\ qs' = [qs EXCEPT ![r] = Tail(@)]
    BY <2>1 DEF Fetched
  <2>3. CASE r = p
    <3>1. Good(sent, p, Tail(qs[p])) /\ Good(sent, p, <<Head(qs[p])>>)
      BY <1>4, <1>5, <2>2, <2>3, GoodRest
    <3>2. qs'[p] = Tail(qs[p]) /\ qd'[p] = <<Head(qs[p])>>
      BY <1>1, <1>5, <2>2, <2>3
    <3> QED
      BY <1>4, <2>2, <3>1, <3>2
  <2>4. CASE r # p
    <3>1. qs'[p] = qs[p] /\ qd'[p] = qd[p]
      BY <1>1, <1>5, <2>2, <2>4
    <3> QED
      BY <1>4, <2>2, <3>1
  <2> QED
    BY <2>3, <2>4
<1> QED
  BY <1>6, <1>7, <1>8, <1>9, <1>10, <1>11, <1>12, <1>13, <1>14

(* What is held for a port is of packets of its kind *)
LEMMA HeldGood ==
    ASSUME NEW q, NEW p, NEW a \in Seq(Item), NEW b \in Seq(Item), NEW c \in Seq(Item),
           Good(q, p, a), Good(q, p, b), Good(q, p, c),
           NEW i \in ToSet(a \o b \o c)
    PROVE  i.from \in 1 .. Len(q) /\ q[i.from].kind = p
<1> DEFINE s == a \o b \o c
<1>1. s \in Seq(Item) /\ DOMAIN s = 1 .. Len(s) /\ Len(s) = Len(a) + Len(b) + Len(c)
  OBVIOUS
<1>2. PICK k \in 1 .. Len(s) : i = s[k]
  BY <1>1 DEF ToSet
<1>3. Len(a) \in Nat /\ Len(b) \in Nat /\ Len(c) \in Nat
  OBVIOUS
<1>4. CASE k <= Len(a)
  <2>1. s[k] = a[k] /\ k \in 1 .. Len(a)
    BY <1>2, <1>4
  <2> QED
    BY <1>2, <2>1 DEF Good
<1>5. CASE k > Len(a) /\ k <= Len(a) + Len(b)
  <2>1. PICK y : y = k - Len(a)
    OBVIOUS
  <2>2. s[k] = b[y] /\ y \in 1 .. Len(b)
    BY <1>2, <1>3, <1>5, <2>1
  <2> QED
    BY <1>2, <2>2 DEF Good
<1>6. CASE k > Len(a) + Len(b)
  <2>1. PICK y : y = k - Len(a) - Len(b)
    OBVIOUS
  <2>2. s[k] = c[y] /\ y \in 1 .. Len(c)
    BY <1>1, <1>2, <1>3, <1>6, <2>1
  <2> QED
    BY <1>2, <2>2 DEF Good
<1> QED
  BY <1>3, <1>4, <1>5, <1>6

LEMMA ItemInit ==
    ASSUME Init
    PROVE  ItemInv /\ KindInv
<1>1. /\ sent = <<>> /\ load = 0 /\ todo = <<>> /\ pc = "top" /\ MaxLoad \in Nat
      /\ <<>> \in Seq(Item)
  BY HostAssumption DEF Init, SidesInit
<1>2. qs = [p \in Ports |-> <<>>] /\ qd = [p \in Ports |-> <<>>] /\ outdata = [p \in Ports |-> <<>>]
  BY DEF Init, BridgeInit, DecoderInit
<1>3. qs \in [Ports -> Seq(Item)] /\ qd \in [Ports -> Seq(Item)] /\ outdata \in [Ports -> Seq(Item)]
  BY <1>1, <1>2
<1>4. ItemInv
  BY <1>1, <1>3 DEF ItemInv
<1>5. \A p \in {"oled", "pwm"} : qs[p] = <<>> /\ qd[p] = <<>> /\ outdata[p] = <<>>
  BY <1>2 DEF Ports
<1>6. KindInv
  BY <1>1, <1>5, GoodNone DEF KindInv
<1> QED
  BY <1>4, <1>6

(* THEOREM HostDecodedWasSent: what any of the three programs relays as a   *)
(* picture or a duty cycle is one whole packet of that kind that the board  *)
(* sent, unless a read was cut in two or a packet holds a second SO.        *)
THEOREM HostDecodedWasSent == Spec => []DecodedWasSent
<1> DEFINE Inv == StreamInv /\ ItemInv /\ KindInv
<1>1. Init => Inv
  BY StreamInit, ItemInit
<1>2. Inv /\ [Next]_vars => Inv'
  <2> SUFFICES ASSUME Inv, [Next]_vars PROVE Inv'
    OBVIOUS
  <2>1. StreamInv'
    BY StreamStep
  <2>2. CASE Next
    BY <2>1, <2>2, ItemInvStep, KindInvStep
  <2>3. CASE UNCHANGED vars
    <3>1. UNCHANGED <<sent, load, todo, pc, port, torn, qs, qd, outdata>>
      BY <2>3 DEF vars, sides, board, serial, stream, bvars, dvars, tcp
    <3>2. ItemInv'
      BY <3>1 DEF ItemInv
    <3>3. KindInv'
      BY <3>1 DEF KindInv, Dirty
    <3> QED
      BY <2>1, <3>2, <3>3
  <2> QED
    BY <2>2, <2>3
<1>3. Inv => DecodedWasSent
  <2> SUFFICES ASSUME Inv, ~torn, ~Dirty, NEW p \in {"oled", "pwm"}, NEW i \in ToSet(Held(p))
               PROVE  i.from # 0 /\ sent[i.from].kind = p
    BY DEF DecodedWasSent
  <2>1. Good(sent, p, qs[p]) /\ Good(sent, p, qd[p]) /\ Good(sent, p, outdata[p])
    BY DEF KindInv
  <2>2. qs[p] \in Seq(Item) /\ qd[p] \in Seq(Item) /\ outdata[p] \in Seq(Item)
    BY DEF ItemInv, Ports
  <2>3. i.from \in 1 .. Len(sent) /\ sent[i.from].kind = p
    BY <2>1, <2>2, HeldGood DEF Held
  <2>4. sent \in Seq(Packet)
    BY DEF StreamInv
  <2> QED
    BY <2>3, <2>4
<1> QED
  BY <1>1, <1>2, <1>3, PTL DEF Spec

-----------------------------------------------------------------------------
(* What a step may do to what waits for the clients.  Of decode.py: *)
Places == {"select", "handle", "put", "get", "send", "ended"}
Away == UNCHANGED <<qs, qd, outdata, got>>
Ahead(p) ==
    /\ tpc[p] \in {"select", "handle", "put", "get"}
    /\ \E l \in {"select", "handle", "put", "get", "ended"} : tpc' = [tpc EXCEPT ![p] = l]
Idles ==
    /\ program = "decode" /\ Away /\ (pc' = "handle" => pc = "handle")
    /\ tpc' = tpc \/ (\E p \in Ports : Ahead(p)) \/ tpc' = [p \in Ports |-> "ended"]
Queues ==
    /\ program = "decode" /\ pc = "put" /\ pc' # "handle" /\ UNCHANGED <<qd, tpc, outdata, got>>
    /\ qs' = qs \/ (~Full(port) /\ qs' = [qs EXCEPT ![port] = Append(@, Head(todo))])
Draws(p) ==
    /\ program = "decode" /\ tpc[p] = "get" /\ tpc' = [tpc EXCEPT ![p] = "send"]
    /\ Fetched(p) /\ UNCHANGED got
Hands(p) ==
    /\ program = "decode" /\ tpc[p] = "send" /\ UNCHANGED <<qs, outdata, pc>>
    /\ \E l \in {"select", "ended"} : tpc' = [tpc EXCEPT ![p] = l]
    /\ qd' = [qd EXCEPT ![p] = <<>>]
    /\ \E to \in SUBSET outputs[p] :
         got' = [c \in Clients |-> IF c \in to THEN got[c] \o qd[p] ELSE got[c]]

(* and of the other two *)
Waits == program # "decode" /\ Away /\ UNCHANGED <<pc, port, todo, able, broken>>
Parses ==
    /\ program # "decode" /\ Away /\ (broken => broken')
    /\ pc \notin {"serve", "handle", "put"} /\ pc' # "handle"
    /\ pc' = "put" => Text \/ Loaded
Appends ==
    /\ program # "decode" /\ pc = "put" /\ ~broken /\ UNCHANGED <<broken, got>>
    /\ outdata' = [outdata EXCEPT ![port] = Append(@, Head(todo))]
    /\ todo' = Tail(todo)
    /\ \/ Len(todo) = 1 /\ pc' = "serve" /\ port' = "raw"
       \/ Len(todo) # 1 /\ UNCHANGED <<pc, port>>
Breaks == program # "decode" /\ broken /\ broken' /\ pc # "handle" /\ pc' # "handle" /\ Away
Skips ==
    /\ program = "ep" /\ pc = "serve" /\ (port = "raw" \/ outdata[port] = <<>>)
    /\ Onwards /\ Away /\ UNCHANGED broken
Polls ==
    /\ program # "decode" /\ pc = "serve" /\ pc' = "handle" /\ Away /\ UNCHANGED <<port, broken>>
    /\ able' = {} \/ able' = outputs[port]
Portion(c) == \E m \in 0 .. Len(outdata[port]) : got'[c] = got[c] \o SubSeq(outdata[port], 1, m)
Answers ==
    /\ program # "decode" /\ pc = "handle" /\ UNCHANGED <<qs, qd, outdata, pc, port, broken>>
    /\ able' \subseteq able
    /\ \A c \in Clients : got'[c] = got[c] \/ (c \in able \ able' /\ Portion(c))
Returns ==
    /\ program # "decode" /\ pc \in {"serve", "handle"}
    /\ outdata' = [outdata EXCEPT ![port] = <<>>] /\ Onwards /\ UNCHANGED <<qs, qd, broken>>
    /\ \A c \in Clients : got'[c] = got[c] \/ (pc = "handle" /\ c \in able \cap outputs[port] /\ Portion(c))

LEMMA ReadingTurns ==
    ASSUME StEp(StFraming) \/ StEp(EpFraming), pc = "data" => port \in {"oled", "pwm"}
    PROVE  Parses
<1>1. program # "decode" /\ UNCHANGED <<qs, qd>>
  BY DEF StEp, bvars, tcp
<1>2. UNCHANGED outdata /\ (broken => broken')
  <2>1. CASE StEp(StFraming)
    <3>1. UNCHANGED outdata
      BY <2>1 DEF StEp, StFraming
    <3>2. broken => broken'
      BY <2>1, Zenon DEF StEp, StFraming
    <3> QED
      BY <3>1, <3>2
  <2>2. CASE StEp(EpFraming)
    BY <2>2 DEF StEp, EpFraming, dvars
  <2> QED
    BY <2>1, <2>2
<1>3. First \/ Kind \/ ReadLength \/ Payload \/ Again
  BY FramingDoes
<1>4. Kept \/ Text \/ Loaded
  BY FramingItems
<1>5. pc \in {"first", "kind", "length", "data", "sleep"}
  BY <1>3 DEF First, Kind, Payload, Again, ReadFirst, ReadKind, ReadLength, ReadData
<1>6. pc' # "handle"
  BY <1>3 DEF First, Kind, Payload, Again, ReadFirst, ReadKind, ReadLength, ReadData, Goto
<1>7. pc' = "put" => Text \/ Loaded
  BY <1>4, <1>5 DEF Kept
<1>8. UNCHANGED got
  <2>1. ASSUME NEW k, NEW n, MyRead(k, n) PROVE UNCHANGED clients
    BY <2>1 DEF MyRead
  <2>2. UNCHANGED clients
    <3>1. CASE First
      BY <2>1, <3>1 DEF First, ReadFirst
    <3>2. CASE Kind
      BY <2>1, <3>2 DEF Kind, ReadKind
    <3>3. CASE ReadLength
      BY <2>1, <3>3 DEF ReadLength
    <3>4. CASE Payload
      BY <2>1, <3>4 DEF Payload, ReadData
    <3>5. CASE Again
      <4>1. ASSUME Reopen PROVE UNCHANGED clients
        BY <4>1 DEF Reopen
      <4> QED
        BY <3>5, <4>1 DEF Again, StEp, StFraming, EpFraming, ReadFirst, ReadKind, ReadLength, ReadData
    <3> QED
      BY <1>3, <3>1, <3>2, <3>3, <3>4, <3>5
  <2> QED
    BY <2>2 DEF clients
<1> QED
  BY <1>1, <1>2, <1>5, <1>6, <1>7, <1>8 DEF Parses, Away

LEMMA TurnSteps ==
    ASSUME Next, pc = "data" => port \in {"oled", "pwm"},
           got \in [Clients -> Seq(Item)]
    PROVE  \/ Idles \/ Queues \/ \E p \in Ports : Draws(p) \/ Hands(p)
           \/ Waits \/ Parses \/ Appends \/ Breaks \/ Skips \/ Polls \/ Answers \/ Returns
<1>1. CASE Decode(TakeCommand)
  BY <1>1 DEF Decode, TakeCommand, Goto, clients, tcp, dvars, Idles, Away
<1>2. CASE Decode(PutItem)
  BY <1>2 DEF Decode, PutItem, Goto, clients, tcp, dvars, Queues
<1>3. CASE \E p \in Ports :
              \/ Decode(Select(p)) \/ Decode(Accept(p))
              \/ Decode(Recv(p)) \/ Decode(RecvFails(p)) \/ Decode(PutCommands(p))
              \/ Decode(GetItem(p)) \/ Decode(Send(p))
  <2>1. PICK p \in Ports : \/ Select(p) \/ Accept(p) \/ Recv(p) \/ RecvFails(p) \/ PutCommands(p)
                           \/ GetItem(p) \/ Send(p)
    BY <1>3 DEF Decode
  <2>2. UNCHANGED Others /\ UNCHANGED dvars /\ program = "decode"
    BY <1>3, <2>1 DEF Decode, Select, Accept, Recv, RecvFails, PutCommands, GetItem, Send
  <2>3. UNCHANGED <<sent, todo, outdata, pc, port>>
    BY <2>2 DEF Others, board, serial, dvars
  <2>4. CASE Select(p) \/ Accept(p) \/ Recv(p) \/ RecvFails(p) \/ PutCommands(p)
    <3>1. UNCHANGED <<qs, qd, got>>
      BY <2>4 DEF Select, Accept, Recv, RecvFails, PutCommands
    <3>2. Ahead(p)
      <4>1. tpc[p] \in {"select", "handle", "put"}
        BY <2>4 DEF Select, Accept, Recv, RecvFails, PutCommands
      <4>2. \E l \in {"select", "handle", "put", "get", "ended"} : tpc' = [tpc EXCEPT ![p] = l]
        BY <2>4 DEF Select, Accept, Recv, RecvFails, PutCommands, Use, Handled, Step, NextRound
      <4> QED
        BY <4>1, <4>2 DEF Ahead
    <3> QED
      BY <2>2, <2>3, <3>1, <3>2 DEF Idles, Away
  <2>5. CASE GetItem(p)
    <3>1. tpc[p] = "get" /\ UNCHANGED got
      BY <2>5 DEF GetItem
    <3>2. \/ UNCHANGED <<qs, qd>> /\ (\E l \in {"select", "ended"} : tpc' = [tpc EXCEPT ![p] = l])
          \/ /\ qs[p] # <<>> /\ qd' = [qd EXCEPT ![p] = <<Head(qs[p])>>]
             /\ qs' = [qs EXCEPT ![p] = Tail(@)] /\ tpc' = [tpc EXCEPT ![p] = "send"]
      BY <2>5 DEF GetItem, Step, NextRound
    <3>3. CASE UNCHANGED <<qs, qd>> /\ (\E l \in {"select", "ended"} : tpc' = [tpc EXCEPT ![p] = l])
      <4>1. Ahead(p)
        BY <3>1, <3>3 DEF Ahead
      <4> QED
        BY <2>2, <2>3, <3>1, <3>3, <4>1 DEF Idles, Away
    <3>4. CASE /\ qs[p] # <<>> /\ qd' = [qd EXCEPT ![p] = <<Head(qs[p])>>]
               /\ qs' = [qs EXCEPT ![p] = Tail(@)] /\ tpc' = [tpc EXCEPT ![p] = "send"]
      <4>1. Draws(p)
        BY <2>2, <2>3, <3>1, <3>4 DEF Draws, Fetched
      <4> QED
        BY <4>1
    <3> QED
      BY <3>2, <3>3, <3>4
  <2>6. CASE Send(p)
    <3>1. tpc[p] = "send" /\ UNCHANGED qs /\ qd' = [qd EXCEPT ![p] = <<>>]
          /\ (\E l \in {"select", "ended"} : tpc' = [tpc EXCEPT ![p] = l])
      BY <2>6 DEF Send, Step, NextRound
    <3>2. \E to \in SUBSET outputs[p] :
            got' = [c \in Clients |-> IF c \in to THEN got[c] \o qd[p] ELSE got[c]]
      <4>1. PICK to \in SUBSET {c \in writable[p] \cap outputs[p] : link[c] = "open"} :
              got' = [c \in Clients |-> IF c \in to THEN got[c] \o qd[p] ELSE got[c]]
        BY <2>6 DEF Send
      <4> QED
        BY <4>1
    <3>3. Hands(p)
      BY <2>2, <2>3, <3>1, <3>2 DEF Hands
    <3> QED
      BY <3>3
  <2> QED
    BY <2>1, <2>4, <2>5, <2>6
<1>4. CASE Decode(MainEnds)
  <2>1. tpc' = [p \in Ports |-> "ended"] /\ UNCHANGED <<qs, qd, outdata, got, pc>> /\ program = "decode"
    BY <1>4 DEF Decode, MainEnds, dvars, Others, serial
  <2> QED
    BY <2>1 DEF Idles, Away
<1>5. CASE StEp(Start)
  BY <1>5 DEF StEp, Start, Goto, bvars, tcp, dvars, clients, Parses, Away
<1>6. CASE Decode(Framing)
  <2>1. UNCHANGED bvars /\ UNCHANGED dvars /\ program = "decode"
    BY <1>6 DEF Decode, Framing
  <2>2. UNCHANGED got
    <3>1. ASSUME NEW k, NEW n, MyRead(k, n) PROVE UNCHANGED clients
      BY <3>1 DEF MyRead
    <3>2. UNCHANGED clients
      <4>1. First \/ Kind \/ ReadLength \/ Payload \/ Reopen
        BY <1>6 DEF Decode, Framing, First, Kind, Payload
      <4>2. CASE First
        BY <3>1, <4>2 DEF First, ReadFirst
      <4>3. CASE Kind
        BY <3>1, <4>3 DEF Kind, ReadKind
      <4>4. CASE ReadLength
        BY <3>1, <4>4 DEF ReadLength
      <4>5. CASE Payload
        BY <3>1, <4>5 DEF Payload, ReadData
      <4>6. CASE Reopen
        BY <4>6 DEF Reopen
      <4> QED
        BY <4>1, <4>2, <4>3, <4>4, <4>5, <4>6
    <3> QED
      BY <3>2 DEF clients
  <2>3. pc' # "handle"
    <3>1. First \/ Kind \/ ReadLength \/ Payload \/ Again
      BY <1>6, FramingDoes
    <3> QED
      BY <3>1 DEF First, Kind, Payload, Again, ReadFirst, ReadKind, ReadLength, ReadData, Goto
  <2> QED
    BY <2>1, <2>2, <2>3 DEF bvars, tcp, dvars, Idles, Away
<1>7. CASE StEp(StFraming) \/ StEp(EpFraming)
  BY <1>7, ReadingTurns
<1>8. CASE StEp(AppendItem)
  BY <1>8 DEF StEp, AppendItem, Goto, clients, Appends
<1>9. CASE StEp(Raises)
  BY <1>9 DEF StEp, Raises, Goto, bvars, tcp, dvars, clients, Breaks, Away
<1>10. CASE StEp(SkipPort)
  BY <1>10 DEF StEp, SkipPort, Quiet, bvars, tcp, clients, Skips, Away
<1>11. CASE StEp(Poll)
  <2>1. pc = "serve" /\ UNCHANGED Quiet /\ UNCHANGED clients /\ UNCHANGED bvars /\ program # "decode"
    BY <1>11 DEF StEp, Poll
  <2>2. Return \/ (pc' = "handle" /\ UNCHANGED <<port, outdata>> /\ (able' = {} \/ able' = outputs[port]))
    BY <1>11 DEF StEp, Poll, Goto
  <2>3. CASE Return
    BY <2>1, <2>3 DEF Return, Returns, Quiet, clients, bvars, tcp
  <2>4. CASE pc' = "handle" /\ UNCHANGED <<port, outdata>> /\ (able' = {} \/ able' = outputs[port])
    BY <2>1, <2>4 DEF Polls, Away, Quiet, clients, bvars, tcp
  <2> QED
    BY <2>2, <2>3, <2>4
<1>12. CASE StEp(AcceptOne)
  BY <1>12 DEF StEp, AcceptOne, Quiet, bvars, tcp, Answers
<1>13. CASE StEp(RecvRaises)
  BY <1>13 DEF StEp, RecvRaises, Quiet, bvars, tcp, Return, Returns
<1>14. CASE StEp(StRecv)
  BY <1>14 DEF StEp, StRecv, Quiet, bvars, tcp, Answers
<1>15. CASE StEp(StSend)
  <2>1. /\ pc = "handle" /\ program # "decode" /\ UNCHANGED Quiet /\ UNCHANGED bvars /\ Return
    BY <1>15 DEF StEp, StSend
  <2>2. PICK part \in [{c \in able \cap outputs[port] : link[c] = "open"} -> 0 .. Len(outdata[port])] :
         got' = [c \in Clients |-> IF c \in DOMAIN part THEN got[c] \o SubSeq(outdata[port], 1, part[c])
                                   ELSE got[c]]
    BY <1>15 DEF StEp, StSend
  <2>3. ASSUME NEW c \in Clients
        PROVE  got'[c] = got[c] \/ (c \in able \cap outputs[port] /\ Portion(c))
    <3>1. CASE c \in DOMAIN part
      BY <2>2, <3>1 DEF Portion
    <3>2. CASE c \notin DOMAIN part
      BY <2>2, <3>2
    <3> QED
      BY <3>1, <3>2
  <2> QED
    BY <2>1, <2>3 DEF Return, Returns, Quiet, bvars, tcp
<1>16. CASE StEp(EpHangUp)
  BY <1>16 DEF StEp, EpHangUp, Quiet, bvars, tcp, Answers
<1>17. CASE StEp(EpRecvSend)
  <2>1. /\ pc = "handle" /\ program # "decode" /\ UNCHANGED Quiet /\ UNCHANGED bvars
        /\ UNCHANGED <<pc, port, outdata>>
    BY <1>17 DEF StEp, EpRecvSend
  <2>2. PICK c :
         /\ able' = able \ {c}
         /\ got' = got \/ (c \in able /\ \E part \in 0 .. Len(outdata[port]) :
                              got' = [got EXCEPT ![c] = @ \o SubSeq(outdata[port], 1, part)])
    BY <1>17 DEF StEp, EpRecvSend
  <2>3. ASSUME NEW d \in Clients
        PROVE  got'[d] = got[d] \/ (d \in able \ able' /\ Portion(d))
    BY <2>2 DEF Portion
  <2> QED
    BY <2>1, <2>2, <2>3 DEF Answers, Quiet, bvars, tcp
<1>18. CASE StEp(EpReturn)
  BY <1>18 DEF StEp, EpReturn, Quiet, bvars, tcp, clients, Return, Returns
<1>19. CASE StEp(WriteCommands)
  BY <1>19 DEF StEp, WriteCommands, Goto, bvars, tcp, clients, Parses, Away
<1>20. CASE Around(BoardSends)
  BY <1>20 DEF Around, BoardSends, bvars, tcp, dvars, clients, serial, Waits, Idles, Away
<1>21. CASE Around(ReadFails)
  BY <1>21 DEF Around, ReadFails, Goto, bvars, tcp, dvars, clients, Parses, Idles, Away
<1>22. CASE Around(PicoEnds)
  BY <1>22 DEF Around, PicoEnds, Goto, bvars, tcp, dvars, clients, Parses, Idles, Away
<1>23. CASE \E c \in Clients :
              Served(c) /\ (Around(Connect(c)) \/ Around(SendCommand(c)) \/ Around(Leave(c)))
  <2>1. UNCHANGED Client
    BY <1>23 DEF Around, Connect, SendCommand, Leave
  <2>2. UNCHANGED bvars /\ UNCHANGED dvars
    BY <1>23 DEF Around
  <2> QED
    BY <2>1, <2>2 DEF Client, serial, bvars, tcp, dvars, Waits, Idles, Away
<1> QED
  BY <1>1, <1>2, <1>3, <1>4, <1>5, <1>6, <1>7, <1>8, <1>9, <1>10, <1>11, <1>12, <1>13, <1>14, <1>15,
     <1>16, <1>17, <1>18, <1>19, <1>20, <1>21, <1>22, <1>23 DEF Next

LEMMA ProgramStays ==
    ASSUME Next
    PROVE  program' = program
<1> USE DEF board
<1>1. CASE Decode(TakeCommand)
  BY <1>1 DEF Decode, TakeCommand
<1>2. CASE Decode(PutItem)
  BY <1>2 DEF Decode, PutItem
<1>3. CASE \E p \in Ports :
              \/ Decode(Select(p)) \/ Decode(Accept(p))
              \/ Decode(Recv(p)) \/ Decode(RecvFails(p)) \/ Decode(PutCommands(p))
              \/ Decode(GetItem(p)) \/ Decode(Send(p))
  <2>1. UNCHANGED Others
    BY <1>3 DEF Decode, Select, Accept, Recv, RecvFails, PutCommands, GetItem, Send
  <2> QED
    BY <2>1 DEF Others
<1>4. CASE Decode(MainEnds)
  BY <1>4 DEF Decode, MainEnds, Others
<1>5. CASE StEp(Start)
  BY <1>5 DEF StEp, Start
<1>6. CASE Decode(Framing) \/ StEp(StFraming) \/ StEp(EpFraming)
  <2>1. \/ First \/ Kind \/ ReadLength \/ Payload \/ Reopen
    <3>1. CASE Decode(Framing)
      BY <3>1 DEF Decode, Framing, First, Kind, Payload
    <3>2. CASE StEp(StFraming) \/ StEp(EpFraming)
      BY <3>2 DEF StEp, StFraming, EpFraming, First, Kind, Payload
    <3> QED
      BY <1>6, <3>1, <3>2
  <2> QED
    BY <2>1 DEF First, ReadFirst, Kind, ReadKind, ReadLength, Payload, ReadData, MyRead, Reopen
<1>7. CASE StEp(AppendItem) \/ StEp(Raises)
  BY <1>7 DEF StEp, AppendItem, Raises
<1>8. CASE StEp(SkipPort) \/ StEp(Poll) \/ StEp(AcceptOne) \/ StEp(RecvRaises) \/ StEp(StRecv)
  <2>1. UNCHANGED Quiet
    BY <1>8 DEF StEp, SkipPort, Poll, AcceptOne, RecvRaises, StRecv
  <2> QED
    BY <2>1 DEF Quiet
<1>9. CASE StEp(StSend) \/ StEp(EpHangUp) \/ StEp(EpRecvSend) \/ StEp(EpReturn)
  <2>1. UNCHANGED Quiet
    BY <1>9 DEF StEp, StSend, EpHangUp, EpRecvSend, EpReturn
  <2> QED
    BY <2>1 DEF Quiet
<1>10. CASE StEp(WriteCommands)
  BY <1>10 DEF StEp, WriteCommands
<1>11. CASE Around(BoardSends)
  BY <1>11 DEF Around, BoardSends
<1>12. CASE Around(ReadFails) \/ Around(PicoEnds)
  BY <1>12 DEF Around, ReadFails, PicoEnds
<1>13. CASE \E c \in Clients :
              Served(c) /\ (Around(Connect(c)) \/ Around(SendCommand(c)) \/ Around(Leave(c)))
  BY <1>13 DEF Around, Connect, SendCommand, Leave, Client
<1> QED
  BY <1>1, <1>2, <1>3, <1>4, <1>5, <1>6, <1>7, <1>8, <1>9, <1>10, <1>11, <1>12, <1>13 DEF Next

LEMMA OthersStay ==
    ASSUME Next
    PROVE  /\ program = "decode" => UNCHANGED dvars
           /\ program # "decode" => UNCHANGED bvars
  BY DEF Next, Decode, StEp, Around

(* Each process of decode.py holds an item only while it sends it, and the *)
(* other programs have no queues                                           *)
QueueInv ==
    /\ program = "decode" => \A p \in Ports : outdata[p] = <<>>
    /\ program # "decode" => \A p \in Ports : qs[p] = <<>> /\ qd[p] = <<>>
    /\ tpc \in [Ports -> Places]
    /\ \A p \in Ports :
         /\ Len(qs[p]) <= OutSize[p] /\ Len(qd[p]) <= 1
         /\ tpc[p] = "send" => Len(qd[p]) = 1
         /\ tpc[p] \notin {"send", "ended"} => qd[p] = <<>>

LEMMA QueueInvStep ==
    ASSUME StreamInv, ItemInv, QueueInv, got \in [Clients -> Seq(Item)], Next
    PROVE  QueueInv'
<1>1. /\ port \in Ports /\ (pc = "data" => port \in {"oled", "pwm"})
      /\ (pc = "put" <=> todo # <<>>) /\ todo \in Seq(Item)
      /\ qs \in [Ports -> Seq(Item)] /\ qd \in [Ports -> Seq(Item)] /\ outdata \in [Ports -> Seq(Item)]
      /\ program' = program
  BY ProgramStays DEF StreamInv, ItemInv
<1>2. /\ program = "decode" => \A p \in Ports : outdata[p] = <<>>
      /\ program # "decode" => \A p \in Ports : qs[p] = <<>> /\ qd[p] = <<>>
      /\ tpc \in [Ports -> Places]
      /\ \A p \in Ports :
           /\ Len(qs[p]) <= OutSize[p] /\ Len(qd[p]) <= 1
           /\ tpc[p] = "send" => Len(qd[p]) = 1
           /\ tpc[p] \notin {"send", "ended"} => qd[p] = <<>>
  BY DEF QueueInv
<1>3. OutSize \in [Ports -> Nat \ {0}]
  BY BridgeAssumption
<1>4. /\ program = "decode" => UNCHANGED outdata
      /\ program # "decode" => UNCHANGED <<qs, qd, tpc>>
  BY OthersStay DEF dvars, bvars, tcp
<1>5. CASE program # "decode"
  BY <1>1, <1>2, <1>4, <1>5 DEF QueueInv
<1>6. CASE program = "decode"
  <2>1. Idles \/ Queues \/ \E p \in Ports : Draws(p) \/ Hands(p)
    <3>1. \/ Idles \/ Queues \/ \E p \in Ports : Draws(p) \/ Hands(p)
          \/ Waits \/ Parses \/ Appends \/ Breaks \/ Skips \/ Polls \/ Answers \/ Returns
      BY <1>1, TurnSteps
    <3> QED
      BY <1>6, <3>1 DEF Waits, Parses, Appends, Breaks, Skips, Polls, Answers, Returns
  <2>2. (program' = "decode" => \A p \in Ports : outdata'[p] = <<>>) /\ program' = "decode"
    BY <1>1, <1>2, <1>4, <1>6
  <2>3. CASE Idles
    <3>1. UNCHANGED <<qs, qd>>
      BY <2>3 DEF Idles, Away
    <3>2. CASE tpc' = tpc
      BY <1>2, <2>2, <3>1, <3>2 DEF QueueInv
    <3>3. CASE \E p \in Ports : Ahead(p)
      <4>1. PICK p \in Ports : Ahead(p)
        BY <3>3
      <4>2. PICK l \in {"select", "handle", "put", "get", "ended"} : tpc' = [tpc EXCEPT ![p] = l]
        BY <4>1 DEF Ahead
      <4>3. tpc' \in [Ports -> Places]
        BY <1>2, <4>2 DEF Places
      <4>4. qd[p] = <<>> /\ tpc'[p] # "send"
        BY <1>2, <4>1, <4>2 DEF Ahead
      <4>5. \A r \in Ports : r # p => tpc'[r] = tpc[r]
        BY <1>2, <4>2
      <4>6. ASSUME NEW r \in Ports
            PROVE  /\ Len(qs'[r]) <= OutSize[r] /\ Len(qd'[r]) <= 1
                   /\ tpc'[r] = "send" => Len(qd'[r]) = 1
                   /\ tpc'[r] \notin {"send", "ended"} => qd'[r] = <<>>
        <5>1. CASE r = p
          BY <1>2, <3>1, <4>4, <5>1
        <5>2. CASE r # p
          BY <1>2, <3>1, <4>5, <5>2
        <5> QED
          BY <5>1, <5>2
      <4> QED
        BY <2>2, <4>3, <4>6 DEF QueueInv
    <3>4. CASE tpc' = [p \in Ports |-> "ended"]
      <4>1. tpc' \in [Ports -> Places] /\ \A p \in Ports : tpc'[p] = "ended"
        BY <3>4 DEF Places
      <4> QED
        BY <1>2, <2>2, <3>1, <4>1 DEF QueueInv
    <3> QED
      BY <2>3, <3>2, <3>3, <3>4 DEF Idles
  <2>4. CASE Queues
    <3>1. pc = "put" /\ UNCHANGED <<qd, tpc>>
          /\ (qs' = qs \/ (~Full(port) /\ qs' = [qs EXCEPT ![port] = Append(@, Head(todo))]))
      BY <2>4 DEF Queues
    <3>2. CASE qs' = qs
      BY <1>2, <2>2, <3>1, <3>2 DEF QueueInv
    <3>3. CASE ~Full(port) /\ qs' = [qs EXCEPT ![port] = Append(@, Head(todo))]
      <4>1. Head(todo) \in Item /\ qs[port] \in Seq(Item)
        <5>1. todo # <<>>
          BY <1>1, <3>1
        <5> QED
          BY <1>1, <5>1, TailIs
      <4>2. Len(Append(qs[port], Head(todo))) = Len(qs[port]) + 1
        BY <4>1, AppendIs
      <4>3. Len(qs[port]) + 1 <= OutSize[port]
        <5>1. OutSize[port] \in Nat /\ Len(qs[port]) \in Nat /\ ~(Len(qs[port]) >= OutSize[port])
          BY <1>1, <1>3, <3>3, <4>1 DEF Full
        <5> QED
          BY <5>1
      <4>4. ASSUME NEW r \in Ports PROVE Len(qs'[r]) <= OutSize[r]
        <5>1. CASE r = port
          <6>1. qs'[r] = Append(qs[port], Head(todo))
            BY <1>1, <3>3, <5>1
          <6> QED
            BY <4>2, <4>3, <5>1, <6>1
        <5>2. CASE r # port
          <6>1. qs'[r] = qs[r]
            BY <1>1, <3>3, <5>2
          <6> QED
            BY <1>2, <6>1
        <5> QED
          BY <5>1, <5>2
      <4> QED
        BY <1>2, <2>2, <3>1, <4>4 DEF QueueInv
    <3> QED
      BY <3>1, <3>2, <3>3
  <2>5. CASE \E p \in Ports : Draws(p)
    <3>1. PICK p \in Ports : Draws(p)
      BY <2>5
    <3>2. /\ tpc' = [tpc EXCEPT ![p] = "send"] /\ qs[p] # <<>>
          /\ qd' = [qd EXCEPT ![p] = <<Head(qs[p])>>]
          /\ qs' = [qs EXCEPT ![p] = Tail(@)]
      BY <3>1 DEF Draws, Fetched
    <3>3. tpc' \in [Ports -> Places]
      BY <1>2, <3>2 DEF Places
    <3>4. qs'[p] = Tail(qs[p]) /\ qd'[p] = <<Head(qs[p])>> /\ tpc'[p] = "send"
      BY <1>1, <1>2, <3>2
    <3>5. Len(qd'[p]) = 1
      BY <3>4
    <3>6. Len(qs'[p]) <= OutSize[p]
      <4>1. qs[p] \in Seq(Item)
        BY <1>1
      <4>2. Len(Tail(qs[p])) = Len(qs[p]) - 1 /\ Len(qs[p]) \in Nat
        BY <3>2, <4>1, TailIs
      <4>3. Len(qs[p]) <= OutSize[p] /\ OutSize[p] \in Nat
        BY <1>2, <1>3
      <4> QED
        BY <3>4, <4>2, <4>3
    <3>7. ASSUME NEW r \in Ports
          PROVE  /\ Len(qs'[r]) <= OutSize[r] /\ Len(qd'[r]) <= 1
                 /\ tpc'[r] = "send" => Len(qd'[r]) = 1
                 /\ tpc'[r] \notin {"send", "ended"} => qd'[r] = <<>>
      <4>1. CASE r = p
        <5>1. Len(qd'[r]) = 1 /\ Len(qs'[r]) <= OutSize[r] /\ tpc'[r] = "send"
          BY <3>4, <3>5, <3>6, <4>1
        <5> QED
          BY <5>1
      <4>2. CASE r # p
        <5>1. qs'[r] = qs[r] /\ qd'[r] = qd[r] /\ tpc'[r] = tpc[r]
          BY <1>1, <1>2, <3>2, <4>2
        <5> QED
          BY <1>2, <5>1
      <4> QED
        BY <4>1, <4>2
    <3> QED
      BY <2>2, <3>3, <3>7 DEF QueueInv
  <2>6. CASE \E p \in Ports : Hands(p)
    <3>1. PICK p \in Ports : Hands(p)
      BY <2>6
    <3>2. PICK l \in {"select", "ended"} : tpc' = [tpc EXCEPT ![p] = l]
      BY <3>1 DEF Hands
    <3>3. UNCHANGED qs /\ qd' = [qd EXCEPT ![p] = <<>>]
      BY <3>1 DEF Hands
    <3>4. tpc' \in [Ports -> Places]
      BY <1>2, <3>2 DEF Places
    <3>5. qd'[p] = <<>> /\ tpc'[p] # "send"
      BY <1>1, <1>2, <3>2, <3>3
    <3>6. ASSUME NEW r \in Ports
          PROVE  /\ Len(qs'[r]) <= OutSize[r] /\ Len(qd'[r]) <= 1
                 /\ tpc'[r] = "send" => Len(qd'[r]) = 1
                 /\ tpc'[r] \notin {"send", "ended"} => qd'[r] = <<>>
      <4>1. CASE r = p
        BY <1>2, <3>3, <3>5, <4>1
      <4>2. CASE r # p
        <5>1. qd'[r] = qd[r] /\ tpc'[r] = tpc[r]
          BY <1>1, <1>2, <3>2, <3>3, <4>2
        <5> QED
          BY <1>2, <3>3, <5>1
      <4> QED
        BY <4>1, <4>2
    <3> QED
      BY <2>2, <3>4, <3>6 DEF QueueInv
  <2> QED
    BY <2>1, <2>3, <2>4, <2>5, <2>6
<1> QED
  BY <1>5, <1>6

LEMMA PrefixIs ==
    ASSUME NEW S, NEW s \in Seq(S), NEW m \in 0 .. Len(s)
    PROVE  SubSeq(s, 1, m) \in Seq(S) /\ (m = 0 => SubSeq(s, 1, m) = <<>>)
<1>1. m \in Nat /\ m <= Len(s) /\ 1 \in Nat \ {0} /\ 1 <= m + 1
  OBVIOUS
<1>2. SubSeq(s, 1, m) \in Seq(S) /\ Len(SubSeq(s, 1, m)) = m + 1 - 1
  BY <1>1, Part
<1> QED
  BY <1>1, <1>2, NoneLeft

LEMMA GotStays ==
    ASSUME StreamInv, ItemInv, got \in [Clients -> Seq(Item)], Next
    PROVE  got' \in [Clients -> Seq(Item)]
<1> USE DEF clients
<1>0. qd \in [Ports -> Seq(Item)] /\ outdata \in [Ports -> Seq(Item)] /\ port \in Ports
  BY DEF StreamInv, ItemInv
<1>1. CASE Decode(TakeCommand) \/ Decode(PutItem)
  BY <1>1 DEF Decode, TakeCommand, PutItem
<1>2. CASE \E p \in Ports :
              \/ Decode(Select(p)) \/ Decode(Accept(p))
              \/ Decode(Recv(p)) \/ Decode(RecvFails(p)) \/ Decode(PutCommands(p))
              \/ Decode(GetItem(p))
  BY <1>2 DEF Decode, Select, Accept, Recv, RecvFails, PutCommands, GetItem
<1>3. CASE \E p \in Ports : Decode(Send(p))
  <2>1. PICK p \in Ports : Send(p)
    BY <1>3 DEF Decode
  <2>2. PICK to \in SUBSET {c \in writable[p] \cap outputs[p] : link[c] = "open"} :
          got' = [c \in Clients |-> IF c \in to THEN got[c] \o qd[p] ELSE got[c]]
    BY <2>1 DEF Send
  <2>3. ASSUME NEW c \in Clients PROVE got[c] \in Seq(Item) /\ got[c] \o qd[p] \in Seq(Item)
    <3>1. got[c] \in Seq(Item) /\ qd[p] \in Seq(Item)
      BY <1>0
    <3> QED
      BY <3>1
  <2> QED
    BY <2>2, <2>3
<1>4. CASE Decode(MainEnds)
  BY <1>4 DEF Decode, MainEnds
<1>5. CASE StEp(Start)
  BY <1>5 DEF StEp, Start
<1>6. CASE Decode(Framing) \/ StEp(StFraming) \/ StEp(EpFraming)
  <2>1. \/ First \/ Kind \/ ReadLength \/ Payload \/ Reopen
    <3>1. CASE Decode(Framing)
      BY <3>1 DEF Decode, Framing, First, Kind, Payload
    <3>2. CASE StEp(StFraming) \/ StEp(EpFraming)
      BY <3>2 DEF StEp, StFraming, EpFraming, First, Kind, Payload
    <3> QED
      BY <1>6, <3>1, <3>2
  <2> QED
    BY <2>1 DEF First, ReadFirst, Kind, ReadKind, ReadLength, Payload, ReadData, MyRead, Reopen
<1>7. CASE StEp(AppendItem) \/ StEp(Raises)
  BY <1>7 DEF StEp, AppendItem, Raises
<1>8. CASE StEp(SkipPort) \/ StEp(Poll) \/ StEp(AcceptOne) \/ StEp(RecvRaises) \/ StEp(StRecv)
  BY <1>8 DEF StEp, SkipPort, Poll, AcceptOne, RecvRaises, StRecv
<1>9. ASSUME NEW c \in Clients, NEW m \in 0 .. Len(outdata[port])
      PROVE  got[c] \o SubSeq(outdata[port], 1, m) \in Seq(Item)
  <2>1. got[c] \in Seq(Item) /\ SubSeq(outdata[port], 1, m) \in Seq(Item)
    BY <1>0, PrefixIs
  <2> QED
    BY <2>1
<1>10. CASE StEp(StSend)
  <2>1. PICK part \in [{c \in able \cap outputs[port] : link[c] = "open"} -> 0 .. Len(outdata[port])] :
         got' = [c \in Clients |-> IF c \in DOMAIN part THEN got[c] \o SubSeq(outdata[port], 1, part[c])
                                   ELSE got[c]]
    BY <1>10 DEF StEp, StSend
  <2>2. ASSUME NEW c \in Clients
        PROVE  (IF c \in DOMAIN part THEN got[c] \o SubSeq(outdata[port], 1, part[c]) ELSE got[c]) \in Seq(Item)
    <3>1. CASE c \in DOMAIN part
      <4>1. part[c] \in 0 .. Len(outdata[port])
        BY <2>1, <3>1
      <4> QED
        BY <1>9, <3>1, <4>1
    <3>2. CASE c \notin DOMAIN part
      BY <3>2
    <3> QED
      BY <3>1, <3>2
  <2> QED
    BY <2>1, <2>2
<1>11. CASE StEp(EpRecvSend)
  <2>1. PICK c : got' = got \/ \E part \in 0 .. Len(outdata[port]) :
                              got' = [got EXCEPT ![c] = @ \o SubSeq(outdata[port], 1, part)]
    BY <1>11 DEF StEp, EpRecvSend
  <2>2. CASE \E part \in 0 .. Len(outdata[port]) :
                got' = [got EXCEPT ![c] = @ \o SubSeq(outdata[port], 1, part)]
    <3>1. PICK part \in 0 .. Len(outdata[port]) :
                got' = [got EXCEPT ![c] = @ \o SubSeq(outdata[port], 1, part)]
      BY <2>2
    <3>2. CASE c \in Clients
      <4>1. got[c] \o SubSeq(outdata[port], 1, part) \in Seq(Item)
        BY <1>9, <3>2
      <4> QED
        BY <3>1, <4>1
    <3>3. CASE c \notin Clients
      BY <3>1, <3>3
    <3> QED
      BY <3>2, <3>3
  <2> QED
    BY <2>1, <2>2
<1>12. CASE StEp(EpHangUp) \/ StEp(EpReturn) \/ StEp(WriteCommands)
  BY <1>12 DEF StEp, EpHangUp, EpReturn, WriteCommands
<1>13. CASE Around(BoardSends) \/ Around(ReadFails) \/ Around(PicoEnds)
  BY <1>13 DEF Around, BoardSends, ReadFails, PicoEnds
<1>14. CASE \E c \in Clients :
              Served(c) /\ (Around(Connect(c)) \/ Around(SendCommand(c)) \/ Around(Leave(c)))
  BY <1>14 DEF Around, Connect, SendCommand, Leave, Client
<1> QED
  BY <1>1, <1>2, <1>3, <1>4, <1>5, <1>6, <1>7, <1>8, <1>10, <1>11, <1>12, <1>13, <1>14 DEF Next

(* Connections are of clients of their port *)
ServedInv ==
    /\ got \in [Clients -> Seq(Item)]
    /\ outputs \in [Ports -> SUBSET Clients] /\ \A p \in Ports : outputs[p] \subseteq OfPort(p)
    /\ pc = "handle" => program # "decode" /\ able \subseteq OfPort(port)

LEMMA OutputsStay ==
    ASSUME StreamInv, ServedInv, Next
    PROVE  /\ outputs' \in [Ports -> SUBSET Clients]
           /\ \A p \in Ports : outputs'[p] \subseteq OfPort(p)
<1>1. /\ outputs \in [Ports -> SUBSET Clients] /\ (\A p \in Ports : outputs[p] \subseteq OfPort(p))
      /\ port \in Ports
  BY DEF StreamInv, ServedInv
<1>2. ASSUME outputs' = outputs
      PROVE  /\ outputs' \in [Ports -> SUBSET Clients]
             /\ \A p \in Ports : outputs'[p] \subseteq OfPort(p)
  BY <1>1, <1>2
<1>3. ASSUME NEW q \in Ports, NEW c,
             \/ c \in OfPort(q) /\ outputs' = [outputs EXCEPT ![q] = @ \cup {c}]
             \/ outputs' = [outputs EXCEPT ![q] = @ \ {c}]
      PROVE  /\ outputs' \in [Ports -> SUBSET Clients]
             /\ \A p \in Ports : outputs'[p] \subseteq OfPort(p)
  <2>1. CASE c \in OfPort(q) /\ outputs' = [outputs EXCEPT ![q] = @ \cup {c}]
    <3>1. c \in Clients
      BY <2>1 DEF OfPort
    <3> QED
      BY <1>1, <2>1, <3>1
  <2>2. CASE outputs' = [outputs EXCEPT ![q] = @ \ {c}]
    BY <1>1, <2>2
  <2> QED
    BY <1>3, <2>1, <2>2
<1>4. CASE Decode(TakeCommand) \/ Decode(PutItem)
  BY <1>2, <1>4 DEF Decode, TakeCommand, PutItem
<1>5. CASE \E p \in Ports : Decode(Select(p)) \/ Decode(PutCommands(p)) \/ Decode(GetItem(p)) \/ Decode(Send(p))
  BY <1>2, <1>5 DEF Decode, Select, PutCommands, GetItem, Send
<1>6. CASE \E p \in Ports : Decode(Accept(p))
  <2>1. PICK p \in Ports : Accept(p)
    BY <1>6 DEF Decode
  <2>2. PICK c \in OfPort(p) : outputs' = [outputs EXCEPT ![p] = @ \cup {c}]
    BY <2>1 DEF Accept
  <2> QED
    BY <1>3, <2>2
<1>7. CASE \E p \in Ports : Decode(Recv(p)) \/ Decode(RecvFails(p))
  <2>1. PICK p \in Ports : Recv(p) \/ RecvFails(p)
    BY <1>7 DEF Decode
  <2>2. outputs' = outputs \/ \E c : outputs' = [outputs EXCEPT ![p] = @ \ {c}]
    BY <2>1 DEF Recv, RecvFails, Use
  <2> QED
    BY <1>2, <1>3, <2>2
<1>8. CASE Decode(MainEnds)
  BY <1>2, <1>8 DEF Decode, MainEnds
<1>9. CASE StEp(Start)
  BY <1>2, <1>9 DEF StEp, Start
<1>10. CASE Decode(Framing) \/ StEp(StFraming) \/ StEp(EpFraming)
  <2>1. \/ First \/ Kind \/ ReadLength \/ Payload \/ Reopen
    <3>1. CASE Decode(Framing)
      BY <3>1 DEF Decode, Framing, First, Kind, Payload
    <3>2. CASE StEp(StFraming) \/ StEp(EpFraming)
      BY <3>2 DEF StEp, StFraming, EpFraming, First, Kind, Payload
    <3> QED
      BY <1>10, <3>1, <3>2
  <2>2. outputs' = outputs
    BY <2>1 DEF First, ReadFirst, Kind, ReadKind, ReadLength, Payload, ReadData, MyRead, Reopen
  <2> QED
    BY <1>2, <2>2
<1>11. CASE StEp(AppendItem) \/ StEp(Raises) \/ StEp(SkipPort) \/ StEp(Poll) \/ StEp(RecvRaises) \/ StEp(StSend)
            \/ StEp(EpRecvSend) \/ StEp(EpReturn) \/ StEp(WriteCommands)
  <2>1. outputs' = outputs
    BY <1>11 DEF StEp, AppendItem, Raises, SkipPort, Poll, RecvRaises, StSend, EpRecvSend, EpReturn, WriteCommands
  <2> QED
    BY <1>2, <2>1
<1>12. CASE StEp(AcceptOne)
  <2>1. PICK c \in OfPort(port) : outputs' = [outputs EXCEPT ![port] = @ \cup {c}]
    BY <1>12 DEF StEp, AcceptOne
  <2> QED
    BY <1>1, <1>3, <2>1
<1>13. CASE StEp(StRecv) \/ StEp(EpHangUp)
  <2>1. outputs' = outputs \/ \E c : outputs' = [outputs EXCEPT ![port] = @ \ {c}]
    BY <1>13 DEF StEp, StRecv, EpHangUp, Closes
  <2> QED
    BY <1>1, <1>2, <1>3, <2>1
<1>14. CASE Around(BoardSends) \/ Around(ReadFails) \/ Around(PicoEnds)
  BY <1>2, <1>14 DEF Around, BoardSends, ReadFails, PicoEnds
<1>15. CASE \E c \in Clients :
              Served(c) /\ (Around(Connect(c)) \/ Around(SendCommand(c)) \/ Around(Leave(c)))
  BY <1>2, <1>15 DEF Around, Connect, SendCommand, Leave, Client
<1> QED
  BY <1>4, <1>5, <1>6, <1>7, <1>8, <1>9, <1>10, <1>11, <1>12, <1>13, <1>14, <1>15 DEF Next

LEMMA ServedInvStep ==
    ASSUME StreamInv, ItemInv, ServedInv, Next
    PROVE  ServedInv'
<1>1. /\ port \in Ports /\ (pc = "data" => port \in {"oled", "pwm"}) /\ got \in [Clients -> Seq(Item)]
      /\ (pc = "handle" => program # "decode" /\ able \subseteq OfPort(port))
      /\ (\A p \in Ports : outputs[p] \subseteq OfPort(p))
  BY DEF StreamInv, ServedInv
<1>2. got' \in [Clients -> Seq(Item)]
  BY <1>1, GotStays
<1>3. program' = program
  BY ProgramStays
<1> USE DEF Away
<1>4. pc' = "handle" => able' \subseteq OfPort(port') /\ program # "decode"
  <2>1. CASE program = "decode"
    <3>1. \/ Idles \/ Queues \/ \E p \in Ports : Draws(p) \/ Hands(p)
          \/ Waits \/ Parses \/ Appends \/ Breaks \/ Skips \/ Polls \/ Answers \/ Returns
      BY <1>1, TurnSteps
    <3>2. Idles \/ Queues \/ \E p \in Ports : Draws(p) \/ Hands(p)
      BY <2>1, <3>1 DEF Waits, Parses, Appends, Breaks, Skips, Polls, Answers, Returns
    <3>3. pc' = "handle" => pc = "handle"
      BY <3>2 DEF Idles, Queues, Draws, Hands, Fetched
    <3> QED
      BY <1>1, <2>1, <3>3
  <2>2. CASE program # "decode"
    <3>1. \/ Waits \/ Parses \/ Appends \/ Breaks \/ Skips \/ Polls \/ Answers \/ Returns
      <4>1. \/ Idles \/ Queues \/ \E p \in Ports : Draws(p) \/ Hands(p)
            \/ Waits \/ Parses \/ Appends \/ Breaks \/ Skips \/ Polls \/ Answers \/ Returns
        BY <1>1, TurnSteps
      <4> QED
        BY <2>2, <4>1 DEF Idles, Queues, Draws, Hands
    <3>2. CASE Waits
      BY <1>1, <2>2, <3>2 DEF Waits
    <3>3. CASE Parses \/ Breaks
      BY <3>3 DEF Parses, Breaks
    <3>4. CASE Appends
      BY <3>4 DEF Appends
    <3>5. CASE Skips \/ Returns
      BY <3>5 DEF Skips, Returns, Onwards, Goto
    <3>6. CASE Polls
      <4>1. able' \subseteq OfPort(port)
        BY <1>1, <3>6 DEF Polls
      <4> QED
        BY <2>2, <3>6, <4>1 DEF Polls
    <3>7. CASE Answers
      BY <1>1, <2>2, <3>7 DEF Answers
    <3> QED
      BY <3>1, <3>2, <3>3, <3>4, <3>5, <3>6, <3>7
  <2> QED
    BY <2>1, <2>2
<1> QED
  BY <1>2, <1>3, <1>4, OutputsStay DEF ServedInv

(* st- and ep-decode.py serve the ports in turn, and a port's data is gone *)
(* when its turn is over                                                   *)
Before(p, q) == p # q /\ (p = "raw" \/ q = "pwm")
TurnOf(p) ==
    \/ Gathers(p) \/ outdata[p] = <<>>
    \/ pc \in {"serve", "handle"} /\ ~Before(p, port)
    \/ pc = "put" /\ p = port
Room == pc = "put" /\ ~Gathers(port) => Len(outdata[port]) + Len(todo) <= MayWait(port)
TurnInv == program # "decode" /\ ~broken => Room /\ \A p \in Ports : TurnOf(p)

LEMMA MayWaitIs ==
    /\ \A p \in Ports : MayWait(p) \in Nat
    /\ program # "decode" => /\ MayWait("raw") = 1
                             /\ \A p \in {"oled", "pwm"} : MayWait(p) >= Rows /\ MayWait(p) >= MaxPwm
<1>1. Rows \in Nat /\ MaxPwm \in Nat /\ \A p \in Ports : OutSize[p] \in Nat
  BY HostAssumption, BridgeAssumption
<1>2. Max({Rows, MaxPwm}) \in Nat /\ Max({Rows, MaxPwm}) >= Rows /\ Max({Rows, MaxPwm}) >= MaxPwm
  BY <1>1, MaxIs
<1>3. \A p \in Ports : OutSize[p] + 1 \in Nat
  BY <1>1
<1> QED
  BY <1>2, <1>3 DEF MayWait

LEMMA HowMany ==
    ASSUME StreamInv, Loaded
    PROVE  Len(todo') = IF port = "oled" THEN Rows ELSE length
<1>1. PICK k \in Arrivals(length) :
         Len(Read(k, length)) = length /\ todo' = Items(Read(k, length))
  BY DEF Loaded
<1>2. length \in Nat /\ Rows \in Nat
  BY HostAssumption DEF StreamInv
<1> DEFINE m == IF port = "oled" THEN Rows ELSE length
<1>3. m \in Nat
  BY <1>2
<1>4. todo' = [x \in 1 .. m |-> [from |-> PacketOf(Read(k, length)), row |-> x]]
  BY <1>1 DEF Items
<1> HIDE DEF m
<1>5. Len(todo') = m
  BY <1>3, <1>4
<1> QED
  BY <1>5 DEF m

LEMMA TurnInvStep ==
    ASSUME StreamInv, ItemInv, ServedInv, TurnInv, Next
    PROVE  TurnInv'
<1>1. /\ port \in Ports /\ (pc = "data" => port \in {"oled", "pwm"}) /\ got \in [Clients -> Seq(Item)]
      /\ (pc = "put" <=> todo # <<>>) /\ todo \in Seq(Item) /\ outdata \in [Ports -> Seq(Item)]
      /\ program' = program
  BY ProgramStays DEF StreamInv, ItemInv, ServedInv
<1>2. todo' \in Seq(Item) /\ outdata' \in [Ports -> Seq(Item)]
  BY ItemInvStep DEF ItemInv
<1>3. \A p : Gathers(p) <=> Gathers(p)'
  BY <1>1 DEF Gathers
<1>4. \A p : MayWait(p)' = MayWait(p)
  BY <1>1 DEF MayWait
<1> SUFFICES ASSUME program # "decode", ~broken' PROVE Room' /\ \A p \in Ports : TurnOf(p)'
  BY <1>1 DEF TurnInv
<1>5. \/ Waits \/ Parses \/ Appends \/ Breaks \/ Skips \/ Polls \/ Answers \/ Returns
  <2>1. \/ Idles \/ Queues \/ \E p \in Ports : Draws(p) \/ Hands(p)
        \/ Waits \/ Parses \/ Appends \/ Breaks \/ Skips \/ Polls \/ Answers \/ Returns
    BY <1>1, TurnSteps
  <2> QED
    BY <2>1 DEF Idles, Queues, Draws, Hands
<1>6. ~broken
  BY <1>5 DEF Waits, Parses, Appends, Breaks, Skips, Polls, Answers, Returns
<1>7. Room /\ \A p \in Ports : TurnOf(p)
  BY <1>6 DEF TurnInv
<1> USE DEF Away
<1>8. CASE Waits
  <2>1. UNCHANGED <<outdata, pc, port, todo>>
    BY <1>8 DEF Waits
  <2>2. Room'
    BY <1>3, <1>4, <1>7, <2>1 DEF Room
  <2>3. ASSUME NEW p \in Ports PROVE TurnOf(p)'
    BY <1>3, <1>7, <2>1 DEF TurnOf
  <2> QED
    BY <2>2, <2>3
<1>9. CASE Parses
  <2>1. outdata' = outdata /\ pc \notin {"serve", "handle", "put"} /\ (pc' = "put" => Text \/ Loaded)
    BY <1>9 DEF Parses
  <2>2. \A p \in Ports : Gathers(p) \/ outdata[p] = <<>>
    BY <1>7, <2>1 DEF TurnOf
  <2>3. ASSUME NEW p \in Ports PROVE TurnOf(p)'
    BY <1>3, <2>1, <2>2 DEF TurnOf
  <2>4. Room'
    <3> SUFFICES ASSUME pc' = "put", ~Gathers(port') PROVE Len(outdata'[port']) + Len(todo') <= MayWait(port')
      BY <1>3, <1>4 DEF Room
    <3>1. ASSUME port' \in Ports, Len(todo') <= MayWait(port') PROVE Len(outdata'[port']) + Len(todo') <= MayWait(port')
      <4>1. Len(outdata'[port']) = 0
        BY <2>1, <2>2, <3>1
      <4>2. Len(todo') \in Nat
        BY <1>2
      <4> QED
        BY <3>1, <4>1, <4>2
    <3>2. CASE Text
      <4>1. port' = "raw" /\ Len(todo') = 1
        BY <3>2 DEF Text
      <4>2. port' \in Ports /\ Len(todo') <= MayWait(port')
        BY <4>1, MayWaitIs DEF Ports
      <4> QED
        BY <3>1, <4>2
    <3>3. CASE Loaded
      <4>1. port' = port /\ port \in {"oled", "pwm"} /\ length \in 1 .. Longest
        BY <3>3 DEF Loaded, StreamInv
      <4>2. MayWait(port) >= Rows /\ MayWait(port) >= MaxPwm /\ MayWait(port) \in Nat
        BY <1>1, <4>1, MayWaitIs
      <4>3. Len(todo') <= MayWait(port)
        <5>1. Len(todo') = IF port = "oled" THEN Rows ELSE length
          BY <3>3, HowMany
        <5>2. CASE port = "oled"
          BY <4>2, <5>1, <5>2
        <5>3. CASE port # "oled"
          <6>1. Longest = MaxPwm /\ MaxPwm \in Nat
            BY <5>3, HostAssumption DEF Longest
          <6>2. length \in Nat /\ length <= MaxPwm
            BY <4>1, <6>1
          <6> QED
            BY <4>2, <5>1, <5>3, <6>1, <6>2
        <5> QED
          BY <5>2, <5>3
      <4> QED
        BY <1>1, <3>1, <4>1, <4>3
    <3> QED
      BY <2>1, <3>2, <3>3
  <2> QED
    BY <2>3, <2>4
<1>10. CASE Appends
  <2>1. /\ pc = "put" /\ outdata' = [outdata EXCEPT ![port] = Append(@, Head(todo))] /\ todo' = Tail(todo)
        /\ \/ Len(todo) = 1 /\ pc' = "serve" /\ port' = "raw"
           \/ Len(todo) # 1 /\ UNCHANGED <<pc, port>>
    BY <1>10 DEF Appends
  <2>2. todo # <<>>
    BY <1>1, <2>1
  <2>3. CASE pc' = "serve" /\ port' = "raw"
    <3>1. Room'
      BY <2>3 DEF Room
    <3>2. ASSUME NEW p \in Ports PROVE TurnOf(p)'
      BY <2>3 DEF TurnOf, Before
    <3> QED
      BY <3>1, <3>2
  <2>4. CASE UNCHANGED <<pc, port>>
    <3>1. ASSUME NEW p \in Ports PROVE TurnOf(p)'
      <4>1. CASE p = port
        BY <2>1, <2>4, <4>1 DEF TurnOf
      <4>2. CASE p # port
        <5>1. Gathers(p) \/ outdata[p] = <<>>
          BY <1>7, <2>1, <4>2 DEF TurnOf
        <5>2. outdata'[p] = outdata[p]
          BY <1>1, <2>1, <4>2
        <5> QED
          BY <1>3, <5>1, <5>2 DEF TurnOf
      <4> QED
        BY <4>1, <4>2
    <3>2. Room'
      <4> SUFFICES ASSUME ~Gathers(port) PROVE Len(outdata'[port]) + Len(todo') <= MayWait(port)
        BY <1>3, <1>4, <2>1, <2>4 DEF Room
      <4>1. Len(outdata[port]) + Len(todo) <= MayWait(port)
        BY <1>7, <2>1 DEF Room
      <4>2. Head(todo) \in Item /\ Len(Tail(todo)) = Len(todo) - 1
        BY <1>1, <2>2, TailIs
      <4>3. outdata[port] \in Seq(Item)
        BY <1>1
      <4>4. Len(Append(outdata[port], Head(todo))) = Len(outdata[port]) + 1
        BY <4>2, <4>3, AppendIs
      <4>5. outdata'[port] = Append(outdata[port], Head(todo))
        BY <1>1, <2>1
      <4>6. Len(todo) \in Nat /\ Len(outdata[port]) \in Nat /\ MayWait(port) \in Nat
        BY <1>1, <4>3, MayWaitIs
      <4>7. Len(outdata'[port]) = Len(outdata[port]) + 1 /\ Len(todo') = Len(todo) - 1
        BY <2>1, <4>2, <4>4, <4>5
      <4> QED
        BY <4>1, <4>6, <4>7
    <3> QED
      BY <3>1, <3>2
  <2> QED
    BY <2>1, <2>3, <2>4
<1>11. CASE Breaks
  BY <1>6, <1>11 DEF Breaks
<1>12. ASSUME Onwards, pc \in {"serve", "handle"},
              \A p \in Ports : p # port => outdata'[p] = outdata[p],
              Gathers(port) \/ outdata'[port] = <<>>
       PROVE  Room' /\ \A p \in Ports : TurnOf(p)'
  <2>1. /\ port' = NextPort[port]
        /\ IF port # "pwm" THEN pc' = "serve" ELSE pc' \in {"top", "write"}
    BY <1>12 DEF Onwards, Goto
  <2>2. pc' # "put"
    BY <2>1
  <2>3. Room'
    BY <2>2 DEF Room
  <2>4. ASSUME NEW p \in Ports PROVE TurnOf(p)'
    <3>1. CASE p = port
      BY <1>3, <1>12, <3>1 DEF TurnOf
    <3>2. CASE p # port
      <4>1. outdata'[p] = outdata[p] /\ (Gathers(p) \/ outdata[p] = <<>> \/ ~Before(p, port))
        BY <1>7, <1>12, <3>2 DEF TurnOf
      <4>2. CASE Gathers(p) \/ outdata[p] = <<>>
        BY <1>3, <4>1, <4>2 DEF TurnOf
      <4>3. CASE ~Before(p, port)
        <5>1. port # "pwm" /\ p # "raw"
          BY <3>2, <4>3 DEF Before
        <5>2. pc' = "serve" /\ port' = NextPort[port]
          BY <2>1, <5>1
        <5>3. ~Before(p, port')
          BY <1>1, <3>2, <5>1, <5>2 DEF Before, NextPort, Ports
        <5> QED
          BY <5>2, <5>3 DEF TurnOf, Before
      <4> QED
        BY <4>1, <4>2, <4>3
    <3> QED
      BY <3>1, <3>2
  <2> QED
    BY <2>3, <2>4
<1>13. CASE Skips
  <2>1. Onwards /\ pc = "serve" /\ outdata' = outdata /\ program = "ep" /\ (port = "raw" \/ outdata[port] = <<>>)
    BY <1>13 DEF Skips
  <2>2. Gathers(port) \/ outdata'[port] = <<>>
    BY <2>1 DEF Gathers
  <2> QED
    BY <1>12, <2>1, <2>2
<1>14. CASE Polls \/ Answers
  <2>1. pc \in {"serve", "handle"} /\ pc' = "handle" /\ UNCHANGED <<port, outdata>>
    BY <1>14 DEF Polls, Answers
  <2>2. Room'
    BY <2>1 DEF Room
  <2>3. ASSUME NEW p \in Ports PROVE TurnOf(p)'
    BY <1>3, <1>7, <2>1 DEF TurnOf
  <2> QED
    BY <2>2, <2>3
<1>15. CASE Returns
  <2>1. /\ Onwards /\ pc \in {"serve", "handle"} /\ outdata' = [outdata EXCEPT ![port] = <<>>]
    BY <1>15 DEF Returns
  <2>2. outdata'[port] = <<>> /\ \A p \in Ports : p # port => outdata'[p] = outdata[p]
    BY <1>1, <2>1
  <2> QED
    BY <1>12, <2>1, <2>2
<1> QED
  BY <1>5, <1>8, <1>9, <1>10, <1>11, <1>13, <1>14, <1>15

(* What one client has waiting, v after it was w, and has got, h after it  *)
(* was g: the steps Relay allows                                           *)
Handed(w, v, g, h) ==
    \E n \in 1 .. Len(w), m \in 0 .. Len(w) :
        m <= n /\ v = SubSeq(w, n + 1, Len(w)) /\ h = g \o SubSeq(w, 1, m)
Offered(p, w, v, g, h) ==
    /\ ~Gathers(p) => Len(w) < MayWait(p)
    /\ \E i \in Item : v = Append(w, i)
    /\ h = g
Relayed(p, w, v, g, h) == (v = w /\ h = g) \/ Offered(p, w, v, g, h) \/ Handed(w, v, g, h)

LEMMA AllTaken ==
    ASSUME NEW S, NEW w \in Seq(S), NEW n \in Nat, n = Len(w)
    PROVE  SubSeq(w, n + 1, Len(w)) = <<>>
  OBVIOUS

LEMMA AllGone ==
    ASSUME NEW S, NEW w \in Seq(S), NEW g \in Seq(S), NEW m \in 0 .. Len(w), NEW h,
           h = g \o SubSeq(w, 1, m) \/ h = g
    PROVE  (<<>> = w /\ h = g) \/ Handed(w, <<>>, g, h)
<1>1. PICK k \in 0 .. Len(w) : h = g \o SubSeq(w, 1, k)
  <2>1. CASE h = g
    <3>1. 0 \in 0 .. Len(w)
      OBVIOUS
    <3>2. SubSeq(w, 1, 0) = <<>>
      BY <3>1, PrefixIs
    <3>3. g \o <<>> = g
      OBVIOUS
    <3> QED
      BY <2>1, <3>1, <3>2, <3>3
  <2> QED
    BY <2>1
<1>2. CASE w = <<>>
  <2>1. k = 0
    BY <1>2
  <2>2. SubSeq(w, 1, k) = <<>>
    BY <2>1, PrefixIs
  <2>3. g \o <<>> = g
    OBVIOUS
  <2> QED
    BY <1>1, <1>2, <2>2, <2>3
<1>3. CASE w # <<>>
  <2>1. Len(w) \in 1 .. Len(w) /\ k <= Len(w) /\ Len(w) \in Nat
    BY <1>3
  <2>2. SubSeq(w, Len(w) + 1, Len(w)) = <<>>
    BY <2>1, AllTaken
  <2> QED
    BY <1>1, <2>1, <2>2 DEF Handed
<1> QED
  BY <1>2, <1>3

LEMMA AppendedBehind ==
    ASSUME NEW S, NEW a \in Seq(S), NEW b \in Seq(S), NEW e \in S
    PROVE  a \o Append(b, e) = Append(a \o b, e)
<1>1. a \o Append(b, e) \in Seq(S) /\ Append(a \o b, e) \in Seq(S)
  OBVIOUS
<1>2. Len(a \o Append(b, e)) = Len(Append(a \o b, e))
  OBVIOUS
<1>3. \A x \in 1 .. Len(a \o Append(b, e)) : (a \o Append(b, e))[x] = Append(a \o b, e)[x]
  OBVIOUS
<1> QED
  BY <1>1, <1>2, <1>3, SameElements

LEMMA JoinedBehind ==
    ASSUME NEW S, NEW a \in Seq(S), NEW b \in Seq(S)
    PROVE  \A x \in 1 .. Len(b) : (a \o b)[x + Len(a)] = b[x]
  BY Joined

LEMMA HeadAndTail ==
    ASSUME NEW S, NEW s \in Seq(S), s # <<>>
    PROVE  <<Head(s)>> \o Tail(s) = s
<1> DEFINE h == <<Head(s)>>
           d == Tail(s)
<1>1. /\ h \in Seq(S) /\ Len(h) = 1 /\ h[1] = s[1]
      /\ d \in Seq(S) /\ Len(d) = Len(s) - 1
      /\ \A x \in 1 .. Len(d) : x + 1 \in 1 .. Len(s) /\ d[x] = s[x + 1]
  BY TailIs
<1>2. Len(s) \in Nat /\ Len(d) \in Nat
  BY <1>1
<1> HIDE DEF h, d
<1>3. /\ h \o d \in Seq(S) /\ Len(h \o d) = 1 + Len(d)
      /\ (h \o d)[1] = h[1]
      /\ \A x \in 1 .. Len(d) : (h \o d)[x + 1] = d[x]
  <2>1. h \in Seq(S) /\ d \in Seq(S)
    BY <1>1
  <2>2. h \o d \in Seq(S) /\ Len(h \o d) = Len(h) + Len(d)
    BY <2>1, Joined
  <2>3. \A x \in 1 .. Len(h) : (h \o d)[x] = h[x]
    BY <2>1, Joined
  <2>4. \A x \in 1 .. Len(d) : (h \o d)[x + Len(h)] = d[x]
    BY <2>1, JoinedBehind
  <2> QED
    BY <1>1, <2>2, <2>3, <2>4
<1>4. Len(h \o d) = Len(s)
  BY <1>1, <1>2, <1>3
<1>5. ASSUME NEW x \in 1 .. Len(s) PROVE (h \o d)[x] = s[x]
  <2>1. CASE x = 1
    BY <1>1, <1>3, <2>1
  <2>2. CASE x # 1
    <3>1. PICK y : y = x - 1
      OBVIOUS
    <3>2. y \in 1 .. Len(d) /\ y + 1 = x
      BY <1>1, <1>2, <2>2, <3>1
    <3>3. (h \o d)[y + 1] = d[y] /\ d[y] = s[y + 1]
      BY <1>1, <1>3, <3>2
    <3> QED
      BY <3>2, <3>3
  <2> QED
    BY <2>1, <2>2
<1>6. h \o d = s
  BY <1>3, <1>4, <1>5, SameElements
<1> QED
  BY <1>6 DEF h, d

StartsWith(S, a, b, w) ==
    w \in Seq(S) /\ Len(w) = 1 + Len(b) /\ SubSeq(w, 2, Len(w)) = b /\ SubSeq(w, 1, 1) = a

LEMMA OneBefore ==
    ASSUME NEW S, NEW a \in Seq(S), Len(a) = 1, NEW b \in Seq(S), NEW w, w = a \o b
    PROVE  StartsWith(S, a, b, w)
<1>1. /\ w \in Seq(S) /\ Len(w) = 1 + Len(b) /\ Len(b) \in Nat
      /\ \A x \in 1 .. 1 : w[x] = a[x]
      /\ \A x \in 1 .. Len(b) : w[x + 1] = b[x]
  <2>1. a \o b \in Seq(S) /\ Len(a \o b) = Len(a) + Len(b)
    BY Joined
  <2>2. \A x \in 1 .. Len(a) : (a \o b)[x] = a[x]
    BY Joined
  <2>3. \A x \in 1 .. Len(b) : (a \o b)[x + Len(a)] = b[x]
    BY JoinedBehind
  <2>4. \A x \in 1 .. Len(b) : w[x + Len(a)] = b[x]
    BY <2>3
  <2> QED
    BY <2>1, <2>2, <2>4
<1>2. SubSeq(w, 2, Len(w)) = b
  <2>1. 2 \in Nat \ {0} /\ Len(w) \in Nat /\ Len(w) <= Len(w) /\ 2 <= Len(w) + 1
    BY <1>1
  <2>2. /\ SubSeq(w, 2, Len(w)) \in Seq(S) /\ Len(SubSeq(w, 2, Len(w))) = Len(w) + 1 - 2
        /\ \A x \in 1 .. Len(w) + 1 - 2 : SubSeq(w, 2, Len(w))[x] = w[x + 2 - 1]
    BY <1>1, <2>1, Part
  <2>3. Len(SubSeq(w, 2, Len(w))) = Len(b)
    BY <1>1, <2>2
  <2>4. \A x \in 1 .. Len(b) : SubSeq(w, 2, Len(w))[x] = b[x]
    <3> SUFFICES ASSUME NEW x \in 1 .. Len(b) PROVE SubSeq(w, 2, Len(w))[x] = b[x]
      OBVIOUS
    <3>1. x \in 1 .. Len(w) + 1 - 2 /\ x + 2 - 1 = x + 1
      BY <1>1
    <3> QED
      BY <1>1, <2>2, <3>1
  <2> QED
    BY <2>2, <2>3, <2>4, SameElements
<1>3. SubSeq(w, 1, 1) = a
  <2>1. 1 \in Nat \ {0} /\ 1 \in Nat /\ 1 <= Len(w) /\ 1 <= 1 + 1
    BY <1>1
  <2>2. /\ SubSeq(w, 1, 1) \in Seq(S) /\ Len(SubSeq(w, 1, 1)) = 1 + 1 - 1
        /\ \A x \in 1 .. 1 + 1 - 1 : SubSeq(w, 1, 1)[x] = w[x + 1 - 1]
    BY <1>1, <2>1, Part
  <2> PICK f : f = SubSeq(w, 1, 1)
    OBVIOUS
  <2>3. f \in Seq(S) /\ Len(f) = Len(a)
    <3>1. Len(SubSeq(w, 1, 1)) = 1
      BY <2>2
    <3> QED
      BY <2>2, <3>1, Zenon
  <2>4. \A x \in 1 .. Len(f) : f[x] = a[x]
    <3> SUFFICES ASSUME NEW x \in 1 .. Len(f) PROVE f[x] = a[x]
      OBVIOUS
    <3>1. x \in 1 .. 1 + 1 - 1 /\ x + 1 - 1 = x /\ x \in 1 .. 1
      BY <2>3
    <3> QED
      BY <1>1, <2>2, <3>1
  <2>5. f = a
    BY <2>3, <2>4, SameElements
  <2> QED
    BY <2>5
<1> QED
  BY <1>1, <1>2, <1>3, Zenon DEF StartsWith

(* The first item of what waits goes *)
LEMMA FirstGone ==
    ASSUME NEW S, NEW a \in Seq(S), Len(a) = 1, NEW b \in Seq(S), NEW g \in Seq(S), NEW h,
           h = g \/ h = g \o a, NEW w, w = a \o b
    PROVE  Handed(w, b, g, h)
<1>0. StartsWith(S, a, b, w)
  BY OneBefore, Zenon
<1>1. /\ w \in Seq(S) /\ Len(w) = 1 + Len(b)
      /\ SubSeq(w, 2, Len(w)) = b /\ SubSeq(w, 1, 1) = a
  BY <1>0, Zenon DEF StartsWith
<1>2. 1 \in 1 .. Len(w) /\ 0 \in 0 .. Len(w) /\ 1 \in 0 .. Len(w) /\ 1 + 1 = 2 /\ 0 <= 1 /\ 1 <= 1
  BY <1>1
<1>3. SubSeq(w, 1, 0) = <<>> /\ g \o <<>> = g
  BY <1>1, <1>2, PrefixIs
<1>4. \E m \in {0, 1} : h = g \o SubSeq(w, 1, m)
  BY <1>1, <1>3, Zenon
<1>5. PICK m \in {0, 1} : h = g \o SubSeq(w, 1, m)
  BY <1>4
<1>6. m \in 0 .. Len(w) /\ m <= 1
  BY <1>2
<1>7. b = SubSeq(w, 1 + 1, Len(w))
  BY <1>1, <1>2
<1> QED
  BY <1>2, <1>5, <1>6, <1>7, Zenon DEF Handed

HoldsOnly(w, a, b, d) ==
    (d = <<>> => w = a \o b) /\ (b = <<>> /\ a = <<>> => w = d)

LEMMA HeldParts ==
    ASSUME NEW S, NEW a \in Seq(S), NEW b \in Seq(S), NEW d \in Seq(S)
    PROVE  HoldsOnly(a \o b \o d, a, b, d)
<1>1. a \o b \in Seq(S)
  OBVIOUS
<1>2. (a \o b) \o <<>> = a \o b
  BY <1>1
<1>3. <<>> \o <<>> = <<>> /\ <<>> \o d = d
  OBVIOUS
<1> QED
  BY <1>2, <1>3 DEF HoldsOnly

(* What waits for a client of decode.py, and of the others *)
LEMMA WaitingIs ==
    ASSUME ItemInv, QueueInv, ItemInv', QueueInv', program' = program, NEW c \in Clients
    PROVE  /\ PortOf[c] \in Ports
           /\ program = "decode" =>
                /\ Waiting(c) = qd[PortOf[c]] \o qs[PortOf[c]]
                /\ Waiting(c)' = qd'[PortOf[c]] \o qs'[PortOf[c]]
           /\ program # "decode" =>
                /\ Waiting(c) = IF pc = "handle" /\ port = PortOf[c] /\ c \notin able THEN <<>>
                                ELSE outdata[PortOf[c]]
                /\ Waiting(c)' = IF pc' = "handle" /\ port' = PortOf[c] /\ c \notin able' THEN <<>>
                                 ELSE outdata'[PortOf[c]]
<1>1. PICK p \in Ports : p = PortOf[c]
  BY HostAssumption DEF Clients
<1>2. /\ qs[p] \in Seq(Item) /\ qd[p] \in Seq(Item) /\ outdata[p] \in Seq(Item)
      /\ qs'[p] \in Seq(Item) /\ qd'[p] \in Seq(Item) /\ outdata'[p] \in Seq(Item)
  BY DEF ItemInv
<1>3. /\ program = "decode" => outdata[p] = <<>> /\ outdata'[p] = <<>>
      /\ program # "decode" => qs[p] = <<>> /\ qd[p] = <<>> /\ qs'[p] = <<>> /\ qd'[p] = <<>>
  BY DEF QueueInv
<1>4. Held(p) = qd[p] \o qs[p] \o outdata[p] /\ Held(p)' = qd'[p] \o qs'[p] \o outdata'[p]
  BY DEF Held
<1>5. /\ program = "decode" => Held(p) = qd[p] \o qs[p]
      /\ program # "decode" => Held(p) = outdata[p]
  <2>1. /\ outdata[p] = <<>> => Held(p) = qd[p] \o qs[p]
        /\ qs[p] = <<>> /\ qd[p] = <<>> => Held(p) = outdata[p]
    <3>1. HoldsOnly(qd[p] \o qs[p] \o outdata[p], qd[p], qs[p], outdata[p])
      BY <1>2, HeldParts
    <3> QED
      BY <1>4, <3>1, Zenon DEF HoldsOnly
  <2> QED
    BY <1>3, <2>1, Zenon
<1>6. /\ program = "decode" => Held(p)' = qd'[p] \o qs'[p]
      /\ program # "decode" => Held(p)' = outdata'[p]
  <2>1. /\ outdata'[p] = <<>> => Held(p)' = qd'[p] \o qs'[p]
        /\ qs'[p] = <<>> /\ qd'[p] = <<>> => Held(p)' = outdata'[p]
    <3>1. HoldsOnly(qd'[p] \o qs'[p] \o outdata'[p], qd'[p], qs'[p], outdata'[p])
      BY <1>2, HeldParts
    <3> QED
      BY <1>4, <3>1, Zenon DEF HoldsOnly
  <2> QED
    BY <1>3, <2>1, Zenon
<1>7. program = "decode" => Waiting(c) = Held(p) /\ Waiting(c)' = Held(p)'
  BY <1>1 DEF Waiting
<1>8. program # "decode" =>
        /\ Waiting(c) = IF pc = "handle" /\ port = p /\ c \notin able THEN <<>> ELSE Held(p)
        /\ Waiting(c)' = IF pc' = "handle" /\ port' = p /\ c \notin able' THEN <<>> ELSE Held(p)'
  BY <1>1 DEF Waiting
<1> QED
  BY <1>1, <1>5, <1>6, <1>7, <1>8

LEMMA OneMore ==
    ASSUME NEW a \in Nat, NEW b \in Nat, NEW k \in Nat, a <= 1, b < k
    PROVE  a + b < k + 1
  OBVIOUS

LEMMA DecodeRelays ==
    ASSUME StreamInv, ItemInv, QueueInv, ServedInv, ItemInv', QueueInv', program' = program,
           program = "decode", Idles \/ Queues \/ (\E p \in Ports : Draws(p) \/ Hands(p)),
           NEW c \in Clients
    PROVE  Relayed(PortOf[c], Waiting(c), Waiting(c)', got[c], got'[c])
<1>1. PICK p \in Ports : p = PortOf[c]
  BY WaitingIs
<1>2. Waiting(c) = qd[p] \o qs[p] /\ Waiting(c)' = qd'[p] \o qs'[p]
  BY <1>1, WaitingIs
<1>3. /\ qs[p] \in Seq(Item) /\ qd[p] \in Seq(Item) /\ got[c] \in Seq(Item) /\ port \in Ports
      /\ todo \in Seq(Item) /\ (pc = "put" <=> todo # <<>>)
      /\ qs \in [Ports -> Seq(Item)] /\ qd \in [Ports -> Seq(Item)]
  BY DEF ItemInv, ServedInv, StreamInv
<1>4. ASSUME qd'[p] = qd[p], qs'[p] = qs[p], got'[c] = got[c]
      PROVE  Relayed(PortOf[c], Waiting(c), Waiting(c)', got[c], got'[c])
  BY <1>2, <1>4 DEF Relayed
<1>5. CASE Idles
  BY <1>4, <1>5 DEF Idles, Away
<1>6. CASE Queues
  <2>1. qd' = qd /\ got' = got /\ pc = "put"
    BY <1>6 DEF Queues
  <2>2. CASE qs' = qs
    BY <1>4, <2>1, <2>2
  <2>3. CASE ~Full(port) /\ qs' = [qs EXCEPT ![port] = Append(@, Head(todo))]
    <3>1. CASE port # p
      BY <1>3, <1>4, <2>1, <2>3, <3>1
    <3>2. CASE port = p
      <4>1. Head(todo) \in Item
        BY <1>3, <2>1, TailIs
      <4>2. qs'[p] = Append(qs[p], Head(todo))
        BY <1>3, <2>3, <3>2
      <4>3. Waiting(c)' = Append(Waiting(c), Head(todo))
        BY SMTT(30), <1>2, <1>3, <2>1, <4>1, <4>2, AppendedBehind
      <4>4. Len(Waiting(c)) < MayWait(p)
        <5>0. Len(qs[p]) \in Nat /\ OutSize[p] \in Nat /\ ~(Len(qs[p]) >= OutSize[p])
          <6>1. Len(qs[p]) \in Nat
            BY <1>3
          <6>2. OutSize[p] \in Nat
            BY BridgeAssumption
          <6> QED
            BY <2>3, <3>2, <6>1, <6>2 DEF Full
        <5>1. Len(qs[p]) < OutSize[p]
          BY <5>0
        <5>2. Len(qd[p]) <= 1
          BY DEF QueueInv
        <5>3. Len(qd[p] \o qs[p]) = Len(qd[p]) + Len(qs[p])
          BY <1>3
        <5>7. Len(qd[p]) \in Nat
          BY <1>3
        <5>4. MayWait(p) = OutSize[p] + 1
          BY DEF MayWait
        <5>5. Len(Waiting(c)) = Len(qd[p]) + Len(qs[p])
          BY <1>2, <5>3, Zenon
        <5>6. Len(qd[p]) + Len(qs[p]) < OutSize[p] + 1
          BY <5>0, <5>1, <5>2, <5>7, OneMore
        <5> QED
          BY <5>4, <5>5, <5>6, Zenon
      <4> QED
        BY <1>1, <2>1, <4>1, <4>3, <4>4 DEF Relayed, Offered
    <3> QED
      BY <3>1, <3>2
  <2> QED
    BY <1>6, <2>2, <2>3 DEF Queues
<1>7. CASE \E r \in Ports : Draws(r)
  <2>1. PICK r \in Ports : Draws(r)
    BY <1>7
  <2>2. /\ tpc[r] = "get" /\ got' = got /\ qs[r] # <<>>
        /\ qd' = [qd EXCEPT ![r] = <<Head(qs[r])>>] /\ qs' = [qs EXCEPT ![r] = Tail(@)]
    BY <2>1 DEF Draws, Fetched
  <2>3. CASE r # p
    BY <1>3, <1>4, <2>2, <2>3
  <2>4. CASE r = p
    <3>1. qd[p] = <<>>
      BY <2>2, <2>4 DEF QueueInv
    <3>2. qd'[p] = <<Head(qs[p])>> /\ qs'[p] = Tail(qs[p])
      BY <1>3, <2>2, <2>4
    <3>3. qd'[p] \o qs'[p] = qs[p]
      BY <1>3, <2>2, <2>4, <3>2, HeadAndTail
    <3>4. qd[p] \o qs[p] = qs[p]
      BY <1>3, <3>1
    <3> QED
      BY <1>2, <2>2, <3>3, <3>4 DEF Relayed
  <2> QED
    BY <2>3, <2>4
<1>8. CASE \E r \in Ports : Hands(r)
  <2>1. PICK r \in Ports : Hands(r)
    BY <1>8
  <2>2. /\ tpc[r] = "send" /\ qs' = qs /\ qd' = [qd EXCEPT ![r] = <<>>]
    BY <2>1 DEF Hands
  <2>3. PICK to \in SUBSET outputs[r] :
          got' = [d \in Clients |-> IF d \in to THEN got[d] \o qd[r] ELSE got[d]]
    BY <2>1 DEF Hands
  <2>4. to \subseteq OfPort(r)
    BY <2>3 DEF ServedInv
  <2>5. CASE r # p
    <3>1. c \notin to
      BY <1>1, <2>4, <2>5 DEF OfPort
    <3> QED
      BY <1>3, <1>4, <2>2, <2>3, <2>5, <3>1
  <2>6. CASE r = p
    <3>1. Len(qd[p]) = 1
      BY <2>2, <2>6 DEF QueueInv
    <3>2. got'[c] = got[c] \/ got'[c] = got[c] \o qd[p]
      BY <2>3, <2>6
    <3>3. Handed(qd[p] \o qs[p], qs[p], got[c], got'[c])
      BY <1>3, <3>1, <3>2, FirstGone
    <3>4. qd'[p] = <<>> /\ qs'[p] = qs[p]
      BY <1>3, <2>2, <2>6
    <3>5. Waiting(c)' = qs[p]
      BY <1>2, <1>3, <3>4
    <3> QED
      BY <1>2, <3>3, <3>5 DEF Relayed
  <2> QED
    BY <2>5, <2>6
<1> QED
  BY <1>5, <1>6, <1>7, <1>8

LEMMA OthersRelay ==
    ASSUME StreamInv, ItemInv, QueueInv, ServedInv, TurnInv, ItemInv', QueueInv', program' = program,
           program # "decode",
           Waits \/ Parses \/ Appends \/ Breaks \/ Skips \/ Polls \/ Answers \/ Returns,
           NEW c \in Clients
    PROVE  Relayed(PortOf[c], Waiting(c), Waiting(c)', got[c], got'[c])
<1>1. PICK p \in Ports : p = PortOf[c]
  BY WaitingIs
<1>2. /\ Waiting(c) = IF pc = "handle" /\ port = p /\ c \notin able THEN <<>> ELSE outdata[p]
      /\ Waiting(c)' = IF pc' = "handle" /\ port' = p /\ c \notin able' THEN <<>> ELSE outdata'[p]
  BY <1>1, WaitingIs
<1>3. /\ outdata[p] \in Seq(Item) /\ got[c] \in Seq(Item) /\ port \in Ports
      /\ todo \in Seq(Item) /\ (pc = "put" <=> todo # <<>>)
      /\ outdata \in [Ports -> Seq(Item)] /\ (pc = "handle" => able \subseteq OfPort(port))
  BY DEF ItemInv, ServedInv, StreamInv
<1>4. \A d \in OfPort(port) : PortOf[d] = port
  BY DEF OfPort
<1>5. ASSUME Waiting(c)' = Waiting(c), got'[c] = got[c]
      PROVE  Relayed(PortOf[c], Waiting(c), Waiting(c)', got[c], got'[c])
  BY <1>5 DEF Relayed
<1>6. ASSUME Waiting(c) = outdata[p], Waiting(c)' = <<>>, got'[c] = got[c] \/ (port = p /\ Portion(c))
      PROVE  Relayed(PortOf[c], Waiting(c), Waiting(c)', got[c], got'[c])
  <2>1. PICK m \in 0 .. Len(outdata[p]) : got'[c] = got[c] \o SubSeq(outdata[p], 1, m) \/ got'[c] = got[c]
    <3>1. CASE got'[c] = got[c]
      <4>1. 0 \in 0 .. Len(outdata[p])
        BY <1>3
      <4> QED
        BY <3>1, <4>1
    <3>2. CASE port = p /\ Portion(c)
      BY <3>2 DEF Portion
    <3> QED
      BY <1>6, <3>1, <3>2
  <2>2. (<<>> = outdata[p] /\ got'[c] = got[c]) \/ Handed(outdata[p], <<>>, got[c], got'[c])
    BY <1>3, <2>1, AllGone
  <2> QED
    BY <1>6, <2>2 DEF Relayed
<1>7. CASE Waits
  BY <1>2, <1>5, <1>7 DEF Waits, Away
<1>8. CASE Parses \/ Breaks
  <2>1. pc # "handle" /\ pc' # "handle" /\ UNCHANGED <<outdata, got>>
    BY <1>8 DEF Parses, Breaks, Away
  <2> QED
    BY <1>2, <1>5, <2>1
<1>9. CASE Appends
  <2>1. /\ pc = "put" /\ ~broken /\ got' = got
        /\ outdata' = [outdata EXCEPT ![port] = Append(@, Head(todo))] /\ pc' # "handle"
    BY <1>9 DEF Appends
  <2>2. Waiting(c) = outdata[p] /\ Waiting(c)' = outdata'[p]
    BY <1>2, <2>1
  <2>3. CASE port # p
    BY <1>3, <1>5, <2>1, <2>2, <2>3
  <2>4. CASE port = p
    <3>1. todo # <<>> /\ Head(todo) \in Item
      BY <1>3, <2>1, TailIs
    <3>2. outdata'[p] = Append(outdata[p], Head(todo))
      BY <1>3, <2>1, <2>4
    <3>3. ~Gathers(p) => Len(outdata[p]) < MayWait(p)
      <4> SUFFICES ASSUME ~Gathers(p) PROVE Len(outdata[p]) < MayWait(p)
        OBVIOUS
      <4>1. Len(outdata[p]) + Len(todo) <= MayWait(p)
        BY <2>1, <2>4 DEF TurnInv, Room
      <4>2. Len(todo) \in Nat /\ Len(todo) # 0
        BY <1>3, <3>1, NoneLeft
      <4>3. Len(outdata[p]) \in Nat
        BY <1>3
      <4>4. MayWait(p) \in Nat
        BY MayWaitIs
      <4> QED
        BY <4>1, <4>2, <4>3, <4>4
    <3> QED
      BY <1>1, <2>1, <2>2, <3>1, <3>2, <3>3 DEF Relayed, Offered
  <2> QED
    BY <2>3, <2>4
<1>10. CASE Skips
  <2>1. pc = "serve" /\ pc' # "handle" /\ UNCHANGED <<outdata, got>>
    BY <1>10 DEF Skips, Away, Onwards, Goto
  <2> QED
    BY <1>2, <1>5, <2>1
<1>11. CASE Polls
  <2>1. pc = "serve" /\ UNCHANGED <<outdata, got, port>>
    BY <1>11 DEF Polls, Away
  <2>2. Waiting(c) = outdata[p] /\ (Waiting(c)' = outdata[p] \/ Waiting(c)' = <<>>)
    BY <1>2, <2>1
  <2>3. got'[c] = got[c]
    BY <2>1
  <2> QED
    BY <1>5, <1>6, <2>2, <2>3
<1>12. CASE Answers
  <2>1. /\ pc = "handle" /\ pc' = "handle" /\ UNCHANGED <<outdata, port>> /\ able' \subseteq able
        /\ got'[c] = got[c] \/ (c \in able \ able' /\ Portion(c))
    BY <1>12 DEF Answers
  <2>2. CASE port = p /\ c \in able \ able'
    BY <1>2, <1>6, <2>1, <2>2
  <2>3. CASE ~(port = p /\ c \in able \ able')
    <3>1. Waiting(c)' = Waiting(c)
      BY <1>2, <2>1, <2>3
    <3>2. got'[c] = got[c]
      BY <1>1, <1>3, <1>4, <2>1, <2>3
    <3> QED
      BY <1>5, <3>1, <3>2
  <2> QED
    BY <2>2, <2>3
<1>13. CASE Returns
  <2>1. /\ pc \in {"serve", "handle"} /\ outdata' = [outdata EXCEPT ![port] = <<>>]
        /\ got'[c] = got[c] \/ (pc = "handle" /\ c \in able \cap outputs[port] /\ Portion(c))
    BY <1>13 DEF Returns
  <2>2. pc' # "handle"
    BY <1>13 DEF Returns, Onwards, Goto
  <2>3. CASE port # p
    <3>1. outdata'[p] = outdata[p] /\ got'[c] = got[c]
      BY <1>1, <1>3, <1>4, <2>1, <2>3
    <3>2. Waiting(c)' = Waiting(c)
      BY <1>2, <2>2, <2>3, <3>1
    <3> QED
      BY <1>5, <3>1, <3>2
  <2>4. CASE port = p
    <3>1. Waiting(c)' = <<>>
      BY <1>2, <1>3, <2>1, <2>2, <2>4
    <3>2. CASE pc = "handle" /\ c \notin able
      <4>1. Waiting(c) = <<>> /\ got'[c] = got[c]
        BY <1>2, <2>1, <2>4, <3>2
      <4> QED
        BY <1>5, <3>1, <4>1
    <3>3. CASE ~(pc = "handle" /\ c \notin able)
      <4>1. Waiting(c) = outdata[p]
        BY <1>2, <3>3
      <4> QED
        BY <1>6, <2>1, <2>4, <3>1, <4>1
    <3> QED
      BY <3>2, <3>3
  <2> QED
    BY <2>3, <2>4
<1> QED
  BY <1>7, <1>8, <1>9, <1>10, <1>11, <1>12, <1>13

RelayInv == StreamInv /\ ItemInv /\ QueueInv /\ ServedInv /\ TurnInv

LEMMA RelayInit ==
    ASSUME Init
    PROVE  RelayInv
<1>1. /\ qs = [p \in Ports |-> <<>>] /\ qd = [p \in Ports |-> <<>>] /\ outdata = [p \in Ports |-> <<>>]
      /\ tpc = [p \in Ports |-> "select"] /\ outputs = [p \in Ports |-> {}] /\ pc = "top"
      /\ got = [c \in Clients |-> <<>>]
  BY DEF Init, SidesInit, BridgeInit, DecoderInit
<1>2. QueueInv
  <2>1. /\ \A p \in Ports : outdata[p] = <<>> /\ qs[p] = <<>> /\ qd[p] = <<>> /\ tpc[p] = "select"
        /\ tpc \in [Ports -> Places]
    BY <1>1 DEF Places
  <2>2. \A p \in Ports : OutSize[p] \in Nat /\ Len(<<>>) <= OutSize[p] /\ Len(<<>>) <= 1
    BY BridgeAssumption
  <2> QED
    BY <2>1, <2>2 DEF QueueInv
<1>3. ServedInv
  <2>1. <<>> \in Seq(Item)
    OBVIOUS
  <2> QED
    BY <1>1, <2>1 DEF ServedInv
<1>4. TurnInv
  BY <1>1 DEF TurnInv, Room, TurnOf
<1> QED
  BY <1>2, <1>3, <1>4, StreamInit, ItemInit DEF RelayInv

LEMMA RelayInvStep ==
    ASSUME RelayInv, [Next]_vars
    PROVE  RelayInv'
<1>1. StreamInv /\ ItemInv /\ QueueInv /\ ServedInv /\ TurnInv /\ got \in [Clients -> Seq(Item)]
  BY DEF RelayInv, ServedInv
<1>2. StreamInv'
  BY <1>1, StreamStep
<1>3. CASE Next
  BY <1>1, <1>2, <1>3, ItemInvStep, QueueInvStep, ServedInvStep, TurnInvStep DEF RelayInv
<1>4. CASE UNCHANGED vars
  <2>1. UNCHANGED <<program, sent, load, todo, pc, port, qs, qd, tpc, outdata, outputs, able, got, broken>>
    BY <1>4 DEF vars, sides, board, serial, clients, bvars, dvars, tcp
  <2>2. ItemInv'
    BY <1>1, <2>1 DEF ItemInv
  <2>3. QueueInv'
    BY <1>1, <2>1 DEF QueueInv
  <2>4. ServedInv'
    BY <1>1, <2>1 DEF ServedInv
  <2>5. TurnInv'
    BY <1>1, <2>1 DEF TurnInv, Room, TurnOf, MayWait, Gathers
  <2> QED
    BY <1>2, <2>2, <2>3, <2>4, <2>5 DEF RelayInv
<1> QED
  BY <1>3, <1>4

LEMMA RelayStep ==
    ASSUME RelayInv, RelayInv', Next, NEW c \in Clients
    PROVE  Relayed(PortOf[c], Waiting(c), Waiting(c)', got[c], got'[c])
<1>1. /\ StreamInv /\ ItemInv /\ QueueInv /\ ServedInv /\ TurnInv /\ ItemInv' /\ QueueInv'
      /\ program' = program /\ (pc = "data" => port \in {"oled", "pwm"})
      /\ got \in [Clients -> Seq(Item)]
  BY ProgramStays DEF RelayInv, ServedInv, StreamInv
<1>2. \/ Idles \/ Queues \/ \E p \in Ports : Draws(p) \/ Hands(p)
      \/ Waits \/ Parses \/ Appends \/ Breaks \/ Skips \/ Polls \/ Answers \/ Returns
  BY <1>1, TurnSteps
<1>3. CASE program = "decode"
  <2>1. Idles \/ Queues \/ \E p \in Ports : Draws(p) \/ Hands(p)
    BY <1>2, <1>3 DEF Waits, Parses, Appends, Breaks, Skips, Polls, Answers, Returns
  <2> QED
    BY <1>1, <1>3, <2>1, DecodeRelays
<1>4. CASE program # "decode"
  <2>1. Waits \/ Parses \/ Appends \/ Breaks \/ Skips \/ Polls \/ Answers \/ Returns
    BY <1>2, <1>4 DEF Idles, Queues, Draws, Hands
  <2> QED
    BY <1>1, <1>4, <2>1, OthersRelay
<1> QED
  BY <1>3, <1>4

(* THEOREM HostRelaysInOrder: whatever the clients, ports and queue sizes,  *)
(* the programs implement Relay: each client receives what was decoded for  *)
(* its port in order and at most once, and no more waits for it than its    *)
(* queue and the item in hand, or one packet.                               *)
THEOREM HostRelaysInOrder == Spec => RelaysInOrder
<1>1. Init => RelayInv
  BY RelayInit
<1>2. RelayInv /\ [Next]_vars => RelayInv'
  BY RelayInvStep
<1>3. Init => ToClients!Init
  <2> SUFFICES ASSUME Init PROVE ToClients!Init
    OBVIOUS
  <2>1. \A c \in Clients : PortOf[c] \in Ports
    BY HostAssumption DEF Clients
  <2>2. [c \in Clients |-> MayWait(PortOf[c])] \in [Clients -> Nat]
    BY <2>1, MayWaitIs
  <2>3. got = [c \in Clients |-> <<>>]
    BY DEF Init, SidesInit
  <2>4. \A c \in Clients : Waiting(c) = <<>>
    <3> SUFFICES ASSUME NEW c \in Clients PROVE Waiting(c) = <<>>
      OBVIOUS
    <3>1. PICK p \in Ports : p = PortOf[c]
      BY <2>1
    <3>2. qs[p] = <<>> /\ qd[p] = <<>> /\ outdata[p] = <<>>
      BY DEF Init, BridgeInit, DecoderInit
    <3>3. Held(p) = <<>>
      BY <3>2 DEF Held
    <3> QED
      BY <3>1, <3>3 DEF Waiting
  <2>5. [c \in Clients |-> Waiting(c)] = [c \in Clients |-> <<>>]
    BY <2>4
  <2> QED
    BY <2>2, <2>3, <2>5 DEF ToClients!Init
<1>4. RelayInv /\ RelayInv' /\ [Next]_vars => [ToClients!Next]_ToClients!vars
  <2> SUFFICES ASSUME RelayInv, RelayInv', [Next]_vars PROVE [ToClients!Next]_ToClients!vars
    OBVIOUS
  <2>1. CASE Next
    <3>1. program' = program
      BY <2>1, ProgramStays
    <3>2. /\ \A c \in Clients : Gathers(PortOf[c])' <=> Gathers(PortOf[c])
          /\ \A c \in Clients : MayWait(PortOf[c])' = MayWait(PortOf[c])
      BY <3>1 DEF Gathers, MayWait
    <3>3. /\ {c \in Clients : ~Gathers(PortOf[c])}' = {c \in Clients : ~Gathers(PortOf[c])}
          /\ [c \in Clients |-> MayWait(PortOf[c])]' = [c \in Clients |-> MayWait(PortOf[c])]
      BY <3>2
    <3>4. ASSUME NEW c \in Clients
          PROVE  ToClients!Rests(c) \/ ToClients!Offer(c) \/ ToClients!Deliver(c)
      <4>1. Relayed(PortOf[c], Waiting(c), Waiting(c)', got[c], got'[c])
        BY <2>1, RelayStep
      <4>2. CASE Waiting(c)' = Waiting(c) /\ got'[c] = got[c]
        BY <4>2 DEF ToClients!Rests
      <4>3. CASE Offered(PortOf[c], Waiting(c), Waiting(c)', got[c], got'[c])
        BY <4>3 DEF Offered, ToClients!Offer, Item
      <4>4. CASE Handed(Waiting(c), Waiting(c)', got[c], got'[c])
        BY <4>4 DEF Handed, ToClients!Deliver
      <4> QED
        BY <4>1, <4>2, <4>3, <4>4 DEF Relayed
    <3> QED
      BY <3>3, <3>4 DEF ToClients!Next
  <2>2. CASE UNCHANGED vars
    <3>1. UNCHANGED <<program, pc, port, able, qs, qd, outdata, got>>
      BY <2>2 DEF vars, sides, board, serial, clients, bvars, dvars, tcp
    <3> QED
      BY <3>1 DEF ToClients!vars, Waiting, Held, Gathers, MayWait
  <2> QED
    BY <2>1, <2>2
<1> QED
  BY <1>1, <1>2, <1>3, <1>4, PTL DEF Spec, RelaysInOrder, ToClients!Spec

-----------------------------------------------------------------------------
(* Commands: what the clients send, *)
ClientInv ==
    /\ asked \in [Clients -> Nat] /\ \A c \in Clients : asked[c] <= load
    /\ inbox \in [Clients -> Seq(Command)]

(* what the processes of decode.py do with it *)
BridgeInv ==
    /\ qin \in Seq(Chunk) /\ Len(qin) <= InSize
    /\ data \in [Ports -> Chunk \cup {Unbound}]
    /\ \A p \in Ports :
         /\ readable[p] \subseteq OfPort(p) \cup {Server} /\ writable[p] \subseteq OfPort(p)
         /\ tpc[p] = "put" => data[p] \notin {Unbound, <<>>}
    /\ readable \in [Ports -> SUBSET (Clients \cup {Server})] /\ writable \in [Ports -> SUBSET Clients]

(* and the other two in a call of tcpio_loop *)
CallInv ==
    /\ indata \in Chunk /\ received \in Chunk \cup {Unbound}
    /\ events \subseteq OfPort(port) \cup {Server} /\ able \subseteq OfPort(port)
    /\ ending \subseteq events \ {Server} /\ (program # "ep" => ending = {})
    /\ events \cup able # {} => pc = "handle"
    /\ broken => program = "st"

LEMMA ChunkIsBound ==
    /\ Unbound \notin Chunk /\ <<>> \in Chunk
    /\ \A a \in Chunk : \A b \in Chunk : a \o b \in Chunk
<1>1. MaxLoad \in Nat
  BY HostAssumption
<1>2. 1 .. MaxLoad \subseteq Nat
  BY <1>1
<1>3. Command \subseteq Clients \X Nat
  BY <1>2 DEF Command
<1>4. \A a \in Seq(Command) : a \in Seq(Clients \X Nat)
  BY <1>3
<1>5. Unbound \notin Chunk
  BY <1>4, UnboundAssumption DEF Chunk
<1>6. \A a \in Seq(Command) : \A b \in Seq(Command) : a \o b \in Seq(Command)
  OBVIOUS
<1> QED
  BY <1>5, <1>6 DEF Chunk

LEMMA AskedOnce ==
    ASSUME ItemInv, ClientInv, NEW c \in Clients, SendCommand(c)
    PROVE  ClientInv'
<1>1. /\ asked \in [Clients -> Nat] /\ (\A d \in Clients : asked[d] <= load)
      /\ inbox \in [Clients -> Seq(Command)] /\ load \in 0 .. MaxLoad /\ MaxLoad \in Nat
  BY HostAssumption DEF ClientInv, ItemInv
<1>2. /\ load < MaxLoad /\ load' = load + 1 /\ asked' = [asked EXCEPT ![c] = @ + 1]
      /\ inbox' = [inbox EXCEPT ![c] = Append(@, <<c, asked'[c]>>)]
  BY DEF SendCommand, Counted
<1>3. asked'[c] = asked[c] + 1 /\ asked'[c] \in 1 .. MaxLoad
  <2>1. asked[c] \in Nat /\ asked[c] <= load /\ load \in Nat /\ asked'[c] = asked[c] + 1
    BY <1>1, <1>2
  <2> QED
    BY <1>1, <1>2, <2>1
<1>4. <<c, asked'[c]>> \in Command
  BY <1>3 DEF Command
<1>5. Append(inbox[c], <<c, asked'[c]>>) \in Seq(Command)
  BY <1>1, <1>4
<1>6. inbox' \in [Clients -> Seq(Command)]
  BY <1>1, <1>2, <1>5
<1>7. asked' \in [Clients -> Nat]
  BY <1>1, <1>2
<1>8. ASSUME NEW d \in Clients PROVE asked'[d] <= load'
  <2>1. asked[d] \in Nat /\ asked[d] <= load /\ load \in Nat
    BY <1>1
  <2>2. asked'[d] = asked[d] \/ asked'[d] = asked[d] + 1
    BY <1>1, <1>2
  <2> QED
    BY <1>2, <2>1, <2>2
<1> QED
  BY <1>6, <1>7, <1>8 DEF ClientInv

LEMMA ClientInvStep ==
    ASSUME StreamInv, ItemInv, ServedInv, ClientInv, BridgeInv, CallInv, Next
    PROVE  ClientInv'
<1>1. /\ asked \in [Clients -> Nat] /\ (\A d \in Clients : asked[d] <= load)
      /\ inbox \in [Clients -> Seq(Command)] /\ load \in 0 .. MaxLoad /\ load' \in 0 .. MaxLoad
      /\ MaxLoad \in Nat
  BY ItemInvStep, HostAssumption DEF ClientInv, ItemInv
<1>2. load' = load \/ load' = load + 1
  BY LoadSteps DEF Counted
<1>3. load' >= load /\ \A d \in Clients : asked[d] <= load'
  BY <1>1, <1>2
<1>4. ASSUME UNCHANGED <<asked, inbox>> PROVE ClientInv'
  BY <1>1, <1>3, <1>4 DEF ClientInv
<1>5. ASSUME UNCHANGED asked, NEW c, inbox' = [inbox EXCEPT ![c] = <<>>] PROVE ClientInv'
  <2>1. <<>> \in Seq(Command)
    OBVIOUS
  <2>2. inbox' \in [Clients -> Seq(Command)]
    BY <1>1, <1>5, <2>1
  <2> QED
    BY <1>1, <1>3, <1>5, <2>2 DEF ClientInv
<1> USE DEF clients
<1>6. CASE Decode(TakeCommand) \/ Decode(PutItem) \/ Decode(MainEnds)
  BY <1>4, <1>6 DEF Decode, TakeCommand, PutItem, MainEnds, Others
<1>7. CASE \E p \in Ports :
              \/ Decode(Select(p)) \/ Decode(Accept(p)) \/ Decode(RecvFails(p)) \/ Decode(PutCommands(p))
              \/ Decode(GetItem(p)) \/ Decode(Send(p))
  BY <1>4, <1>7 DEF Decode, Select, Accept, RecvFails, PutCommands, GetItem, Send, Others
<1>8. CASE \E p \in Ports : Decode(Recv(p))
  BY <1>5, <1>8 DEF Decode, Recv, Others
<1>9. CASE Decode(Framing) \/ StEp(StFraming) \/ StEp(EpFraming)
  <2>1. \/ First \/ Kind \/ ReadLength \/ Payload \/ Reopen
    <3>1. CASE Decode(Framing)
      BY <3>1 DEF Decode, Framing, First, Kind, Payload
    <3>2. CASE StEp(StFraming) \/ StEp(EpFraming)
      BY <3>2 DEF StEp, StFraming, EpFraming, First, Kind, Payload
    <3> QED
      BY <1>9, <3>1, <3>2
  <2>2. UNCHANGED <<asked, inbox>>
    BY <2>1 DEF First, ReadFirst, Kind, ReadKind, ReadLength, Payload, ReadData, MyRead, Reopen
  <2> QED
    BY <1>4, <2>2
<1>10. CASE StEp(Start) \/ StEp(AppendItem) \/ StEp(Raises) \/ StEp(WriteCommands)
  BY <1>4, <1>10 DEF StEp, Start, AppendItem, Raises, WriteCommands
<1>11. CASE StEp(SkipPort) \/ StEp(Poll) \/ StEp(AcceptOne) \/ StEp(RecvRaises) \/ StEp(StSend) \/ StEp(EpReturn)
  BY <1>4, <1>11 DEF StEp, SkipPort, Poll, AcceptOne, RecvRaises, StSend, EpReturn
<1>12. CASE StEp(StRecv) \/ StEp(EpHangUp)
  BY <1>5, <1>12 DEF StEp, StRecv, EpHangUp, Takes
<1>13. CASE StEp(EpRecvSend)
  <2>1. UNCHANGED asked /\ (UNCHANGED inbox \/ \E c : inbox' = [inbox EXCEPT ![c] = <<>>])
    BY <1>13 DEF StEp, EpRecvSend, Takes
  <2> QED
    BY <1>4, <1>5, <2>1
<1>14. CASE Around(BoardSends) \/ Around(ReadFails) \/ Around(PicoEnds)
  BY <1>4, <1>14 DEF Around, BoardSends, ReadFails, PicoEnds
<1>15. CASE \E c \in Clients :
              Served(c) /\ (Around(Connect(c)) \/ Around(SendCommand(c)) \/ Around(Leave(c)))
  <2>1. PICK c \in Clients : Connect(c) \/ SendCommand(c) \/ Leave(c)
    BY <1>15 DEF Around
  <2>2. CASE Connect(c) \/ Leave(c)
    BY <1>4, <2>2 DEF Connect, Leave
  <2>3. CASE SendCommand(c)
    BY <2>3, AskedOnce
  <2> QED
    BY <2>1, <2>2, <2>3
<1> QED
  BY <1>6, <1>7, <1>8, <1>9, <1>10, <1>11, <1>12, <1>13, <1>14, <1>15 DEF Next

LEMMA BridgeSame ==
    ASSUME BridgeInv, UNCHANGED bvars
    PROVE  BridgeInv'
<1>1. UNCHANGED <<qin, data, readable, writable, tpc>>
  BY DEF bvars, tcp
<1> QED
  BY <1>1 DEF BridgeInv

(* What a step of the process of port p leaves right, if it leaves the     *)
(* other processes alone                                                   *)
Own(p, r, w, t, d) ==
    /\ r \subseteq OfPort(p) \cup {Server} /\ w \subseteq OfPort(p) /\ d \in Chunk \cup {Unbound}
    /\ t = "put" => d \notin {Unbound, <<>>}

LEMMA BridgeOne ==
    ASSUME QueueInv, BridgeInv, NEW p \in Ports,
           readable' = [readable EXCEPT ![p] = readable'[p]], writable' = [writable EXCEPT ![p] = writable'[p]],
           tpc' = [tpc EXCEPT ![p] = tpc'[p]], data' = [data EXCEPT ![p] = data'[p]],
           Own(p, readable'[p], writable'[p], tpc'[p], data'[p]),
           qin' \in Seq(Chunk), Len(qin') <= InSize
    PROVE  BridgeInv'
<1>1. /\ data \in [Ports -> Chunk \cup {Unbound}] /\ tpc \in [Ports -> Places]
      /\ readable \in [Ports -> SUBSET (Clients \cup {Server})] /\ writable \in [Ports -> SUBSET Clients]
  BY DEF BridgeInv, QueueInv
<1>2. OfPort(p) \subseteq Clients
  BY DEF OfPort
<1>3. /\ readable'[p] \in SUBSET (Clients \cup {Server}) /\ writable'[p] \in SUBSET Clients
      /\ data'[p] \in Chunk \cup {Unbound}
  BY <1>2 DEF Own
<1>4. readable' \in [Ports -> SUBSET (Clients \cup {Server})]
  BY <1>1, <1>3
<1>5. writable' \in [Ports -> SUBSET Clients]
  BY <1>1, <1>3
<1>6. data' \in [Ports -> Chunk \cup {Unbound}]
  BY <1>1, <1>3
<1>7. \A q \in Ports : q # p => /\ readable'[q] = readable[q] /\ writable'[q] = writable[q]
                                /\ tpc'[q] = tpc[q] /\ data'[q] = data[q]
  BY <1>1
<1>8. ASSUME NEW q \in Ports
      PROVE  /\ readable'[q] \subseteq OfPort(q) \cup {Server} /\ writable'[q] \subseteq OfPort(q)
             /\ tpc'[q] = "put" => data'[q] \notin {Unbound, <<>>}
  <2>1. CASE q = p
    BY <2>1 DEF Own
  <2>2. CASE q # p
    BY <1>7, <2>2 DEF BridgeInv
  <2> QED
    BY <2>1, <2>2
<1> QED
  BY <1>4, <1>5, <1>6, <1>8 DEF BridgeInv

LEMMA BridgePort ==
    ASSUME ItemInv, QueueInv, ServedInv, ClientInv, BridgeInv, NEW p \in Ports,
           \/ Select(p) \/ Accept(p) \/ Recv(p) \/ RecvFails(p) \/ PutCommands(p) \/ GetItem(p) \/ Send(p)
    PROVE  BridgeInv'
<1>1. /\ data \in [Ports -> Chunk \cup {Unbound}] /\ tpc \in [Ports -> Places]
      /\ readable \in [Ports -> SUBSET (Clients \cup {Server})] /\ writable \in [Ports -> SUBSET Clients]
      /\ qin \in Seq(Chunk) /\ Len(qin) <= InSize /\ inbox \in [Clients -> Chunk]
      /\ readable[p] \subseteq OfPort(p) \cup {Server} /\ writable[p] \subseteq OfPort(p)
      /\ outputs[p] \subseteq OfPort(p) /\ (tpc[p] = "put" => data[p] \notin {Unbound, <<>>})
      /\ data[p] \in Chunk \cup {Unbound}
  BY DEF BridgeInv, QueueInv, ClientInv, ServedInv, Chunk
<1>2. OfPort(p) \subseteq Clients
  BY DEF OfPort
<1>3. \A s : s \in Ready(p) => s \in OfPort(p) \cup {Server}
  BY DEF Ready
<1>4. ASSUME NEW s, Handled(p, s)
      PROVE  /\ readable' = [readable EXCEPT ![p] = readable'[p]] /\ readable'[p] \subseteq readable[p]
             /\ tpc' = [tpc EXCEPT ![p] = tpc'[p]] /\ tpc'[p] # "put"
  BY <1>1, <1>4 DEF Handled, Step
<1>5. ASSUME NEW c \in OfPort(p), NEW d \in Chunk, Use(p, c, d)
      PROVE  /\ readable' = [readable EXCEPT ![p] = readable'[p]] /\ readable'[p] \subseteq readable[p]
             /\ tpc' = [tpc EXCEPT ![p] = tpc'[p]]
             /\ data' = [data EXCEPT ![p] = data'[p]] /\ data'[p] = d /\ (tpc'[p] = "put" => d # <<>>)
  <2>1. data' = [data EXCEPT ![p] = data'[p]] /\ data'[p] = d
    BY <1>1, <1>5 DEF Use
  <2>2. CASE d # <<>>
    BY <1>1, <1>5, <2>1, <2>2 DEF Use, Step
  <2>3. CASE d = <<>>
    BY <1>4, <1>5, <2>1, <2>3 DEF Use
  <2> QED
    BY <2>2, <2>3
<1>6. CASE Select(p)
  <2>1. /\ readable' = [readable EXCEPT ![p] = Ready(p)] /\ writable' = [writable EXCEPT ![p] = outputs[p]]
        /\ tpc' = [tpc EXCEPT ![p] = tpc'[p]] /\ tpc'[p] # "put" /\ UNCHANGED <<qin, data>>
    BY <1>1, <1>6 DEF Select, Step
  <2>2. /\ readable'[p] = Ready(p) /\ writable'[p] = outputs[p]
    BY <1>1, <2>1
  <2>3. Own(p, readable'[p], writable'[p], tpc'[p], data'[p])
    BY <1>1, <1>3, <2>1, <2>2 DEF Own
  <2> QED
    BY <1>1, <2>1, <2>2, <2>3, BridgeOne
<1>7. CASE Accept(p)
  <2>1. UNCHANGED <<qin, writable, data>> /\ Handled(p, Server)
    BY <1>7 DEF Accept
  <2>2. Own(p, readable'[p], writable'[p], tpc'[p], data'[p])
    BY <1>1, <1>4, <2>1 DEF Own
  <2> QED
    BY <1>1, <1>4, <2>1, <2>2, BridgeOne
<1>8. CASE Recv(p)
  <2>1. PICK c \in readable[p] \ {Server} : Use(p, c, inbox[c])
    BY <1>8 DEF Recv
  <2>2. c \in OfPort(p) /\ inbox[c] \in Chunk
    BY <1>1, <1>2, <2>1
  <2>3. UNCHANGED <<qin, writable>>
    BY <1>8 DEF Recv
  <2>4. Own(p, readable'[p], writable'[p], tpc'[p], data'[p])
    BY <1>1, <1>5, <2>1, <2>2, <2>3, ChunkIsBound DEF Own
  <2> QED
    BY <1>1, <1>5, <2>1, <2>2, <2>3, <2>4, BridgeOne
<1>9. CASE RecvFails(p)
  <2>1. PICK c \in readable[p] \ {Server} :
          IF data[p] = Unbound
          THEN NextRound(p) /\ readable' = [readable EXCEPT ![p] = {}] /\ UNCHANGED <<data, outputs>>
          ELSE Use(p, c, data[p])
    BY <1>9 DEF RecvFails
  <2>2. UNCHANGED <<qin, writable>>
    BY <1>9 DEF RecvFails
  <2>3. CASE data[p] = Unbound
    <3>1. /\ readable' = [readable EXCEPT ![p] = readable'[p]] /\ readable'[p] = {}
          /\ tpc' = [tpc EXCEPT ![p] = tpc'[p]] /\ tpc'[p] # "put" /\ UNCHANGED data
      BY <1>1, <2>1, <2>3 DEF NextRound, Step
    <3>2. Own(p, readable'[p], writable'[p], tpc'[p], data'[p])
      BY <1>1, <2>2, <3>1 DEF Own
    <3> QED
      BY <1>1, <2>2, <3>1, <3>2, BridgeOne
  <2>4. CASE data[p] # Unbound
    <3>1. c \in OfPort(p) /\ data[p] \in Chunk /\ Use(p, c, data[p])
      BY <1>1, <2>1, <2>4
    <3>2. Own(p, readable'[p], writable'[p], tpc'[p], data'[p])
      BY <1>1, <1>5, <2>2, <3>1, ChunkIsBound DEF Own
    <3> QED
      BY <1>1, <1>5, <2>2, <3>1, <3>2, BridgeOne
  <2> QED
    BY <2>3, <2>4
<1>10. CASE PutCommands(p)
  <2>1. /\ tpc[p] = "put" /\ Len(qin) < InSize /\ qin' = Append(qin, data[p])
        /\ tpc' = [tpc EXCEPT ![p] = tpc'[p]] /\ tpc'[p] # "put" /\ UNCHANGED <<readable, writable, data>>
    BY <1>1, <1>10 DEF PutCommands, Step
  <2>2. data[p] \in Chunk
    BY <1>1, <2>1
  <2>3. qin' \in Seq(Chunk) /\ Len(qin') = Len(qin) + 1
    BY <1>1, <2>1, <2>2, AppendIs
  <2>4. Len(qin') <= InSize
    <3>1. Len(qin) \in Nat /\ InSize \in Nat
      BY <1>1, BridgeAssumption
    <3> QED
      BY <2>1, <2>3, <3>1
  <2>5. Own(p, readable'[p], writable'[p], tpc'[p], data'[p])
    BY <1>1, <2>1 DEF Own
  <2> QED
    BY <1>1, <2>1, <2>3, <2>4, <2>5, BridgeOne
<1>11. CASE GetItem(p) \/ Send(p)
  <2>1. /\ UNCHANGED <<qin, readable, data>> /\ tpc' = [tpc EXCEPT ![p] = tpc'[p]] /\ tpc'[p] # "put"
        /\ writable' = [writable EXCEPT ![p] = {}] \/ writable' = writable
    BY <1>1, <1>11 DEF GetItem, Send, NextRound, Step
  <2>2. writable' = [writable EXCEPT ![p] = writable'[p]] /\ writable'[p] \subseteq writable[p]
    BY <1>1, <2>1
  <2>3. Own(p, readable'[p], writable'[p], tpc'[p], data'[p])
    BY <1>1, <2>1, <2>2 DEF Own
  <2> QED
    BY <1>1, <2>1, <2>2, <2>3, BridgeOne
<1> QED
  BY <1>6, <1>7, <1>8, <1>9, <1>10, <1>11

LEMMA BridgeInvStep ==
    ASSUME ItemInv, QueueInv, ServedInv, ClientInv, BridgeInv, Next
    PROVE  BridgeInv'
<1>1. CASE program # "decode"
  <2>1. UNCHANGED bvars
    BY <1>1, OthersStay
  <2> QED
    BY <2>1, BridgeSame
<1>2. CASE Decode(TakeCommand)
  <2>1. UNCHANGED <<qs, tcp>> /\ (qin' = qin \/ (qin # <<>> /\ qin' = Tail(qin)))
    BY <1>2 DEF Decode, TakeCommand
  <2>2. qin' \in Seq(Chunk) /\ Len(qin') <= InSize
    <3>1. qin \in Seq(Chunk) /\ Len(qin) <= InSize /\ InSize \in Nat
      BY BridgeAssumption DEF BridgeInv
    <3>2. CASE qin' = qin
      BY <3>1, <3>2
    <3>3. CASE qin # <<>> /\ qin' = Tail(qin)
      <4>1. qin' \in Seq(Chunk) /\ Len(qin') = Len(qin) - 1 /\ Len(qin) \in Nat
        BY <3>1, <3>3, TailIs
      <4> QED
        BY <3>1, <4>1
    <3> QED
      BY <2>1, <3>2, <3>3
  <2>3. UNCHANGED <<data, readable, writable, tpc>>
    BY <2>1 DEF tcp
  <2> QED
    BY <2>2, <2>3 DEF BridgeInv
<1>3. CASE Decode(PutItem)
  <2>1. UNCHANGED <<qin, tcp>>
    BY <1>3 DEF Decode, PutItem
  <2>2. UNCHANGED <<qin, data, readable, writable, tpc>>
    BY <2>1 DEF tcp
  <2> QED
    BY <2>2 DEF BridgeInv
<1>4. CASE Decode(Framing)
  <2>1. UNCHANGED bvars
    BY <1>4 DEF Decode, Framing
  <2> QED
    BY <2>1, BridgeSame
<1>5. CASE \E p \in Ports :
              \/ Decode(Select(p)) \/ Decode(Accept(p))
              \/ Decode(Recv(p)) \/ Decode(RecvFails(p)) \/ Decode(PutCommands(p))
              \/ Decode(GetItem(p)) \/ Decode(Send(p))
  BY <1>5, BridgePort DEF Decode
<1>6. CASE Decode(MainEnds)
  <2>1. UNCHANGED <<qin, data, readable, writable>> /\ \A p \in Ports : tpc'[p] # "put"
    BY <1>6 DEF Decode, MainEnds
  <2> QED
    BY <2>1 DEF BridgeInv
<1>7. CASE \/ StEp(Start) \/ StEp(StFraming) \/ StEp(EpFraming)
           \/ StEp(AppendItem) \/ StEp(Raises)
           \/ StEp(SkipPort) \/ StEp(Poll) \/ StEp(AcceptOne) \/ StEp(RecvRaises)
           \/ StEp(StRecv) \/ StEp(StSend)
           \/ StEp(EpHangUp) \/ StEp(EpRecvSend) \/ StEp(EpReturn)
           \/ StEp(WriteCommands)
  BY <1>1, <1>7 DEF StEp
<1>8. CASE \/ Around(BoardSends) \/ Around(ReadFails) \/ Around(PicoEnds)
           \/ \E c \in Clients :
                Served(c) /\ (Around(Connect(c)) \/ Around(SendCommand(c)) \/ Around(Leave(c)))
  BY <1>8, BridgeSame DEF Around
<1> QED
  BY <1>2, <1>3, <1>4, <1>5, <1>6, <1>7, <1>8 DEF Next

(* A call is over, or none was made *)
LEMMA NoCall ==
    ASSUME CallInv, events' = {}, able' = {}, ending' = {}, received' \in {received, Unbound},
           indata' \in Chunk, broken' => program' = "st"
    PROVE  CallInv'
<1>1. received' \in Chunk \cup {Unbound}
  BY DEF CallInv
<1> QED
  BY <1>1 DEF CallInv

LEMMA CallOutside ==
    ASSUME CallInv, pc # "handle", UNCHANGED <<indata, call>>, broken' => program' = "st"
    PROVE  CallInv'
<1>1. events = {} /\ able = {} /\ ending = {} /\ indata \in Chunk
  BY DEF CallInv
<1>2. UNCHANGED <<events, able, ending, received>>
  BY DEF call
<1> QED
  BY <1>1, <1>2, NoCall

(* What a handler leaves of the call *)
LEMMA CallGoesOn ==
    ASSUME CallInv, pc = "handle", UNCHANGED <<program, pc, port, broken>>,
           events' \subseteq events, able' \subseteq able, ending' \subseteq ending,
           ending' \subseteq events', received' \in Chunk \cup {Unbound}, indata' \in Chunk
    PROVE  CallInv'
  BY DEF CallInv

LEMMA CallHandler ==
    ASSUME ServedInv, ClientInv, CallInv, program # "decode",
           \/ StEp(AcceptOne) \/ StEp(RecvRaises) \/ StEp(StRecv) \/ StEp(StSend)
           \/ StEp(EpHangUp) \/ StEp(EpRecvSend) \/ StEp(EpReturn)
    PROVE  CallInv'
<1>1. /\ indata \in Chunk /\ received \in Chunk \cup {Unbound}
      /\ events \subseteq OfPort(port) \cup {Server} /\ able \subseteq OfPort(port)
      /\ ending \subseteq events \ {Server} /\ (program # "ep" => ending = {})
      /\ (broken => program = "st") /\ inbox \in [Clients -> Chunk]
      /\ OfPort(port) \subseteq Clients
  BY DEF CallInv, ClientInv, Chunk, OfPort
<1>2. pc = "handle" /\ UNCHANGED Quiet
  BY DEF StEp, AcceptOne, RecvRaises, StRecv, StSend, EpHangUp, EpRecvSend, EpReturn
<1>3. UNCHANGED <<program, broken>>
  BY <1>2 DEF Quiet, board
<1>4. ASSUME Return, UNCHANGED indata PROVE CallInv'
  BY <1>1, <1>3, <1>4, NoCall DEF Return
<1>5. ASSUME NEW c \in Clients, Received(c) # Unbound, Takes(c)
      PROVE  received' \in Chunk \cup {Unbound} /\ indata' \in Chunk
  <2>1. Received(c) \in Chunk
    BY <1>1, <1>5 DEF Received
  <2> QED
    BY <1>1, <1>5, <2>1, ChunkIsBound DEF Takes
<1>6. CASE StEp(AcceptOne)
  <2>1. UNCHANGED <<pc, port, indata, ending, able, received>> /\ events' = events \ {Server}
    BY <1>6 DEF StEp, AcceptOne
  <2>2. ending \subseteq events \ {Server}
    BY <1>1
  <2> QED
    BY <1>1, <1>2, <1>3, <2>1, <2>2, CallGoesOn
<1>7. CASE StEp(RecvRaises) \/ StEp(StSend) \/ StEp(EpReturn)
  BY <1>4, <1>7 DEF StEp, RecvRaises, StSend, EpReturn
<1>8. CASE StEp(StRecv)
  <2>1. PICK c \in events \ {Server} : Received(c) # Unbound /\ Takes(c) /\ events' = events \ {c}
    BY <1>8 DEF StEp, StRecv
  <2>2. program = "st" /\ UNCHANGED <<pc, port, ending, able>>
    BY <1>8 DEF StEp, StRecv
  <2>3. c \in Clients
    BY <1>1, <2>1
  <2>4. ending = {}
    BY <1>1, <2>2
  <2>5. received' \in Chunk \cup {Unbound} /\ indata' \in Chunk
    BY <1>5, <2>1, <2>3
  <2> QED
    BY <1>2, <1>3, <2>1, <2>2, <2>4, <2>5, CallGoesOn
<1>9. CASE StEp(EpHangUp)
  <2>1. PICK c \in ending : events' = events \ {c} /\ ending' = ending \ {c} /\ able' = able \ {c}
    BY <1>9 DEF StEp, EpHangUp
  <2>2. UNCHANGED <<pc, port, indata, received>>
    BY <1>9 DEF StEp, EpHangUp
  <2> QED
    BY <1>1, <1>2, <1>3, <2>1, <2>2, CallGoesOn
<1>10. CASE StEp(EpRecvSend)
  <2>1. PICK c \in ((events \cup able) \ ending) \ {Server} :
          /\ (UNCHANGED <<indata, received>> \/ (Received(c) # Unbound /\ Takes(c)))
          /\ events' = events \ {c} /\ able' = able \ {c}
    BY <1>10 DEF StEp, EpRecvSend
  <2>2. UNCHANGED <<pc, port, ending>>
    BY <1>10 DEF StEp, EpRecvSend
  <2>3. c \in Clients
    BY <1>1, <2>1
  <2>4. received' \in Chunk \cup {Unbound} /\ indata' \in Chunk
    BY <1>1, <1>5, <2>1, <2>3
  <2> QED
    BY <1>1, <1>2, <1>3, <2>1, <2>2, <2>4, CallGoesOn
<1> QED
  BY <1>6, <1>7, <1>8, <1>9, <1>10

LEMMA CallInvStep ==
    ASSUME StreamInv, ServedInv, ClientInv, CallInv, Next
    PROVE  CallInv'
<1>1. /\ indata \in Chunk /\ received \in Chunk \cup {Unbound} /\ port \in Ports
      /\ events \subseteq OfPort(port) \cup {Server} /\ able \subseteq OfPort(port)
      /\ ending \subseteq events \ {Server} /\ (program # "ep" => ending = {})
      /\ (broken => program = "st") /\ (events \cup able # {} => pc = "handle")
      /\ (pc = "handle" => program # "decode") /\ outputs[port] \subseteq OfPort(port)
  BY DEF CallInv, ServedInv, StreamInv
<1>2. program' = program
  BY ProgramStays
<1>3. ASSUME pc # "handle", UNCHANGED dvars PROVE CallInv'
  BY <1>1, <1>2, <1>3, CallOutside DEF dvars, call
<1>4. CASE program = "decode"
  BY <1>1, <1>3, <1>4, OthersStay
<1>5. CASE program # "decode"
  <2>1. CASE StEp(Start) \/ StEp(EpFraming) \/ StEp(Raises)
    <3>1. pc # "handle" /\ UNCHANGED dvars
      BY <2>1 DEF StEp, Start, EpFraming, Raises, ReadFirst, ReadKind, ReadLength, ReadData, Reopen
    <3> QED
      BY <1>3, <3>1
  <2>2. CASE StEp(StFraming)
    <3>1. pc # "handle" /\ UNCHANGED <<indata, call>> /\ program = "st"
      BY <2>2 DEF StEp, StFraming, ReadFirst, ReadKind, ReadLength, ReadData, Reopen
    <3> QED
      BY <1>2, <3>1, CallOutside
  <2>3. CASE StEp(AppendItem)
    BY <1>1, <1>2, <2>3, CallOutside DEF StEp, AppendItem
  <2>4. CASE StEp(SkipPort)
    <3>1. pc # "handle" /\ UNCHANGED <<indata, call, broken>>
      BY <2>4 DEF StEp, SkipPort, Quiet
    <3> QED
      BY <1>1, <1>2, <3>1, CallOutside
  <2>5. CASE StEp(Poll)
    <3>1. PICK reading, sending :
            /\ reading \subseteq OfPort(port) \cup {Server} /\ sending \subseteq OfPort(port)
            /\ \/ Return /\ UNCHANGED indata
               \/ /\ events' = reading /\ able' = sending /\ pc' = "handle"
                  /\ ending' = {c \in reading \ {Server} : program = "ep" /\ link[c] = "reset"}
                  /\ UNCHANGED <<port, indata, received>>
      <4> DEFINE reading == {c \in outputs[port] : link[c] # "open" \/ inbox[c] # <<>>}
                      \cup (IF \E c \in OfPort(port) : link[c] = "waiting" THEN {Server} ELSE {})
                 sending == IF outdata[port] = <<>> THEN {} ELSE outputs[port]
      <4>1. reading \subseteq OfPort(port) \cup {Server} /\ sending \subseteq OfPort(port)
        BY <1>1
      <4>2. \/ Return /\ UNCHANGED indata
            \/ /\ events' = reading /\ able' = sending /\ pc' = "handle"
               /\ ending' = {c \in reading \ {Server} : program = "ep" /\ link[c] = "reset"}
               /\ UNCHANGED <<port, indata, received>>
        BY <2>5 DEF StEp, Poll, Goto
      <4> HIDE DEF reading, sending
      <4> QED
        BY <4>1, <4>2
    <3>2. broken' = broken
      BY <2>5 DEF StEp, Poll, Quiet
    <3>3. CASE Return /\ UNCHANGED indata
      BY <1>1, <1>2, <3>2, <3>3, NoCall DEF Return
    <3>4. CASE /\ events' = reading /\ able' = sending /\ pc' = "handle"
               /\ ending' = {c \in reading \ {Server} : program = "ep" /\ link[c] = "reset"}
               /\ UNCHANGED <<port, indata, received>>
      BY <1>1, <1>2, <3>1, <3>2, <3>4 DEF CallInv
    <3> QED
      BY <3>1, <3>3, <3>4
  <2>6. CASE \/ StEp(AcceptOne) \/ StEp(RecvRaises) \/ StEp(StRecv) \/ StEp(StSend)
             \/ StEp(EpHangUp) \/ StEp(EpRecvSend) \/ StEp(EpReturn)
    BY <1>5, <2>6, CallHandler
  <2>7. CASE StEp(WriteCommands)
    <3>1. pc = "write" /\ indata' = <<>> /\ UNCHANGED <<call, broken>>
      BY <2>7 DEF StEp, WriteCommands
    <3>2. events' = {} /\ able' = {} /\ ending' = {} /\ received' = received
      BY <1>1, <3>1 DEF call
    <3> QED
      BY <1>1, <1>2, <3>1, <3>2, NoCall, ChunkIsBound
  <2>8. CASE Around(BoardSends)
    <3>1. UNCHANGED <<dvars, pc, port>>
      BY <2>8 DEF Around, BoardSends, serial
    <3> QED
      BY <1>1, <1>2, <3>1 DEF CallInv, dvars
  <2>9. CASE Around(ReadFails) \/ Around(PicoEnds)
    BY <1>3, <2>9 DEF Around, ReadFails, PicoEnds
  <2>10. CASE \E c \in Clients :
              Served(c) /\ (Around(Connect(c)) \/ Around(SendCommand(c)) \/ Around(Leave(c)))
    <3>1. UNCHANGED dvars /\ UNCHANGED Client
      BY <2>10 DEF Around, Connect, SendCommand, Leave
    <3>2. UNCHANGED <<dvars, pc, port>>
      BY <3>1 DEF Client, serial
    <3> QED
      BY <1>1, <1>2, <3>2 DEF CallInv, dvars
  <2> QED
    BY <1>5, <2>1, <2>2, <2>3, <2>4, <2>5, <2>6, <2>7, <2>8, <2>9, <2>10 DEF Next, Decode
<1> QED
  BY <1>4, <1>5

TypeInv == RelayInv /\ ClientInv /\ BridgeInv /\ CallInv

LEMMA TypeInit ==
    ASSUME Init
    PROVE  TypeInv
<1>1. /\ asked = [c \in Clients |-> 0] /\ inbox = [c \in Clients |-> <<>>] /\ load = 0
      /\ qin = <<>> /\ data = [p \in Ports |-> Unbound] /\ tpc = [p \in Ports |-> "select"]
      /\ readable = [p \in Ports |-> {}] /\ writable = [p \in Ports |-> {}]
      /\ indata = <<>> /\ received = Unbound /\ events = {} /\ able = {} /\ ending = {} /\ broken = FALSE
  BY DEF Init, SidesInit, BridgeInit, DecoderInit
<1>2. <<>> \in Seq(Command) /\ <<>> \in Seq(Chunk) /\ Len(<<>>) = 0 /\ InSize \in Nat
  BY BridgeAssumption
<1>3. ClientInv
  BY <1>1, <1>2 DEF ClientInv
<1>4. BridgeInv
  <2>1. Len(qin) <= InSize
    BY <1>1, <1>2
  <2> QED
    BY <1>1, <1>2, <2>1 DEF BridgeInv
<1>5. CallInv
  BY <1>1, ChunkIsBound DEF CallInv
<1> QED
  BY <1>3, <1>4, <1>5, RelayInit DEF TypeInv

LEMMA TypeInvStep ==
    ASSUME TypeInv, [Next]_vars
    PROVE  TypeInv'
<1>1. StreamInv /\ ItemInv /\ QueueInv /\ ServedInv /\ ClientInv /\ BridgeInv /\ CallInv
  BY DEF TypeInv, RelayInv
<1>2. RelayInv'
  BY RelayInvStep DEF TypeInv
<1>3. CASE Next
  BY <1>1, <1>2, <1>3, ClientInvStep, BridgeInvStep, CallInvStep DEF TypeInv
<1>4. CASE UNCHANGED vars
  <2>1. UNCHANGED <<program, pc, port, load, asked, inbox>> /\ UNCHANGED bvars /\ UNCHANGED dvars
    BY <1>4 DEF vars, sides, board, serial, clients
  <2>2. UNCHANGED <<indata, received, events, able, ending, broken>>
    BY <2>1 DEF dvars
  <2>3. ClientInv'
    BY <1>1, <2>1 DEF ClientInv
  <2>4. BridgeInv'
    BY <1>1, <2>1, BridgeSame
  <2>5. CallInv'
    BY <1>1, <2>1, <2>2 DEF CallInv
  <2> QED
    BY <1>2, <2>3, <2>4, <2>5 DEF TypeInv
<1> QED
  BY <1>3, <1>4

LEMMA RestIsSent ==
    ASSUME StreamInv, NEW b \in ToSet(Rest)
    PROVE  b.of \in 1 .. Len(sent)
<1>1. Rest \in Seq(Cell) /\ Genuine(sent, Rest) /\ sent \in Seq(Packet)
  BY DEF StreamInv, Synced, Rest
<1>2. PICK k \in 1 .. Len(Rest) : b = Rest[k]
  BY <1>1 DEF ToSet
<1>3. PICK n \in 1 .. Len(sent) : \E x \in 1 .. Len(Code(sent, n)) : Rest[k] = Code(sent, n)[x]
  BY <1>2, <1>1 DEF Genuine
<1>4. PICK x \in 1 .. Len(Code(sent, n)) : Rest[k] = Code(sent, n)[x]
  BY <1>3
<1>5. Code(sent, n)[x].of = n
  BY <1>1, <1>3, <1>4, CodeIs
<1> QED
  BY <1>2, <1>4, <1>5

LEMMA ElementsAre ==
    ASSUME NEW S, NEW a \in Seq(S)
    PROVE  ToSet(a) \subseteq S
  BY DEF ToSet

LEMMA JoinedAre ==
    ASSUME NEW S, NEW a \in Seq(S), NEW b \in Seq(S), NEW d \in Seq(S)
    PROVE  a \o b \o d \in Seq(S)
  OBVIOUS

(* THEOREM HostTypeOK: whatever clients, ports, packets and queue sizes,    *)
(* every variable of the host programs keeps its range and every queue its  *)
(* bound, and connections are served on the port they were made to.         *)
THEOREM HostTypeOK == Spec => []TypeOK
<1>1. Init => TypeInv
  BY TypeInit
<1>2. TypeInv /\ [Next]_vars => TypeInv'
  BY TypeInvStep
<1>3. TypeInv => TypeOK
  <2> SUFFICES ASSUME TypeInv PROVE TypeOK
    OBVIOUS
  <2>1. StreamInv /\ ItemInv /\ QueueInv /\ ServedInv /\ ClientInv /\ BridgeInv /\ CallInv
    BY DEF TypeInv, RelayInv
  <2>2. \A b \in ToSet(Rest) : b.of \in 1 .. Len(sent)
    BY <2>1, RestIsSent
  <2>3. /\ pc \in {"top", "first", "kind", "length", "data", "put", "sleep", "ended",
                    "serve", "handle", "write"}
        /\ pc = "data" => length \in 1 .. Longest
        /\ port \in Ports
    BY <2>1 DEF StreamInv, Labels
  <2>4. ToSet(todo) \subseteq Item /\ (pc = "put" <=> todo # <<>>)
    BY <2>1, ElementsAre DEF ItemInv
  <2>5. Len(qin) <= InSize /\ ToSet(qin) \subseteq Chunk
    BY <2>1, ElementsAre DEF BridgeInv
  <2>6. ASSUME NEW p \in Ports
        PROVE  /\ Len(qs[p]) <= OutSize[p] /\ ToSet(Held(p)) \subseteq Item
               /\ tpc[p] \in {"select", "handle", "put", "get", "send", "ended"}
               /\ readable[p] \subseteq OfPort(p) \cup {Server}
               /\ writable[p] \subseteq OfPort(p) /\ outputs[p] \subseteq OfPort(p)
               /\ tpc[p] = "put" => data[p] \notin {Unbound, <<>>}
               /\ data[p] = Unbound \/ data[p] \in Chunk
    <3>1. Len(qs[p]) <= OutSize[p]
      BY <2>1 DEF QueueInv
    <3>2. ToSet(Held(p)) \subseteq Item
      <4>1. qd[p] \in Seq(Item) /\ qs[p] \in Seq(Item) /\ outdata[p] \in Seq(Item)
        BY <2>1 DEF ItemInv
      <4>2. Held(p) \in Seq(Item)
        BY <4>1, JoinedAre DEF Held
      <4> QED
        BY <4>2, ElementsAre
    <3>3. tpc[p] \in {"select", "handle", "put", "get", "send", "ended"}
      BY <2>1 DEF QueueInv, Places
    <3>4. /\ readable[p] \subseteq OfPort(p) \cup {Server} /\ writable[p] \subseteq OfPort(p)
          /\ tpc[p] = "put" => data[p] \notin {Unbound, <<>>}
          /\ data[p] \in Chunk \cup {Unbound}
      BY <2>1 DEF BridgeInv
    <3>5. outputs[p] \subseteq OfPort(p)
      BY <2>1 DEF ServedInv
    <3> QED
      BY <3>1, <3>2, <3>3, <3>4, <3>5
  <2>7. /\ events \subseteq OfPort(port) \cup {Server} /\ able \subseteq OfPort(port)
        /\ ending \subseteq events /\ (events \cup able # {} => pc = "handle")
        /\ indata \in Chunk /\ (received = Unbound \/ received \in Chunk)
        /\ broken => program = "st"
    BY <2>1 DEF CallInv
  <2> QED
    BY <2>2, <2>3, <2>4, <2>5, <2>6, <2>7 DEF TypeOK
<1> QED
  BY <1>1, <1>2, <1>3, PTL DEF Spec

-----------------------------------------------------------------------------
(* Commands one after the other: a client's rise in s, those in s come     *)
(* before those in t, and none in s is later than f says                   *)
Rising(s) ==
    \A k \in 1 .. Len(s) : \A j \in 1 .. k - 1 : s[j][1] = s[k][1] => s[j][2] < s[k][2]
Precedes(s, t) ==
    \A j \in 1 .. Len(s) : \A k \in 1 .. Len(t) : s[j][1] = t[k][1] => s[j][2] < t[k][2]
UpTo(s, f) == \A k \in 1 .. Len(s) : s[k][2] <= f[s[k][1]]
Of(s, C) == \A k \in 1 .. Len(s) : s[k][1] \in C
(* The next commands of c behind n *)
Follow(t, c, n) == \A k \in 1 .. Len(t) : t[k] = <<c, n + k>>

LEMMA NoCommands ==
    /\ Rising(<<>>) /\ \A f : UpTo(<<>>, f)
    /\ \A s : Precedes(<<>>, s) /\ Precedes(s, <<>>)
    /\ \A C : Of(<<>>, C)
<1>1. 1 .. Len(<<>>) = {}
  OBVIOUS
<1> QED
  BY <1>1 DEF Rising, UpTo, Precedes, Of

LEMMA CommandIs ==
    ASSUME NEW s \in Seq(Command), NEW k \in 1 .. Len(s)
    PROVE  s[k] \in Command /\ s[k][1] \in Clients /\ s[k][2] \in Nat
<1>1. s[k] \in Command
  OBVIOUS
<1>2. s[k][1] \in Clients /\ s[k][2] \in 1 .. MaxLoad
  BY <1>1 DEF Command
<1>3. MaxLoad \in Nat
  BY HostAssumption
<1> QED
  BY <1>1, <1>2, <1>3

(* Every command of the two joined is one of the first or of the second *)
LEMMA InEither ==
    ASSUME NEW S, NEW a \in Seq(S), NEW b \in Seq(S), NEW w, w = a \o b, NEW k \in 1 .. Len(w)
    PROVE  /\ k <= Len(a) => k \in 1 .. Len(a) /\ w[k] = a[k]
           /\ k > Len(a) => k - Len(a) \in 1 .. Len(b) /\ w[k] = b[k - Len(a)]
<1>1. /\ a \o b \in Seq(S) /\ Len(a \o b) = Len(a) + Len(b)
      /\ \A x \in 1 .. Len(a) : (a \o b)[x] = a[x]
  BY Joined
<1>2. \A x \in 1 .. Len(b) : (a \o b)[x + Len(a)] = b[x]
  BY JoinedBehind
<1>3. Len(a) \in Nat /\ Len(b) \in Nat /\ k \in 1 .. Len(a) + Len(b)
  BY <1>1
<1>4. CASE k <= Len(a)
  BY <1>1, <1>3, <1>4
<1>5. CASE k > Len(a)
  <2>1. PICK y : y = k - Len(a)
    OBVIOUS
  <2>2. y \in 1 .. Len(b) /\ y + Len(a) = k
    BY <1>3, <1>5, <2>1
  <2>3. (a \o b)[y + Len(a)] = b[y]
    BY <1>2, <2>2
  <2>4. w[k] = b[y]
    BY <2>2, <2>3
  <2> QED
    BY <1>3, <1>5, <2>1, <2>2, <2>4
<1> QED
  BY <1>3, <1>4, <1>5

LEMMA UpToJoined ==
    ASSUME NEW a \in Seq(Command), NEW b \in Seq(Command), NEW f, UpTo(a, f), UpTo(b, f)
    PROVE  UpTo(a \o b, f)
<1> PICK w : w = a \o b
  OBVIOUS
<1>1. ASSUME NEW k \in 1 .. Len(w) PROVE w[k][2] <= f[w[k][1]]
  <2>1. \/ k \in 1 .. Len(a) /\ w[k] = a[k]
        \/ k - Len(a) \in 1 .. Len(b) /\ w[k] = b[k - Len(a)]
    BY InEither
  <2> QED
    BY <2>1 DEF UpTo
<1> QED
  BY <1>1 DEF UpTo

LEMMA PrecedesJoined ==
    ASSUME NEW a \in Seq(Command), NEW b \in Seq(Command), NEW d, Precedes(a, d), Precedes(b, d)
    PROVE  Precedes(a \o b, d)
<1> PICK w : w = a \o b
  OBVIOUS
<1>1. ASSUME NEW k \in 1 .. Len(w), NEW x \in 1 .. Len(d), w[k][1] = d[x][1] PROVE w[k][2] < d[x][2]
  <2>1. \/ k \in 1 .. Len(a) /\ w[k] = a[k]
        \/ k - Len(a) \in 1 .. Len(b) /\ w[k] = b[k - Len(a)]
    BY InEither
  <2> QED
    BY <1>1, <2>1 DEF Precedes
<1> QED
  BY <1>1 DEF Precedes

LEMMA RisingJoined ==
    ASSUME NEW a \in Seq(Command), NEW b \in Seq(Command), Rising(a), Rising(b), Precedes(a, b)
    PROVE  Rising(a \o b)
<1> PICK w : w = a \o b
  OBVIOUS
<1>0. w \in Seq(Command) /\ Len(a) \in Nat /\ Len(b) \in Nat /\ Len(w) = Len(a) + Len(b)
  OBVIOUS
<1>1. ASSUME NEW k \in 1 .. Len(w), NEW j \in 1 .. k - 1, w[j][1] = w[k][1] PROVE w[j][2] < w[k][2]
  <2>0. j \in 1 .. Len(w) /\ j < k
    BY <1>0
  <2>1. /\ k <= Len(a) => k \in 1 .. Len(a) /\ w[k] = a[k]
        /\ k > Len(a) => k - Len(a) \in 1 .. Len(b) /\ w[k] = b[k - Len(a)]
    BY InEither
  <2>2. /\ j <= Len(a) => j \in 1 .. Len(a) /\ w[j] = a[j]
        /\ j > Len(a) => j - Len(a) \in 1 .. Len(b) /\ w[j] = b[j - Len(a)]
    BY <2>0, InEither
  <2>3. CASE k <= Len(a)
    <3>1. j <= Len(a) /\ j \in 1 .. k - 1
      BY <1>0, <2>0, <2>3
    <3> QED
      BY <1>1, <2>1, <2>2, <2>3, <3>1 DEF Rising
  <2>4. CASE k > Len(a) /\ j <= Len(a)
    BY <1>1, <2>1, <2>2, <2>4 DEF Precedes
  <2>5. CASE k > Len(a) /\ j > Len(a)
    <3>1. PICK x, y : x = j - Len(a) /\ y = k - Len(a)
      OBVIOUS
    <3>2. y \in 1 .. Len(b) /\ x \in 1 .. y - 1 /\ w[k] = b[y] /\ w[j] = b[x]
      BY <1>0, <2>0, <2>1, <2>2, <2>5, <3>1
    <3> QED
      BY <1>1, <3>2 DEF Rising
  <2> QED
    BY <1>0, <2>3, <2>4, <2>5
<1> QED
  BY <1>1 DEF Rising

LEMMA FollowIs ==
    ASSUME NEW t \in Seq(Command), NEW c \in Clients, NEW n \in Nat, Follow(t, c, n)
    PROVE  /\ Rising(t) /\ \A C : c \in C => Of(t, C)
           /\ \A f : f[c] = n + Len(t) => UpTo(t, f)
<1>1. \A k \in 1 .. Len(t) : t[k][1] = c /\ t[k][2] = n + k
  BY DEF Follow
<1>2. Len(t) \in Nat
  OBVIOUS
<1>3. ASSUME NEW k \in 1 .. Len(t), NEW j \in 1 .. k - 1 PROVE t[j][2] < t[k][2]
  <2>1. j \in 1 .. Len(t) /\ j < k
    BY <1>2
  <2> QED
    BY <1>1, <2>1
<1>4. ASSUME NEW f, f[c] = n + Len(t), NEW k \in 1 .. Len(t) PROVE t[k][2] <= f[t[k][1]]
  BY <1>1, <1>2, <1>4
<1> QED
  BY <1>1, <1>3, <1>4 DEF Rising, Of, UpTo

LEMMA PrecedesFollowing ==
    ASSUME NEW s \in Seq(Command), NEW f, UpTo(s, f), NEW c \in Clients, NEW t, Follow(t, c, f[c]), f[c] \in Nat
    PROVE  Precedes(s, t)
<1> SUFFICES ASSUME NEW j \in 1 .. Len(s), NEW k \in 1 .. Len(t), s[j][1] = t[k][1]
             PROVE  s[j][2] < t[k][2]
  BY DEF Precedes
<1>1. t[k][1] = c /\ t[k][2] = f[c] + k
  BY DEF Follow
<1>2. s[j][2] <= f[c] /\ s[j][2] \in Nat
  BY <1>1, CommandIs DEF UpTo
<1> QED
  BY <1>1, <1>2

LEMMA PrecedesOthers ==
    ASSUME NEW s, NEW t, NEW C, NEW D, Of(s, C), Of(t, D), C \cap D = {}
    PROVE  Precedes(s, t)
  BY DEF Of, Precedes

LEMMA UpToMore ==
    ASSUME NEW s \in Seq(Command), NEW f, NEW g, UpTo(s, f),
           \A c \in Clients : f[c] \in Int /\ g[c] \in Int /\ f[c] <= g[c]
    PROVE  UpTo(s, g)
<1> SUFFICES ASSUME NEW k \in 1 .. Len(s) PROVE s[k][2] <= g[s[k][1]]
  BY DEF UpTo
<1>1. s[k][1] \in Clients /\ s[k][2] \in Nat /\ s[k][2] <= f[s[k][1]]
  BY CommandIs DEF UpTo
<1>2. f[s[k][1]] \in Int /\ g[s[k][1]] \in Int /\ f[s[k][1]] <= g[s[k][1]]
  BY <1>1
<1> QED
  BY <1>1, <1>2

Emptied(c) == inbox' = [inbox EXCEPT ![c] = <<>>]
ResetInv ==
    /\ resets \in Nat /\ DOMAIN link = Clients
    /\ \A c \in Clients : link[c] = "reset" => resets # 0

(* The connections where a recv can still raise: what is in the variable   *)
(* before would be put again                                               *)
Armed ==
    {c \in Clients \ {Server} : link[c] = "reset" /\ (program = "ep" => c \in events \ ending)}
Disarms(c) == c \in Armed /\ Armed' \subseteq Armed \ {c} /\ UNCHANGED resets

LEMMA Disarmed ==
    ASSUME ResetInv, NEW c \in Clients \ {Server}, link[c] = "reset", UNCHANGED <<program, resets>>,
           \/ program # "ep" /\ \E l : l # "reset" /\ link' = [link EXCEPT ![c] = l]
           \/ program = "ep" /\ c \in events \ ending /\ UNCHANGED <<link, ending>> /\ events' = events \ {c}
    PROVE  Disarms(c)
<1>1. c \in Armed
  BY DEF Armed
<1>2. CASE program # "ep" /\ \E l : l # "reset" /\ link' = [link EXCEPT ![c] = l]
  <2>1. PICK l : l # "reset" /\ link' = [link EXCEPT ![c] = l]
    BY <1>2
  <2>2. \A d \in Clients : link'[d] = IF d = c THEN l ELSE link[d]
    BY <2>1 DEF ResetInv
  <2>3. Armed' \subseteq Armed \ {c}
    BY <1>2, <2>1, <2>2 DEF Armed
  <2> QED
    BY <1>1, <2>3 DEF Disarms
<1>3. CASE program = "ep" /\ UNCHANGED <<link, ending>> /\ events' = events \ {c}
  <2>1. Armed' \subseteq Armed \ {c}
    BY <1>3 DEF Armed
  <2> QED
    BY <1>1, <2>1 DEF Disarms
<1> QED
  BY <1>2, <1>3

(* What a step may do to the commands *)
Leaves ==
    /\ UNCHANGED <<written, qin, indata, inbox, asked>>
    /\ \A p \in Ports : Hand(p)' = Hand(p) \/ Hand(p)' = <<>>
Asks(c) ==
    /\ UNCHANGED <<written, qin, indata, tpc, data>>
    /\ asked' = [asked EXCEPT ![c] = @ + 1]
    /\ inbox' = [inbox EXCEPT ![c] = Append(@, <<c, asked[c] + 1>>)]
Discards(c) == UNCHANGED <<written, qin, indata, asked, tpc, data>> /\ Emptied(c)
Picks(p, c) ==
    /\ UNCHANGED <<written, qin, indata, asked>> /\ Emptied(c) /\ PortOf[c] = p
    /\ Hand(p)' = inbox[c] \/ Hand(p)' = <<>>
    /\ \A q \in Ports : q # p => Hand(q)' = Hand(q)
Puts(p) ==
    /\ UNCHANGED <<written, indata, inbox, asked>> /\ qin' = Append(qin, Hand(p)) /\ Hand(p)' = <<>>
    /\ \A q \in Ports : q # p => Hand(q)' = Hand(q)
Writes ==
    /\ UNCHANGED <<indata, inbox, asked, tpc, data>> /\ qin # <<>> /\ qin' = Tail(qin)
    /\ written' = written \/ written' = written \o Head(qin)
Collects(c) == UNCHANGED <<written, qin, asked, tpc, data>> /\ indata' = indata \o inbox[c] /\ Emptied(c)
(* where recv raises: what was there before again *)
Repeats(p, c) ==
    /\ UNCHANGED <<written, qin, indata, inbox, asked>> /\ Disarms(c)
    /\ data[p] # Unbound /\ Hand(p)' = data[p]
    /\ \A q \in Ports : q # p => Hand(q)' = Hand(q)
Recollects(c) ==
    /\ UNCHANGED <<written, qin, inbox, asked, tpc, data>> /\ Disarms(c)
    /\ received # Unbound /\ indata' = indata \o received
Flushes ==
    /\ UNCHANGED <<qin, inbox, asked, tpc, data>> /\ indata' = <<>>
    /\ written' = written \/ written' = written \o indata

LEMMA HandsStay ==
    ASSUME UNCHANGED <<tpc, data>>
    PROVE  \A p \in Ports : Hand(p)' = Hand(p)
  BY DEF Hand

LEMMA LeavesAll ==
    ASSUME UNCHANGED <<written, qin, indata, inbox, asked, tpc, data>>
    PROVE  Leaves
  BY HandsStay DEF Leaves

LEMMA PortCommands ==
    ASSUME QueueInv, BridgeInv, ServedInv, ResetInv, program = "decode", UNCHANGED program,
           NEW p \in Ports, UNCHANGED indata,
           \/ Select(p) \/ Accept(p) \/ Recv(p) \/ RecvFails(p) \/ PutCommands(p) \/ GetItem(p) \/ Send(p)
    PROVE  Leaves \/ Puts(p) \/ \E c \in Clients : Picks(p, c) \/ Repeats(p, c)
<1>1. /\ data \in [Ports -> Chunk \cup {Unbound}] /\ tpc \in [Ports -> Places]
      /\ readable[p] \subseteq OfPort(p) \cup {Server}
  BY DEF BridgeInv, QueueInv
<1>2. UNCHANGED <<written, asked>>
  BY DEF Select, Accept, Recv, RecvFails, PutCommands, GetItem, Send, Others
<1>3. ASSUME NEW l, l # "put", UNCHANGED data, UNCHANGED <<qin, inbox>>, tpc' = [tpc EXCEPT ![p] = l]
      PROVE  Leaves
  <2>1. ASSUME NEW q \in Ports PROVE Hand(q)' = Hand(q) \/ Hand(q)' = <<>>
    <3>1. CASE q = p
      BY <1>1, <1>3, <3>1 DEF Hand
    <3>2. CASE q # p
      BY <1>1, <1>3, <3>2 DEF Hand
    <3> QED
      BY <3>1, <3>2
  <2> QED
    BY <1>2, <1>3, <2>1 DEF Leaves
<1>4. CASE Select(p) \/ Accept(p) \/ GetItem(p) \/ Send(p)
  <2>1. UNCHANGED <<data, qin, inbox>>
    BY <1>4 DEF Select, Accept, GetItem, Send
  <2>2. \E l : l # "put" /\ tpc' = [tpc EXCEPT ![p] = l]
    BY <1>4 DEF Select, Accept, GetItem, Send, Handled, NextRound, Step
  <2> QED
    BY <1>3, <2>1, <2>2
<1>5. CASE Recv(p)
  <2>1. PICK c \in readable[p] \ {Server} : Use(p, c, inbox[c]) /\ Emptied(c)
    BY <1>5 DEF Recv, Emptied
  <2>2. c \in Clients /\ PortOf[c] = p
    BY <1>1, <2>1 DEF OfPort
  <2>3. UNCHANGED qin
    BY <1>5 DEF Recv
  <2>4. PICK l : tpc' = [tpc EXCEPT ![p] = l] /\ data' = [data EXCEPT ![p] = inbox[c]]
    BY <2>1 DEF Use, Handled, Step
  <2>5. Hand(p)' = inbox[c] \/ Hand(p)' = <<>>
    BY <1>1, <2>4 DEF Hand
  <2>6. \A q \in Ports : q # p => Hand(q)' = Hand(q)
    BY <1>1, <2>4 DEF Hand
  <2> QED
    BY <1>2, <2>1, <2>2, <2>3, <2>5, <2>6 DEF Picks
<1>6. CASE RecvFails(p)
  <2>1. UNCHANGED <<qin, inbox, resets>>
    BY <1>6 DEF RecvFails, Others
  <2>2. PICK c \in readable[p] \ {Server} :
          /\ link[c] = "reset"
          /\ link' = [link EXCEPT ![c] = IF data[p] = <<>> THEN "closed" ELSE "eof"]
          /\ IF data[p] = Unbound THEN NextRound(p) /\ UNCHANGED data ELSE Use(p, c, data[p])
    BY <1>6 DEF RecvFails
  <2>3. c \in Clients
    BY <1>1, <2>2 DEF OfPort
  <2>4. \E l : l # "reset" /\ link' = [link EXCEPT ![c] = l]
    <3>1. link' = [link EXCEPT ![c] = "closed"] \/ link' = [link EXCEPT ![c] = "eof"]
      BY <2>2
    <3> QED
      BY <3>1
  <2>5. Disarms(c)
    BY <2>1, <2>2, <2>3, <2>4, Disarmed
  <2>6. CASE data[p] = Unbound
    BY <1>3, <2>1, <2>2, <2>6 DEF NextRound, Step
  <2>7. CASE data[p] # Unbound
    <3>1. UNCHANGED data
      BY <1>1, <2>2, <2>7 DEF Use
    <3>2. CASE data[p] = <<>>
      <4>1. \E l : l # "put" /\ tpc' = [tpc EXCEPT ![p] = l]
        BY <2>2, <2>7, <3>2 DEF Use, Handled, Step
      <4> QED
        BY <1>3, <2>1, <3>1, <4>1
    <3>3. CASE data[p] # <<>>
      <4>1. tpc' = [tpc EXCEPT ![p] = "put"]
        BY <2>2, <2>7, <3>3 DEF Use, Step
      <4>2. Hand(p)' = data[p] /\ \A q \in Ports : q # p => Hand(q)' = Hand(q)
        BY <1>1, <3>1, <4>1 DEF Hand
      <4> QED
        BY <1>2, <2>1, <2>3, <2>5, <2>7, <4>2 DEF Repeats
    <3> QED
      BY <3>2, <3>3
  <2> QED
    BY <2>6, <2>7
<1>7. CASE PutCommands(p)
  <2>1. tpc[p] = "put" /\ qin' = Append(qin, data[p]) /\ UNCHANGED <<data, inbox>>
    BY <1>7 DEF PutCommands
  <2>2. PICK l : l # "put" /\ tpc' = [tpc EXCEPT ![p] = l]
    <3>1. tpc' = [tpc EXCEPT ![p] = IF readable[p] = {} THEN "get" ELSE "handle"]
      BY <1>7 DEF PutCommands, Step
    <3>2. CASE readable[p] = {}
      BY <3>1, <3>2
    <3>3. CASE readable[p] # {}
      BY <3>1, <3>3
    <3> QED
      BY <3>2, <3>3
  <2>3. Hand(p) = data[p] /\ Hand(p)' = <<>> /\ \A q \in Ports : q # p => Hand(q)' = Hand(q)
    BY <1>1, <2>1, <2>2 DEF Hand
  <2> QED
    BY <1>2, <2>1, <2>3 DEF Puts
<1> QED
  BY <1>4, <1>5, <1>6, <1>7

LEMMA CallCommands ==
    ASSUME ClientInv, ServedInv, CallInv, ResetInv, UNCHANGED <<program, bvars>>, pc = "handle",
           \/ AcceptOne \/ RecvRaises \/ StRecv \/ StSend \/ EpHangUp \/ EpRecvSend \/ EpReturn
    PROVE  Leaves \/ \E c \in Clients : Collects(c) \/ Discards(c) \/ Recollects(c)
<1>1. /\ UNCHANGED <<qin, tpc, data>> /\ events \subseteq OfPort(port) \cup {Server}
      /\ able \subseteq OfPort(port) /\ ending \subseteq events \ {Server} /\ OfPort(port) \subseteq Clients
  BY DEF bvars, tcp, CallInv, OfPort
<1>2. UNCHANGED <<written, asked>>
  BY DEF AcceptOne, RecvRaises, StRecv, StSend, EpHangUp, EpRecvSend, EpReturn, Quiet, clients
<1>3. ASSUME NEW c \in Clients, Takes(c), ~(link[c] = "reset" /\ inbox[c] = <<>>) PROVE Collects(c)
  <2>1. Received(c) = inbox[c]
    BY <1>3 DEF Received
  <2> QED
    BY <1>1, <1>2, <1>3, <2>1 DEF Takes, Collects, Emptied
<1>0. ASSUME NEW c \in Clients, Takes(c), Received(c) # Unbound,
             link[c] = "reset", inbox[c] = <<>>, Disarms(c)
      PROVE  Recollects(c)
  <2>1. Received(c) = received
    BY <1>0 DEF Received
  <2>2. inbox' = inbox
    BY <1>0 DEF Takes, ClientInv
  <2> QED
    BY <1>0, <1>1, <1>2, <2>1, <2>2 DEF Takes, Recollects
<1>4. CASE AcceptOne \/ RecvRaises \/ StSend \/ EpReturn
  <2>1. UNCHANGED <<indata, inbox>>
    BY <1>4 DEF AcceptOne, RecvRaises, StSend, EpReturn, clients
  <2> QED
    BY <1>1, <1>2, <2>1, LeavesAll
<1>5. CASE StRecv
  <2>1. PICK c \in events \ {Server} :
          /\ Takes(c) /\ Received(c) # Unbound
          /\ IF Received(c) = <<>> THEN Closes(c)
             ELSE link' = IF inbox[c] = <<>> THEN [link EXCEPT ![c] = "eof"] ELSE link
    BY <1>5 DEF StRecv
  <2>2. c \in Clients \ {Server}
    BY <1>1, <2>1
  <2>3. CASE link[c] = "reset" /\ inbox[c] = <<>>
    <3>1. link' = [link EXCEPT ![c] = "closed"] \/ link' = [link EXCEPT ![c] = "eof"]
      BY <2>1, <2>3 DEF Closes
    <3>2. \E l : l # "reset" /\ link' = [link EXCEPT ![c] = l]
      BY <3>1
    <3>3. UNCHANGED resets /\ program # "ep"
      BY <1>5 DEF StRecv
    <3>4. Disarms(c)
      BY <2>2, <2>3, <3>2, <3>3, Disarmed
    <3> QED
      BY <1>0, <2>1, <2>2, <2>3, <3>4
  <2> QED
    BY <1>3, <2>1, <2>2, <2>3
<1>6. CASE EpHangUp
  <2>1. PICK c \in ending : Emptied(c)
    BY <1>6 DEF EpHangUp, Emptied
  <2>2. c \in Clients /\ UNCHANGED indata
    BY <1>1, <1>6, <2>1 DEF EpHangUp
  <2> QED
    BY <1>1, <1>2, <2>1, <2>2 DEF Discards
<1>7. CASE EpRecvSend
  <2>1. PICK c \in ((events \cup able) \ ending) \ {Server} :
          /\ UNCHANGED <<indata, inbox>> \/ (c \in events /\ Received(c) # Unbound /\ Takes(c))
          /\ link[c] = "reset" => UNCHANGED <<link, resets>>
          /\ events' = events \ {c}
    BY <1>7 DEF EpRecvSend
  <2>2. c \in Clients \ {Server}
    BY <1>1, <2>1
  <2>3. CASE link[c] = "reset" /\ inbox[c] = <<>> /\ c \in events /\ Received(c) # Unbound /\ Takes(c)
    <3>1. program = "ep" /\ UNCHANGED ending
      BY <1>7 DEF EpRecvSend
    <3>2. Disarms(c)
      BY <2>1, <2>2, <2>3, <3>1, Disarmed
    <3> QED
      BY <1>0, <2>2, <2>3, <3>2
  <2> QED
    BY <1>1, <1>2, <1>3, <2>1, <2>2, <2>3, LeavesAll
<1> QED
  BY <1>4, <1>5, <1>6, <1>7

LEMMA CommandSteps ==
    ASSUME QueueInv, ClientInv, BridgeInv, ServedInv, CallInv, ResetInv, Next
    PROVE  \/ Leaves \/ Writes \/ Flushes \/ \E p \in Ports : Puts(p)
           \/ \E c \in Clients : \/ Asks(c) \/ Discards(c) \/ Collects(c) \/ Recollects(c)
                               \/ \E p \in Ports : Picks(p, c) \/ Repeats(p, c)
<1>0. UNCHANGED program
  BY ProgramStays
<1>1. /\ program = "decode" => UNCHANGED dvars
      /\ program # "decode" => UNCHANGED bvars
  BY OthersStay
<1> USE DEF bvars, tcp, dvars, clients
<1>2. CASE Decode(TakeCommand)
  <2>1. UNCHANGED <<indata, inbox, asked, tpc, data>>
    BY <1>2 DEF Decode, TakeCommand
  <2>2. \/ UNCHANGED <<qin, written>>
        \/ qin # <<>> /\ qin' = Tail(qin) /\ (written' = written \/ written' = written \o Head(qin))
    BY <1>2 DEF Decode, TakeCommand
  <2> QED
    BY <2>1, <2>2, LeavesAll DEF Writes
<1>3. CASE Decode(PutItem)
  BY <1>3, LeavesAll DEF Decode, PutItem
<1>4. CASE \E p \in Ports :
              \/ Decode(Select(p)) \/ Decode(Accept(p))
              \/ Decode(Recv(p)) \/ Decode(RecvFails(p)) \/ Decode(PutCommands(p))
              \/ Decode(GetItem(p)) \/ Decode(Send(p))
  <2>1. PICK p \in Ports : \/ Select(p) \/ Accept(p) \/ Recv(p) \/ RecvFails(p) \/ PutCommands(p)
                           \/ GetItem(p) \/ Send(p)
    BY <1>4 DEF Decode
  <2>2. program = "decode" /\ UNCHANGED indata
    BY <1>1, <1>4 DEF Decode
  <2>3. Leaves \/ Puts(p) \/ \E c \in Clients : Picks(p, c) \/ Repeats(p, c)
    BY <1>0, <2>1, <2>2, PortCommands
  <2> QED
    BY <2>3
<1>5. CASE Decode(MainEnds)
  <2>1. /\ UNCHANGED <<written, qin, indata, inbox, asked>> /\ tpc' = [p \in Ports |-> "ended"]
    BY <1>1, <1>5 DEF Decode, MainEnds, Others
  <2>2. \A p \in Ports : Hand(p)' = <<>>
    BY <2>1 DEF Hand
  <2> QED
    BY <2>1, <2>2 DEF Leaves
<1>6. CASE Decode(Framing) \/ StEp(StFraming) \/ StEp(EpFraming)
  <2>1. \/ First \/ Kind \/ ReadLength \/ Payload \/ Reopen
    <3>1. CASE Decode(Framing)
      BY <3>1 DEF Decode, Framing, First, Kind, Payload
    <3>2. CASE StEp(StFraming) \/ StEp(EpFraming)
      BY <3>2 DEF StEp, StFraming, EpFraming, First, Kind, Payload
    <3> QED
      BY <1>6, <3>1, <3>2
  <2>2. UNCHANGED <<written, asked, inbox>>
    BY <2>1 DEF First, ReadFirst, Kind, ReadKind, ReadLength, Payload, ReadData, MyRead, Reopen
  <2>3. UNCHANGED <<qin, indata, tpc, data>>
    BY <1>6 DEF Decode, StEp, Framing, StFraming, EpFraming
  <2> QED
    BY <2>2, <2>3, LeavesAll
<1>7. CASE StEp(Start) \/ StEp(AppendItem) \/ StEp(Raises)
  BY <1>7, LeavesAll DEF StEp, Start, AppendItem, Raises
<1>8. CASE StEp(SkipPort) \/ StEp(Poll)
  <2>1. UNCHANGED <<written, asked, inbox, indata>>
    BY <1>8 DEF StEp, SkipPort, Poll, Quiet
  <2>2. UNCHANGED <<qin, tpc, data>>
    BY <1>8 DEF StEp
  <2> QED
    BY <2>1, <2>2, LeavesAll
<1>9. CASE \/ StEp(AcceptOne) \/ StEp(RecvRaises) \/ StEp(StRecv) \/ StEp(StSend)
           \/ StEp(EpHangUp) \/ StEp(EpRecvSend) \/ StEp(EpReturn)
  <2>1. /\ UNCHANGED bvars
        /\ \/ AcceptOne \/ RecvRaises \/ StRecv \/ StSend \/ EpHangUp \/ EpRecvSend \/ EpReturn
    BY <1>9, Zenon DEF StEp
  <2>2. pc = "handle"
    BY <2>1 DEF AcceptOne, RecvRaises, StRecv, StSend, EpHangUp, EpRecvSend, EpReturn
  <2>3. Leaves \/ \E c \in Clients : Collects(c) \/ Discards(c) \/ Recollects(c)
    BY <1>0, <2>1, <2>2, CallCommands
  <2> QED
    BY <2>3
<1>10. CASE StEp(WriteCommands)
  BY <1>10 DEF StEp, WriteCommands, Flushes
<1>11. CASE Around(BoardSends) \/ Around(ReadFails) \/ Around(PicoEnds)
  <2>1. UNCHANGED <<qin, indata, tpc, data>>
    BY <1>11 DEF Around
  <2>2. UNCHANGED <<written, asked, inbox>>
    BY <1>11 DEF Around, BoardSends, ReadFails, PicoEnds
  <2> QED
    BY <2>1, <2>2, LeavesAll
<1>12. CASE \E c \in Clients :
              Served(c) /\ (Around(Connect(c)) \/ Around(SendCommand(c)) \/ Around(Leave(c)))
  <2>1. UNCHANGED <<qin, indata, tpc, data>>
    BY <1>12 DEF Around
  <2>2. PICK c \in Clients : Connect(c) \/ SendCommand(c) \/ Leave(c)
    BY <1>12 DEF Around
  <2>3. UNCHANGED written
    BY <2>2 DEF Connect, SendCommand, Leave, Client
  <2>4. CASE Connect(c) \/ Leave(c)
    BY <2>1, <2>3, <2>4, LeavesAll DEF Connect, Leave
  <2>5. CASE SendCommand(c)
    <3>1. /\ asked' = [asked EXCEPT ![c] = @ + 1]
          /\ inbox' = [inbox EXCEPT ![c] = Append(@, <<c, asked'[c]>>)]
      BY <2>5 DEF SendCommand
    <3>2. asked \in [Clients -> Nat]
      BY DEF ClientInv
    <3>3. asked'[c] = asked[c] + 1
      BY <3>1, <3>2
    <3> QED
      BY <2>1, <2>3, <3>1, <3>3 DEF Asks
  <2> QED
    BY <2>2, <2>4, <2>5
<1> QED
  BY <1>2, <1>3, <1>4, <1>5, <1>6, <1>7, <1>8, <1>9, <1>10, <1>11, <1>12 DEF Next

-----------------------------------------------------------------------------
(* Commands w that are written, d that st-decode.py or ep-decode.py has     *)
(* collected, q in the queue and h in the hands of the processes, none      *)
(* later than f says: written one after the other they are in order         *)
InTime(s, f) == s \in Seq(Command) /\ UpTo(s, f) /\ Rising(s)
Fits(s, p, w, q, f) ==
    /\ InTime(s, f) /\ Precedes(w, s) /\ Of(s, OfPort(p))
    /\ \A i \in 1 .. Len(q) : Precedes(q[i], s)
Queued(w, q, f) ==
    \A i \in 1 .. Len(q) :
        /\ InTime(q[i], f) /\ Precedes(w, q[i])
        /\ \A j \in 1 .. i - 1 : Precedes(q[j], q[i])
Ordered(w, d, q, h, f) ==
    /\ InTime(w, f) /\ InTime(d, f) /\ Precedes(w, d)
    /\ Queued(w, q, f) /\ \A p \in Ports : Fits(h[p], p, w, q, f)

LEMMA InTimeNone ==
    ASSUME NEW f
    PROVE  InTime(<<>>, f)
<1>1. <<>> \in Seq(Command)
  OBVIOUS
<1>2. UpTo(<<>>, f) /\ Rising(<<>>)
  BY NoCommands
<1> QED
  BY <1>1, <1>2 DEF InTime

LEMMA FitsNone ==
    ASSUME NEW p, NEW w, NEW q, NEW f
    PROVE  Fits(<<>>, p, w, q, f)
<1>1. InTime(<<>>, f)
  BY InTimeNone
<1>2. \A s : Precedes(s, <<>>)
  BY NoCommands
<1>3. Of(<<>>, OfPort(p))
  BY NoCommands
<1> QED
  BY <1>1, <1>2, <1>3, Zenon DEF Fits

LEMMA InTimeJoined ==
    ASSUME NEW f, NEW a, NEW b, InTime(a, f), InTime(b, f), Precedes(a, b)
    PROVE  InTime(a \o b, f)
<1>1. a \in Seq(Command) /\ b \in Seq(Command) /\ a \o b \in Seq(Command)
  BY DEF InTime
<1>2. UpTo(a \o b, f)
  BY <1>1, UpToJoined DEF InTime
<1>3. Rising(a \o b)
  BY <1>1, RisingJoined DEF InTime
<1> QED
  BY <1>1, <1>2, <1>3 DEF InTime

LEMMA PrecedesBoth ==
    ASSUME NEW a \in Seq(Command), NEW b \in Seq(Command), NEW d, Precedes(d, a), Precedes(d, b)
    PROVE  Precedes(d, a \o b)
<1> PICK w : w = a \o b
  OBVIOUS
<1>1. ASSUME NEW k \in 1 .. Len(w), NEW x \in 1 .. Len(d), d[x][1] = w[k][1] PROVE d[x][2] < w[k][2]
  <2>1. \/ k \in 1 .. Len(a) /\ w[k] = a[k]
        \/ k - Len(a) \in 1 .. Len(b) /\ w[k] = b[k - Len(a)]
    BY InEither
  <2> QED
    BY <1>1, <2>1 DEF Precedes
<1> QED
  BY <1>1 DEF Precedes

LEMMA OrderedMore ==
    ASSUME NEW w, NEW d, NEW q, NEW h, NEW f, NEW g, Ordered(w, d, q, h, f),
           \A c \in Clients : f[c] \in Int /\ g[c] \in Int /\ f[c] <= g[c]
    PROVE  Ordered(w, d, q, h, g)
<1>1. ASSUME NEW s, InTime(s, f) PROVE InTime(s, g)
  BY <1>1, UpToMore DEF InTime
<1> QED
  BY <1>1, Zenon DEF Ordered, Queued, Fits

LEMMA OrderedHands ==
    ASSUME NEW w, NEW d, NEW q, NEW h, NEW k, NEW f, Ordered(w, d, q, h, f),
           \A p \in Ports : k[p] = h[p] \/ Fits(k[p], p, w, q, f)
    PROVE  Ordered(w, d, q, k, f)
<1>1. ASSUME NEW p \in Ports PROVE Fits(k[p], p, w, q, f)
  <2>1. Fits(h[p], p, w, q, f)
    BY DEF Ordered
  <2> QED
    BY <2>1
<1> QED
  BY <1>1, Zenon DEF Ordered

LEMMA OrderedPut ==
    ASSUME NEW w, NEW d, NEW q \in Seq(Chunk), NEW h, NEW k, NEW f, Ordered(w, d, q, h, f),
           NEW p \in Ports, k[p] = <<>>, \A r \in Ports : r # p => k[r] = h[r]
    PROVE  Ordered(w, d, Append(q, h[p]), k, f)
<1> PICK z : z = Append(q, h[p])
  OBVIOUS
<1>1. Fits(h[p], p, w, q, f) /\ Queued(w, q, f) /\ InTime(w, f) /\ InTime(d, f) /\ Precedes(w, d)
  BY DEF Ordered
<1>2. h[p] \in Chunk
  BY <1>1 DEF Fits, InTime, Chunk
<1>3. /\ Len(q) \in Nat /\ Len(z) = Len(q) + 1 /\ z[Len(q) + 1] = h[p]
      /\ \A i \in 1 .. Len(q) : z[i] = q[i]
  BY <1>2
<1>4. ASSUME NEW i \in 1 .. Len(z)
      PROVE  /\ InTime(z[i], f) /\ Precedes(w, z[i])
             /\ \A j \in 1 .. i - 1 : Precedes(z[j], z[i])
  <2>1. CASE i \in 1 .. Len(q)
    <3>1. /\ InTime(q[i], f) /\ Precedes(w, q[i])
          /\ \A j \in 1 .. i - 1 : Precedes(q[j], q[i])
      BY <1>1, <2>1 DEF Queued
    <3>2. \A j \in 1 .. i - 1 : z[j] = q[j]
      BY <1>3, <2>1
    <3> QED
      BY <1>3, <2>1, <3>1, <3>2
  <2>2. CASE i = Len(q) + 1
    <3>1. z[i] = h[p]
      BY <1>3, <2>2
    <3>2. \A j \in 1 .. i - 1 : j \in 1 .. Len(q) /\ z[j] = q[j]
      BY <1>3, <2>2
    <3>3. InTime(h[p], f) /\ Precedes(w, h[p]) /\ \A j \in 1 .. Len(q) : Precedes(q[j], h[p])
      BY <1>1 DEF Fits
    <3> QED
      BY <3>1, <3>2, <3>3
  <2> QED
    BY <1>3, <2>1, <2>2
<1>5. ASSUME NEW r \in Ports PROVE Fits(k[r], r, w, z, f)
  <2>1. CASE r = p
    BY <2>1, FitsNone
  <2>2. CASE r # p
    <3>1. Fits(h[r], r, w, q, f) /\ k[r] = h[r]
      BY <2>2 DEF Ordered
    <3>2. OfPort(p) \cap OfPort(r) = {}
      BY <2>2 DEF OfPort
    <3>3. Precedes(h[p], h[r])
      BY <1>1, <3>1, <3>2, PrecedesOthers DEF Fits
    <3>4. ASSUME NEW i \in 1 .. Len(z) PROVE Precedes(z[i], h[r])
      <4>1. i \in 1 .. Len(q) \/ z[i] = h[p]
        BY <1>3
      <4>2. \A j \in 1 .. Len(q) : z[j] = q[j] /\ Precedes(q[j], h[r])
        BY <1>3, <3>1 DEF Fits
      <4> QED
        BY <3>3, <4>1, <4>2
    <3> QED
      BY <3>1, <3>4 DEF Fits
  <2> QED
    BY <2>1, <2>2
<1>6. Queued(w, z, f)
  BY <1>4 DEF Queued
<1>7. Ordered(w, d, z, k, f)
  BY <1>1, <1>5, <1>6 DEF Ordered
<1> QED
  BY <1>7

LEMMA OrderedWritten ==
    ASSUME NEW w, NEW q \in Seq(Chunk), NEW h, NEW f, Ordered(w, <<>>, q, h, f), q # <<>>,
           NEW v, v = w \/ v = w \o Head(q)
    PROVE  Ordered(v, <<>>, Tail(q), h, f)
<1> PICK z : z = Tail(q)
  OBVIOUS
<1>1. Queued(w, q, f) /\ InTime(w, f)
  BY DEF Ordered
<1>2. /\ Len(q) \in Nat /\ 1 \in 1 .. Len(q) /\ Head(q) = q[1] /\ Len(z) = Len(q) - 1
      /\ \A i \in 1 .. Len(z) : z[i] = q[i + 1]
  OBVIOUS
<1>3. InTime(q[1], f) /\ Precedes(w, q[1])
  BY <1>1, <1>2 DEF Queued
<1>4. InTime(v, f)
  BY <1>1, <1>2, <1>3, InTimeJoined
<1>5. ASSUME NEW s, Precedes(w, s), Precedes(q[1], s) PROVE Precedes(v, s)
  <2>1. w \in Seq(Command) /\ q[1] \in Seq(Command)
    BY <1>1, <1>3 DEF InTime
  <2>2. Precedes(w \o q[1], s)
    BY <1>5, <2>1, PrecedesJoined
  <2> QED
    BY <1>2, <1>5, <2>2
<1>6. ASSUME NEW i \in 1 .. Len(z)
      PROVE  /\ InTime(z[i], f) /\ Precedes(v, z[i])
             /\ \A j \in 1 .. i - 1 : Precedes(z[j], z[i])
  <2>1. PICK y : y = i + 1
    OBVIOUS
  <2>2. y \in 1 .. Len(q) /\ 1 \in 1 .. y - 1 /\ z[i] = q[y]
    BY <1>2, <2>1
  <2>3. InTime(q[y], f) /\ Precedes(w, q[y]) /\ \A j \in 1 .. y - 1 : Precedes(q[j], q[y])
    BY <1>1, <2>2 DEF Queued
  <2>4. ASSUME NEW j \in 1 .. i - 1 PROVE Precedes(z[j], z[i])
    <3>1. j \in 1 .. Len(z) /\ j + 1 \in 1 .. y - 1
      BY <1>2, <2>1
    <3>2. z[j] = q[j + 1]
      BY <1>2, <3>1
    <3> QED
      BY <2>2, <2>3, <3>1, <3>2
  <2> QED
    BY <1>5, <2>2, <2>3, <2>4
<1>7. ASSUME NEW p \in Ports PROVE Fits(h[p], p, v, z, f)
  <2>1. /\ InTime(h[p], f) /\ Precedes(w, h[p]) /\ Of(h[p], OfPort(p))
        /\ \A i \in 1 .. Len(q) : Precedes(q[i], h[p])
    BY DEF Ordered, Fits
  <2>2. \A i \in 1 .. Len(z) : i + 1 \in 1 .. Len(q) /\ z[i] = q[i + 1]
    BY <1>2
  <2>3. \A i \in 1 .. Len(z) : Precedes(z[i], h[p])
    BY <2>1, <2>2
  <2> QED
    BY <1>2, <1>5, <2>1, <2>3 DEF Fits
<1>8. Queued(v, z, f)
  BY <1>6 DEF Queued
<1>9. Ordered(v, <<>>, z, h, f)
  BY <1>4, <1>7, <1>8, InTimeNone, NoCommands DEF Ordered
<1> QED
  BY <1>9

LEMMA OrderedCollected ==
    ASSUME NEW w, NEW d, NEW q, NEW h, NEW f, Ordered(w, d, q, h, f),
           NEW t, InTime(t, f), Precedes(w, t), Precedes(d, t)
    PROVE  Ordered(w, d \o t, q, h, f)
<1>1. InTime(d, f) /\ Precedes(w, d)
  BY DEF Ordered
<1>2. d \in Seq(Command) /\ t \in Seq(Command)
  BY <1>1 DEF InTime
<1>3. InTime(d \o t, f)
  BY <1>1, InTimeJoined
<1>4. Precedes(w, d \o t)
  BY <1>1, <1>2, PrecedesBoth
<1> QED
  BY <1>3, <1>4 DEF Ordered

LEMMA OrderedFlushed ==
    ASSUME NEW w, NEW d, NEW q \in Seq(Chunk), NEW h, NEW f, Ordered(w, d, q, h, f),
           d = <<>> \/ (q = <<>> /\ \A p \in Ports : h[p] = <<>>),
           NEW v, v = w \/ v = w \o d
    PROVE  Ordered(v, <<>>, q, h, f)
<1>1. InTime(w, f) /\ InTime(d, f) /\ Precedes(w, d)
  BY DEF Ordered
<1>0. InTime(<<>>, f) /\ \A s : Precedes(s, <<>>)
  BY InTimeNone, NoCommands
<1>2. CASE v = w
  BY <1>0, <1>2 DEF Ordered
<1>3. CASE d = <<>>
  <2>1. w \in Seq(Command)
    BY <1>1 DEF InTime
  <2>2. w \o <<>> = w
    BY <2>1
  <2> QED
    BY <1>2, <1>3, <2>2
<1>4. CASE v = w \o d /\ q = <<>> /\ \A p \in Ports : h[p] = <<>>
  <2>1. InTime(v, f)
    BY <1>1, <1>4, InTimeJoined
  <2>2. Queued(v, <<>>, f)
    <3>1. 1 .. Len(<<>>) = {}
      OBVIOUS
    <3> QED
      BY <3>1 DEF Queued
  <2>3. \A p \in Ports : Fits(h[p], p, v, q, f)
    BY <1>4, FitsNone
  <2> QED
    BY <1>0, <1>4, <2>1, <2>2, <2>3 DEF Ordered
<1> QED
  BY <1>2, <1>3, <1>4

(* What a client's commands counted when all that wait had not been sent *)
Left == [c \in Clients |-> asked[c] - Len(inbox[c])]
InboxInv == \A c \in Clients : Left[c] \in Nat /\ Follow(inbox[c], c, Left[c])
Carried == [p \in Ports |-> Hand(p)]
(* One of the two ways to the board is not used *)
OneWay ==
    /\ program = "decode" => indata = <<>>
    /\ program # "decode" => qin = <<>> /\ \A p \in Ports : tpc[p] # "put"
OrderInv == InboxInv /\ Ordered(written, indata, qin, Carried, Left)

(* What a step may do to the connections *)
LinksStay == UNCHANGED <<link, resets>>
LinkMoves == UNCHANGED resets /\ \E c : \E l : l # "reset" /\ link' = [link EXCEPT ![c] = l]
LinkBreaks == resets' = resets + 1 /\ \E c : \E l : link' = [link EXCEPT ![c] = l]

LEMMA PortLinks ==
    ASSUME NEW p \in Ports,
           \/ Select(p) \/ Accept(p) \/ Recv(p) \/ RecvFails(p) \/ PutCommands(p) \/ GetItem(p) \/ Send(p)
    PROVE  LinksStay \/ LinkMoves
<1>1. CASE Select(p) \/ PutCommands(p) \/ GetItem(p) \/ Send(p)
  BY <1>1 DEF Select, PutCommands, GetItem, Send, Others, LinksStay
<1>2. CASE Accept(p)
  <2>1. UNCHANGED resets /\ \E c : link' = [link EXCEPT ![c] = "open"]
    BY <1>2 DEF Accept, Others
  <2> QED
    BY <2>1 DEF LinkMoves
<1>3. CASE Recv(p)
  <2>1. UNCHANGED resets
    BY <1>3 DEF Recv, Others
  <2>2. PICK c \in readable[p] \ {Server} :
          link' = IF inbox[c] = <<>> THEN [link EXCEPT ![c] = "closed"] ELSE link
    BY <1>3 DEF Recv
  <2>3. link' = link \/ link' = [link EXCEPT ![c] = "closed"]
    BY <2>2
  <2> QED
    BY <2>1, <2>3 DEF LinksStay, LinkMoves
<1>4. CASE RecvFails(p)
  <2>1. UNCHANGED resets
    BY <1>4 DEF RecvFails, Others
  <2>2. PICK c \in readable[p] \ {Server} :
          link' = [link EXCEPT ![c] = IF data[p] = <<>> THEN "closed" ELSE "eof"]
    BY <1>4 DEF RecvFails
  <2>3. link' = [link EXCEPT ![c] = "closed"] \/ link' = [link EXCEPT ![c] = "eof"]
    BY <2>2
  <2> QED
    BY <2>1, <2>3 DEF LinkMoves
<1> QED
  BY <1>1, <1>2, <1>3, <1>4

LEMMA CallLinks ==
    ASSUME AcceptOne \/ RecvRaises \/ StRecv \/ StSend \/ EpHangUp \/ EpRecvSend \/ EpReturn
    PROVE  LinksStay \/ LinkMoves \/ LinkBreaks
<1>1. CASE AcceptOne
  <2>1. UNCHANGED resets /\ \E c : link' = [link EXCEPT ![c] = "open"]
    BY <1>1 DEF AcceptOne
  <2> QED
    BY <2>1 DEF LinkMoves
<1>2. CASE RecvRaises
  <2>1. UNCHANGED resets /\ \E c : link' = IF program = "st" THEN [link EXCEPT ![c] = "eof"] ELSE link
    BY <1>2 DEF RecvRaises
  <2>2. link' = link \/ \E c : link' = [link EXCEPT ![c] = "eof"]
    BY <2>1
  <2> QED
    BY <2>1, <2>2 DEF LinksStay, LinkMoves
<1>3. CASE StRecv
  <2>1. UNCHANGED resets
    BY <1>3 DEF StRecv
  <2>2. PICK c \in events \ {Server} :
          IF Received(c) = <<>> THEN Closes(c)
          ELSE link' = IF inbox[c] = <<>> THEN [link EXCEPT ![c] = "eof"] ELSE link
    BY <1>3 DEF StRecv
  <2>3. link' = link \/ link' = [link EXCEPT ![c] = "closed"] \/ link' = [link EXCEPT ![c] = "eof"]
    BY <2>2 DEF Closes
  <2> QED
    BY <2>1, <2>3 DEF LinksStay, LinkMoves
<1>4. CASE StSend \/ EpReturn
  BY <1>4 DEF StSend, EpReturn, clients, LinksStay
<1>5. CASE EpHangUp
  <2>1. UNCHANGED resets /\ \E c : link' = [link EXCEPT ![c] = "closed"]
    BY <1>5 DEF EpHangUp, Closes
  <2> QED
    BY <2>1 DEF LinkMoves
<1>6. CASE EpRecvSend
  <2>1. \/ UNCHANGED <<link, resets>>
        \/ resets' = resets + 1 /\ \E c : link' = [link EXCEPT ![c] = "reset"]
    BY <1>6 DEF EpRecvSend
  <2> QED
    BY <2>1 DEF LinksStay, LinkBreaks
<1> QED
  BY <1>1, <1>2, <1>3, <1>4, <1>5, <1>6

LEMMA LinkSteps ==
    ASSUME Next
    PROVE  LinksStay \/ LinkMoves \/ LinkBreaks
<1> USE DEF clients
<1>1. CASE Decode(TakeCommand) \/ Decode(PutItem) \/ Decode(MainEnds)
  BY <1>1 DEF Decode, TakeCommand, PutItem, MainEnds, Others, LinksStay
<1>2. CASE \E p \in Ports :
              \/ Decode(Select(p)) \/ Decode(Accept(p))
              \/ Decode(Recv(p)) \/ Decode(RecvFails(p)) \/ Decode(PutCommands(p))
              \/ Decode(GetItem(p)) \/ Decode(Send(p))
  BY <1>2, PortLinks DEF Decode
<1>3. CASE Decode(Framing) \/ StEp(StFraming) \/ StEp(EpFraming)
  <2>1. \/ First \/ Kind \/ ReadLength \/ Payload \/ Reopen
    <3>1. CASE Decode(Framing)
      BY <3>1 DEF Decode, Framing, First, Kind, Payload
    <3>2. CASE StEp(StFraming) \/ StEp(EpFraming)
      BY <3>2 DEF StEp, StFraming, EpFraming, First, Kind, Payload
    <3> QED
      BY <1>3, <3>1, <3>2
  <2> QED
    BY <2>1 DEF First, ReadFirst, Kind, ReadKind, ReadLength, Payload, ReadData, MyRead, Reopen, LinksStay
<1>4. CASE StEp(Start) \/ StEp(AppendItem) \/ StEp(Raises) \/ StEp(SkipPort) \/ StEp(Poll) \/ StEp(WriteCommands)
  BY <1>4 DEF StEp, Start, AppendItem, Raises, SkipPort, Poll, WriteCommands, LinksStay
<1>5. CASE \/ StEp(AcceptOne) \/ StEp(RecvRaises) \/ StEp(StRecv) \/ StEp(StSend)
           \/ StEp(EpHangUp) \/ StEp(EpRecvSend) \/ StEp(EpReturn)
  <2>1. AcceptOne \/ RecvRaises \/ StRecv \/ StSend \/ EpHangUp \/ EpRecvSend \/ EpReturn
    BY <1>5, Zenon DEF StEp
  <2> QED
    BY <2>1, CallLinks
<1>6. CASE Around(BoardSends) \/ Around(ReadFails) \/ Around(PicoEnds)
  BY <1>6 DEF Around, BoardSends, ReadFails, PicoEnds, LinksStay
<1>7. CASE \E c \in Clients :
              Served(c) /\ (Around(Connect(c)) \/ Around(SendCommand(c)) \/ Around(Leave(c)))
  <2>1. PICK c \in Clients : Connect(c) \/ SendCommand(c) \/ Leave(c)
    BY <1>7 DEF Around
  <2>2. \/ UNCHANGED <<link, resets>>
        \/ UNCHANGED resets /\ (link' = [link EXCEPT ![c] = "waiting"] \/ link' = [link EXCEPT ![c] = "eof"])
        \/ resets' = resets + 1 /\ link' = [link EXCEPT ![c] = "reset"]
    BY <2>1 DEF Connect, SendCommand, Leave
  <2> QED
    BY <2>2 DEF LinksStay, LinkMoves, LinkBreaks
<1> QED
  BY <1>1, <1>2, <1>3, <1>4, <1>5, <1>6, <1>7 DEF Next

LEMMA ResetInvStep ==
    ASSUME ResetInv, LinksStay \/ LinkMoves \/ LinkBreaks
    PROVE  ResetInv' /\ (resets' = 0 => resets = 0)
<1>1. /\ resets \in Nat /\ DOMAIN link = Clients
      /\ \A c \in Clients : link[c] = "reset" => resets # 0
  BY DEF ResetInv
<1>2. CASE LinksStay
  BY <1>1, <1>2 DEF ResetInv, LinksStay
<1>3. CASE LinkMoves
  <2>1. resets' = resets
    BY <1>3 DEF LinkMoves
  <2>2. PICK c, l : l # "reset" /\ link' = [link EXCEPT ![c] = l]
    BY <1>3 DEF LinkMoves
  <2>3. DOMAIN link' = Clients /\ \A k \in Clients : link'[k] = link[k] \/ link'[k] = l
    BY <1>1, <2>2
  <2> QED
    BY <1>1, <2>1, <2>2, <2>3 DEF ResetInv
<1>4. CASE LinkBreaks
  <2>1. resets' = resets + 1 /\ DOMAIN link' = Clients
    BY <1>1, <1>4 DEF LinkBreaks
  <2>2. resets' \in Nat /\ resets' # 0
    BY <1>1, <2>1
  <2> QED
    BY <2>1, <2>2 DEF ResetInv
<1> QED
  BY <1>2, <1>3, <1>4

LEMMA InboxInit ==
    ASSUME Init
    PROVE  InboxInv
<1>1. ASSUME NEW c \in Clients PROVE Left[c] \in Nat /\ Follow(inbox[c], c, Left[c])
  <2>1. asked[c] = 0 /\ inbox[c] = <<>>
    BY DEF Init, SidesInit
  <2>2. Left[c] = 0
    BY <2>1 DEF Left
  <2>3. Follow(<<>>, c, Left[c])
    BY DEF Follow
  <2> QED
    BY <2>1, <2>2, <2>3
<1> QED
  BY <1>1 DEF InboxInv

LEMMA LeftMoves ==
    ASSUME ClientInv, InboxInv,
           \/ UNCHANGED <<asked, inbox>>
           \/ \E c \in Clients :
                \/ UNCHANGED asked /\ Emptied(c)
                \/ /\ asked' = [asked EXCEPT ![c] = @ + 1]
                   /\ inbox' = [inbox EXCEPT ![c] = Append(@, <<c, asked[c] + 1>>)]
    PROVE  InboxInv' /\ \A c \in Clients : Left[c] \in Int /\ Left'[c] \in Int /\ Left[c] <= Left'[c]
<1>1. asked \in [Clients -> Nat] /\ inbox \in [Clients -> Seq(Command)]
  BY DEF ClientInv
<1>2. Left' = [c \in Clients |-> asked'[c] - Len(inbox'[c])]
  BY DEF Left
<1>3. ASSUME NEW c \in Clients
      PROVE  Left[c] \in Nat /\ Left[c] = asked[c] - Len(inbox[c]) /\ Follow(inbox[c], c, Left[c])
  BY DEF Left, InboxInv
<1>4. SUFFICES ASSUME NEW c \in Clients
               PROVE  Left'[c] \in Nat /\ Follow(inbox'[c], c, Left'[c]) /\ Left[c] <= Left'[c]
  BY <1>3 DEF InboxInv
<1>5. Left'[c] = asked'[c] - Len(inbox'[c])
  BY <1>2
<1>6. CASE asked'[c] = asked[c] /\ inbox'[c] = inbox[c]
  BY <1>3, <1>5, <1>6
<1>7. CASE asked'[c] = asked[c] /\ inbox'[c] = <<>>
  <2>1. Len(inbox[c]) \in Nat /\ Len(<<>>) = 0 /\ asked[c] \in Nat
    BY <1>1
  <2>2. Follow(<<>>, c, Left'[c])
    BY <2>1 DEF Follow
  <2> QED
    BY <1>3, <1>5, <1>7, <2>1, <2>2
<1>8. CASE asked'[c] = asked[c] + 1 /\ inbox'[c] = Append(inbox[c], <<c, asked[c] + 1>>)
  <2>1. /\ Len(inbox[c]) \in Nat /\ asked[c] \in Nat /\ inbox[c] \in Seq(Command)
        /\ Len(inbox'[c]) = Len(inbox[c]) + 1
        /\ inbox'[c][Len(inbox[c]) + 1] = <<c, asked[c] + 1>>
        /\ \A k \in 1 .. Len(inbox[c]) : inbox'[c][k] = inbox[c][k]
    BY <1>1, <1>8
  <2>2. Left'[c] = Left[c]
    <3>1. Left[c] = asked[c] - Len(inbox[c])
      BY DEF Left
    <3>2. asked'[c] = asked[c] + 1
      BY <1>8
    <3>3. Len(inbox'[c]) = Len(inbox[c]) + 1 /\ Len(inbox[c]) \in Nat /\ asked[c] \in Nat
      BY <2>1
    <3>4. Left'[c] = (asked[c] + 1) - (Len(inbox[c]) + 1)
      BY <1>5, <3>2, <3>3
    <3> QED
      BY <3>1, <3>3, <3>4
  <2>3. ASSUME NEW k \in 1 .. Len(inbox'[c]) PROVE inbox'[c][k] = <<c, Left[c] + k>>
    <3>1. CASE k \in 1 .. Len(inbox[c])
      BY <1>3, <2>1, <3>1 DEF Follow
    <3>2. CASE k = Len(inbox[c]) + 1
      <4>1. Left[c] + k = asked[c] + 1
        BY <1>3, <2>1, <3>2
      <4> QED
        BY <2>1, <3>2, <4>1
    <3> QED
      BY <2>1, <3>1, <3>2
  <2> QED
    BY <1>3, <2>2, <2>3 DEF Follow
<1>9. \/ asked'[c] = asked[c] /\ inbox'[c] = inbox[c]
      \/ asked'[c] = asked[c] /\ inbox'[c] = <<>>
      \/ asked'[c] = asked[c] + 1 /\ inbox'[c] = Append(inbox[c], <<c, asked[c] + 1>>)
  BY <1>1 DEF Emptied
<1> QED
  BY <1>6, <1>7, <1>8, <1>9

(* What waits comes behind everything that was taken before it *)
LEMMA InboxFits ==
    ASSUME ClientInv, InboxInv, NEW c \in Clients, NEW g,
           g[c] = Left[c] + Len(inbox[c])
    PROVE  /\ InTime(inbox[c], g) /\ \A C : c \in C => Of(inbox[c], C)
           /\ \A s : InTime(s, Left) => Precedes(s, inbox[c])
<1>1. inbox[c] \in Seq(Command) /\ Left[c] \in Nat /\ Follow(inbox[c], c, Left[c])
  BY DEF ClientInv, InboxInv, Chunk
<1>2. Rising(inbox[c]) /\ (\A C : c \in C => Of(inbox[c], C)) /\ UpTo(inbox[c], g)
  BY <1>1, FollowIs
<1>3. ASSUME NEW s, InTime(s, Left) PROVE Precedes(s, inbox[c])
  BY <1>1, <1>3, PrecedesFollowing DEF InTime
<1> QED
  BY <1>1, <1>2, <1>3 DEF InTime

LEMMA LeftOfEmptied ==
    ASSUME ClientInv, NEW c \in Clients, UNCHANGED asked, Emptied(c)
    PROVE  Left'[c] = Left[c] + Len(inbox[c])
<1>1. asked[c] \in Nat /\ Len(inbox[c]) \in Nat /\ inbox'[c] = <<>> /\ asked'[c] = asked[c]
  BY DEF ClientInv, Emptied
<1>2. Left[c] = asked[c] - Len(inbox[c])
  BY DEF Left
<1>3. Left'[c] = asked'[c] - Len(inbox'[c])
  BY DEF Left
<1> QED
  BY <1>1, <1>2, <1>3

LEMMA OrderInvStep ==
    ASSUME QueueInv, ClientInv, BridgeInv, ServedInv, CallInv, ResetInv, OneWay, OrderInv,
           resets = 0, Next
    PROVE  OrderInv'
<1>1. /\ InboxInv /\ Ordered(written, indata, qin, Carried, Left)
      /\ \A p \in Ports : Carried[p] = Hand(p)
  BY DEF OrderInv, Carried
<1>2. qin \in Seq(Chunk)
  BY DEF BridgeInv
<1>3. \A p \in Ports : Carried'[p] = Hand(p)'
  BY DEF Carried
<1>4. ASSUME \/ UNCHANGED <<asked, inbox>>
             \/ \E c \in Clients :
                  \/ UNCHANGED asked /\ Emptied(c)
                  \/ /\ asked' = [asked EXCEPT ![c] = @ + 1]
                     /\ inbox' = [inbox EXCEPT ![c] = Append(@, <<c, asked[c] + 1>>)]
      PROVE  InboxInv' /\ Ordered(written, indata, qin, Carried, Left')
  <2>1. InboxInv' /\ \A c \in Clients : Left[c] \in Int /\ Left'[c] \in Int /\ Left[c] <= Left'[c]
    BY <1>1, <1>4, LeftMoves
  <2> QED
    BY <1>1, <2>1, OrderedMore
<1>5. ASSUME UNCHANGED <<tpc, data>>
      PROVE  Carried' = Carried
  BY <1>5 DEF Carried, Hand
<1>6. ASSUME NEW c \in Clients, UNCHANGED asked, Emptied(c)
      PROVE  /\ InboxInv' /\ Ordered(written, indata, qin, Carried, Left')
             /\ InTime(inbox[c], Left') /\ \A C : c \in C => Of(inbox[c], C)
             /\ \A s : InTime(s, Left) => Precedes(s, inbox[c])
  <2>1. InboxInv' /\ Ordered(written, indata, qin, Carried, Left')
    BY <1>4, <1>6
  <2>2. Left'[c] = Left[c] + Len(inbox[c])
    BY <1>6, LeftOfEmptied
  <2> QED
    BY <1>1, <2>1, <2>2, InboxFits
<1>7. CASE Leaves
  <2>1. UNCHANGED <<written, qin, indata, asked, inbox>> /\ \A p \in Ports : Hand(p)' = Hand(p) \/ Hand(p)' = <<>>
    BY <1>7 DEF Leaves
  <2>2. InboxInv' /\ Ordered(written, indata, qin, Carried, Left')
    BY <1>4, <2>1
  <2>3. ASSUME NEW p \in Ports
        PROVE  Carried'[p] = Carried[p] \/ Fits(Carried'[p], p, written, qin, Left')
    BY <1>1, <1>3, <2>1, FitsNone
  <2>4. Ordered(written, indata, qin, Carried', Left')
    BY <2>2, <2>3, OrderedHands
  <2> QED
    BY <2>1, <2>2, <2>4 DEF OrderInv
<1>8. CASE Writes
  <2>1. /\ UNCHANGED <<indata, asked, inbox, tpc, data>> /\ qin # <<>> /\ qin' = Tail(qin)
        /\ written' = written \/ written' = written \o Head(qin)
    BY <1>8 DEF Writes
  <2>2. InboxInv' /\ Ordered(written, indata, qin, Carried, Left') /\ Carried' = Carried
    BY <1>4, <1>5, <2>1
  <2>3. indata = <<>>
    BY <2>1 DEF OneWay
  <2>4. Ordered(written', <<>>, Tail(qin), Carried, Left')
    BY <1>2, <2>1, <2>2, <2>3, OrderedWritten
  <2> QED
    BY <2>1, <2>2, <2>3, <2>4 DEF OrderInv
<1>9. CASE Flushes
  <2>1. /\ UNCHANGED <<qin, asked, inbox, tpc, data>> /\ indata' = <<>>
        /\ written' = written \/ written' = written \o indata
    BY <1>9 DEF Flushes
  <2>2. InboxInv' /\ Ordered(written, indata, qin, Carried, Left') /\ Carried' = Carried
    BY <1>4, <1>5, <2>1
  <2>3. indata = <<>> \/ (qin = <<>> /\ \A p \in Ports : Carried[p] = <<>>)
    BY <1>1 DEF OneWay, Hand
  <2>4. Ordered(written', <<>>, qin, Carried, Left')
    BY <1>2, <2>1, <2>2, <2>3, OrderedFlushed
  <2> QED
    BY <2>1, <2>2, <2>4 DEF OrderInv
<1>10. ASSUME NEW p \in Ports, Puts(p)
       PROVE  OrderInv'
  <2>1. /\ UNCHANGED <<written, indata, asked, inbox>> /\ qin' = Append(qin, Hand(p)) /\ Hand(p)' = <<>>
        /\ \A q \in Ports : q # p => Hand(q)' = Hand(q)
    BY <1>10 DEF Puts
  <2>2. InboxInv' /\ Ordered(written, indata, qin, Carried, Left')
    BY <1>4, <2>1
  <2>3. /\ Carried'[p] = <<>> /\ \A r \in Ports : r # p => Carried'[r] = Carried[r]
        /\ qin' = Append(qin, Carried[p])
    BY <1>1, <1>3, <2>1
  <2>4. Ordered(written, indata, Append(qin, Carried[p]), Carried', Left')
    BY <1>2, <2>2, <2>3, OrderedPut
  <2> QED
    BY <2>1, <2>2, <2>3, <2>4 DEF OrderInv
<1>11. ASSUME NEW c \in Clients, Asks(c)
       PROVE  OrderInv'
  <2>1. /\ UNCHANGED <<written, qin, indata, tpc, data>> /\ asked' = [asked EXCEPT ![c] = @ + 1]
        /\ inbox' = [inbox EXCEPT ![c] = Append(@, <<c, asked[c] + 1>>)]
    BY <1>11 DEF Asks
  <2>2. InboxInv' /\ Ordered(written, indata, qin, Carried, Left') /\ Carried' = Carried
    BY <1>4, <1>5, <2>1
  <2> QED
    BY <2>1, <2>2 DEF OrderInv
<1>12. ASSUME NEW c \in Clients, Discards(c)
       PROVE  OrderInv'
  <2>1. UNCHANGED <<written, qin, indata, asked, tpc, data>> /\ Emptied(c)
    BY <1>12 DEF Discards
  <2>2. InboxInv' /\ Ordered(written, indata, qin, Carried, Left') /\ Carried' = Carried
    BY <1>5, <1>6, <2>1
  <2> QED
    BY <2>1, <2>2 DEF OrderInv
<1>13. ASSUME NEW c \in Clients, Collects(c)
       PROVE  OrderInv'
  <2>1. UNCHANGED <<written, qin, asked, tpc, data>> /\ indata' = indata \o inbox[c] /\ Emptied(c)
    BY <1>13 DEF Collects
  <2>2. /\ InboxInv' /\ Ordered(written, indata, qin, Carried, Left') /\ Carried' = Carried
        /\ InTime(inbox[c], Left') /\ \A s : InTime(s, Left) => Precedes(s, inbox[c])
    BY <1>5, <1>6, <2>1
  <2>3. InTime(written, Left) /\ InTime(indata, Left)
    BY <1>1 DEF Ordered
  <2>4. Ordered(written, indata \o inbox[c], qin, Carried, Left')
    BY <2>2, <2>3, OrderedCollected
  <2> QED
    BY <2>1, <2>2, <2>4 DEF OrderInv
<1>14. ASSUME NEW c \in Clients, NEW p \in Ports, Picks(p, c)
       PROVE  OrderInv'
  <2>1. /\ UNCHANGED <<written, qin, indata, asked>> /\ Emptied(c) /\ PortOf[c] = p
        /\ Hand(p)' = inbox[c] \/ Hand(p)' = <<>>
        /\ \A q \in Ports : q # p => Hand(q)' = Hand(q)
    BY <1>14 DEF Picks
  <2>2. /\ InboxInv' /\ Ordered(written, indata, qin, Carried, Left')
        /\ InTime(inbox[c], Left') /\ (\A C : c \in C => Of(inbox[c], C))
        /\ \A s : InTime(s, Left) => Precedes(s, inbox[c])
    BY <1>6, <2>1
  <2>3. InTime(written, Left) /\ \A i \in 1 .. Len(qin) : InTime(qin[i], Left)
    BY <1>1 DEF Ordered, Queued
  <2>4. c \in OfPort(p)
    BY <2>1 DEF OfPort
  <2>5. Fits(inbox[c], p, written, qin, Left')
    BY <2>2, <2>3, <2>4 DEF Fits
  <2>6. ASSUME NEW r \in Ports
        PROVE  Carried'[r] = Carried[r] \/ Fits(Carried'[r], r, written, qin, Left')
    BY <1>1, <1>3, <2>1, <2>5, FitsNone
  <2>7. Ordered(written, indata, qin, Carried', Left')
    BY <2>2, <2>6, OrderedHands
  <2> QED
    BY <2>1, <2>2, <2>7 DEF OrderInv
<1>15. ASSUME NEW c \in Clients, Disarms(c)
       PROVE  FALSE
  BY <1>15 DEF Disarms, Armed, ResetInv
<1>16. \/ Leaves \/ Writes \/ Flushes \/ \E p \in Ports : Puts(p)
       \/ \E c \in Clients : Asks(c) \/ Discards(c) \/ Collects(c) \/ \E p \in Ports : Picks(p, c)
  BY <1>15, CommandSteps DEF Repeats, Recollects
<1> QED
  BY <1>7, <1>8, <1>9, <1>10, <1>11, <1>12, <1>13, <1>14, <1>16

(* A client's commands are written in the order it sent them (decode.py:67-68, *)
(* 188-193, st-decode.py:199-204, ep-decode.py:235-240).                       *)
THEOREM HostCommandsInOrder == Spec => []CommandsInOrder
<1> DEFINE Inv == TypeInv /\ ResetInv /\ OneWay /\ (resets = 0 => OrderInv)
<1>1. Init => Inv
  <2> SUFFICES ASSUME Init PROVE Inv
    OBVIOUS
  <2>1. TypeInv
    BY TypeInit
  <2>2. ResetInv
    BY DEF Init, SidesInit, ResetInv
  <2>3. OneWay
    BY DEF Init, BridgeInit, DecoderInit, OneWay
  <2>4. InboxInv
    BY InboxInit
  <2>5. Ordered(written, indata, qin, Carried, Left)
    <3>1. written = <<>> /\ indata = <<>> /\ qin = <<>> /\ \A p \in Ports : Carried[p] = <<>>
      BY DEF Init, SidesInit, BridgeInit, DecoderInit, Carried, Hand
    <3>2. InTime(<<>>, Left) /\ Precedes(<<>>, <<>>) /\ \A p \in Ports : Fits(<<>>, p, <<>>, <<>>, Left)
      BY InTimeNone, NoCommands, FitsNone
    <3>3. Queued(<<>>, <<>>, Left)
      <4>1. 1 .. Len(<<>>) = {}
        OBVIOUS
      <4> QED
        BY <4>1 DEF Queued
    <3> QED
      BY <3>1, <3>2, <3>3 DEF Ordered
  <2> QED
    BY <2>1, <2>2, <2>3, <2>4, <2>5 DEF OrderInv
<1>2. Inv /\ [Next]_vars => Inv'
  <2> SUFFICES ASSUME Inv, [Next]_vars PROVE Inv'
    OBVIOUS
  <2>1. TypeInv'
    BY TypeInvStep
  <2>2. CASE Next
    <3>1. QueueInv /\ ClientInv /\ BridgeInv /\ ServedInv /\ CallInv
      BY DEF TypeInv, RelayInv
    <3>2. ResetInv' /\ (resets' = 0 => resets = 0)
      BY <2>2, LinkSteps, ResetInvStep
    <3>3. OneWay'
      <4>1. program' = program
        BY <2>2, ProgramStays
      <4>2. /\ program = "decode" => UNCHANGED indata
            /\ program # "decode" => UNCHANGED <<qin, tpc>>
        BY <2>2, OthersStay DEF dvars, bvars, tcp
      <4> QED
        BY <4>1, <4>2 DEF OneWay
    <3>4. resets' = 0 => OrderInv'
      BY <2>2, <3>1, <3>2, OrderInvStep
    <3> QED
      BY <2>1, <3>2, <3>3, <3>4
  <2>3. CASE UNCHANGED vars
    <3>1. UNCHANGED <<program, written, indata, qin, asked, inbox, tpc, data, link, resets>>
      BY <2>3 DEF vars, sides, board, clients, bvars, dvars, tcp
    <3>2. Left' = Left /\ Carried' = Carried
      BY <3>1 DEF Left, Carried, Hand
    <3>3. ResetInv' /\ OneWay'
      BY <3>1 DEF ResetInv, OneWay
    <3>4. resets' = 0 => OrderInv'
      BY <3>1, <3>2 DEF OrderInv, InboxInv
    <3> QED
      BY <2>1, <3>3, <3>4
  <2> QED
    BY <2>2, <2>3
<1>3. Inv => CommandsInOrder
  BY DEF OrderInv, Ordered, InTime, Rising, CommandsInOrder
<1> QED
  BY <1>1, <1>2, <1>3, PTL DEF Spec

-----------------------------------------------------------------------------
(* How often a command is in a sequence, or in the chunks of the queue *)
Distinct(s) == \A j, k \in 1 .. Len(s) : s[j] = s[k] => j = k

LEMMA SameSize ==
    ASSUME NEW S, IsFiniteSet(S), NEW T, NEW f \in [S -> T],
           \A a, b \in S : f[a] = f[b] => a = b, \A t \in T : \E s \in S : f[s] = t
    PROVE  IsFiniteSet(T) /\ Cardinality(T) = Cardinality(S)
<1>1. f \in Surjection(S, T) /\ f \in Injection(S, T)
  BY DEF Surjection, Injection, IsInjective
<1> QED
  BY <1>1, FS_Surjection

LEMMA DisjointSize ==
    ASSUME NEW S, IsFiniteSet(S), NEW T, IsFiniteSet(T), S \cap T = {}
    PROVE  IsFiniteSet(S \cup T) /\ Cardinality(S \cup T) = Cardinality(S) + Cardinality(T)
<1>1. Cardinality({}) = 0
  BY FS_EmptySet
<1>2. Cardinality(S) \in Nat /\ Cardinality(T) \in Nat
  BY FS_CardinalityType
<1>3. IsFiniteSet(S \cup T) /\ Cardinality(S \cup T) = Cardinality(S) + Cardinality(T) - Cardinality(S \cap T)
  BY FS_Union
<1>4. Cardinality(S \cap T) = 0
  BY <1>1
<1> QED
  BY <1>2, <1>3, <1>4

LEMMA CopiesNat ==
    ASSUME NEW S, NEW s \in Seq(S), NEW x
    PROVE  IsFiniteSet(At(x, s)) /\ Copies(x, s) \in Nat
<1>1. Len(s) \in Nat
  OBVIOUS
<1>2. IsFiniteSet(1 .. Len(s))
  BY <1>1, FS_Interval
<1>3. At(x, s) \in SUBSET (1 .. Len(s))
  BY DEF At
<1>4. IsFiniteSet(At(x, s))
  BY <1>2, <1>3, FS_Subset
<1> QED
  BY <1>4, FS_CardinalityType DEF Copies

LEMMA CopiesNone ==
    ASSUME NEW x, NEW s, \A k \in 1 .. Len(s) : s[k] # x
    PROVE  Copies(x, s) = 0
<1>1. At(x, s) = {}
  BY DEF At
<1> QED
  BY <1>1, FS_EmptySet DEF Copies

LEMMA CopiesEmpty ==
    ASSUME NEW x
    PROVE  Copies(x, <<>>) = 0
<1>1. 1 .. Len(<<>>) = {}
  OBVIOUS
<1> QED
  BY <1>1, CopiesNone

LEMMA CopiesOne ==
    ASSUME NEW x, NEW s, Distinct(s)
    PROVE  Copies(x, s) <= 1
<1>1. CASE At(x, s) = {}
  BY <1>1, FS_EmptySet DEF Copies
<1>2. CASE At(x, s) # {}
  <2>1. PICK k : k \in At(x, s)
    BY <1>2
  <2>2. At(x, s) = {k}
    BY <2>1 DEF At, Distinct
  <2>3. Cardinality({k}) = 1
    BY FS_Singleton
  <2> QED
    BY <2>2, <2>3 DEF Copies
<1> QED
  BY <1>1, <1>2

LEMMA CopiesJoined ==
    ASSUME NEW S, NEW a \in Seq(S), NEW b \in Seq(S), NEW x
    PROVE  Copies(x, a \o b) = Copies(x, a) + Copies(x, b)
<1> PICK w : w = a \o b
  OBVIOUS
<1>1. Len(a) \in Nat /\ Len(b) \in Nat /\ Len(w) = Len(a) + Len(b)
  BY Joined
<1>2. /\ \A k \in 1 .. Len(a) : w[k] = a[k]
      /\ \A k \in 1 .. Len(b) : w[k + Len(a)] = b[k]
  BY Joined
<1> DEFINE B == {k \in 1 .. Len(w) : k > Len(a) /\ w[k] = x}
           f == [k \in At(x, b) |-> k + Len(a)]
<1>3. At(x, w) = At(x, a) \cup B /\ At(x, a) \cap B = {}
  <2>1. ASSUME NEW k \in 1 .. Len(w) PROVE (w[k] = x) <=> (k \in At(x, a) \/ k \in B)
    <3>1. CASE k > Len(a)
      BY <1>1, <3>1 DEF At
    <3>2. CASE ~(k > Len(a))
      <4>1. k \in 1 .. Len(a)
        BY <1>1, <3>2
      <4> QED
        BY <1>2, <3>2, <4>1 DEF At
    <3> QED
      BY <3>1, <3>2
  <2>2. \A k \in At(x, a) : k \in 1 .. Len(w) /\ ~(k > Len(a))
    BY <1>1 DEF At
  <2> QED
    BY <2>1, <2>2 DEF At
<1>4. \A k \in At(x, b) : k \in Int /\ f[k] = k + Len(a) /\ f[k] \in B
  <2>1. ASSUME NEW k \in 1 .. Len(b), b[k] = x PROVE k + Len(a) \in B
    BY <1>1, <1>2, <2>1
  <2> QED
    BY <2>1 DEF At
<1>5. \A t \in B : \E k \in At(x, b) : f[k] = t
  <2>1. ASSUME NEW t \in B PROVE t - Len(a) \in At(x, b) /\ t - Len(a) + Len(a) = t
    <3>1. PICK k : k = t - Len(a)
      OBVIOUS
    <3>2. k \in 1 .. Len(b) /\ k + Len(a) = t
      BY <1>1, <3>1
    <3>3. b[k] = x
      BY <1>2, <3>2
    <3> QED
      BY <3>1, <3>2, <3>3 DEF At
  <2> QED
    BY <1>4, <2>1
<1>6. \A k, l \in At(x, b) : f[k] = f[l] => k = l
  BY <1>1, <1>4
<1>7. f \in [At(x, b) -> B]
  BY <1>4
<1>8. IsFiniteSet(At(x, a)) /\ IsFiniteSet(At(x, b))
  BY CopiesNat
<1>9. IsFiniteSet(B) /\ Cardinality(B) = Cardinality(At(x, b))
  <2> HIDE DEF B, f
  <2> QED
    BY <1>5, <1>6, <1>7, <1>8, SameSize
<1>10. Cardinality(At(x, w)) = Cardinality(At(x, a)) + Cardinality(B)
  <2> HIDE DEF B, f
  <2> QED
    BY <1>3, <1>8, <1>9, DisjointSize
<1> QED
  BY <1>9, <1>10 DEF Copies

LEMMA SlotsNat ==
    ASSUME NEW S, NEW q \in Seq(Seq(S)), NEW x
    PROVE  IsFiniteSet(Slots(x, q)) /\ Cardinality(Slots(x, q)) \in Nat
<1> DEFINE f == [i \in 1 .. Len(q) |-> {i} \X At(x, q[i])]
           T == {{i} \X At(x, q[i]) : i \in 1 .. Len(q)}
<1>1. Len(q) \in Nat /\ \A i \in 1 .. Len(q) : q[i] \in Seq(S)
  OBVIOUS
<1>2. IsFiniteSet(1 .. Len(q))
  BY <1>1, FS_Interval
<1>3. f \in Surjection(1 .. Len(q), T)
  BY DEF Surjection
<1>4. IsFiniteSet(T)
  <2> HIDE DEF f, T
  <2> QED
    BY <1>2, <1>3, FS_Surjection
<1>5. ASSUME NEW i \in 1 .. Len(q) PROVE IsFiniteSet({i} \X At(x, q[i]))
  <2>1. IsFiniteSet({i}) /\ IsFiniteSet(At(x, q[i]))
    BY <1>1, FS_Singleton, CopiesNat
  <2> QED
    BY <2>1, FS_Product
<1>6. IsFiniteSet(UNION T)
  <2>1. \A t \in T : IsFiniteSet(t)
    BY <1>5
  <2> HIDE DEF T
  <2> QED
    BY <1>4, <2>1, FS_UNION
<1> QED
  BY <1>6, FS_CardinalityType DEF Slots

LEMMA SlotsAre ==
    ASSUME NEW x, NEW q, NEW t
    PROVE  t \in Slots(x, q) <=> \E i \in 1 .. Len(q) : \E k \in At(x, q[i]) : t = <<i, k>>
  BY DEF Slots

LEMMA SlotsAppended ==
    ASSUME NEW S, NEW q \in Seq(Seq(S)), NEW s \in Seq(S), NEW x
    PROVE  Cardinality(Slots(x, Append(q, s))) = Cardinality(Slots(x, q)) + Copies(x, s)
<1> PICK z : z = Append(q, s)
  OBVIOUS
<1> PICK n : n = Len(q) + 1
  OBVIOUS
<1>1. /\ Len(q) \in Nat /\ 1 .. Len(z) = (1 .. Len(q)) \cup {n} /\ n \notin 1 .. Len(q)
      /\ z[n] = s /\ \A i \in 1 .. Len(q) : z[i] = q[i]
  OBVIOUS
<1> DEFINE B == {n} \X At(x, s)
           f == [k \in At(x, s) |-> <<n, k>>]
<1>2. Slots(x, z) = Slots(x, q) \cup B
  <2>1. ASSUME NEW t PROVE t \in Slots(x, z) <=> (t \in Slots(x, q) \/ t \in B)
    <3>1. t \in Slots(x, z) <=> \E i \in (1 .. Len(q)) \cup {n} : \E k \in At(x, z[i]) : t = <<i, k>>
      <4>1. t \in Slots(x, z) <=> \E i \in 1 .. Len(z) : \E k \in At(x, z[i]) : t = <<i, k>>
        BY DEF Slots
      <4>2. 1 .. Len(z) = (1 .. Len(q)) \cup {n}
        BY <1>1
      <4> QED
        BY <4>1, <4>2, Zenon
    <3>2. t \in Slots(x, q) <=> \E i \in 1 .. Len(q) : \E k \in At(x, z[i]) : t = <<i, k>>
      <4>1. t \in Slots(x, q) <=> \E i \in 1 .. Len(q) : \E k \in At(x, q[i]) : t = <<i, k>>
        BY DEF Slots
      <4>2. \A i \in 1 .. Len(q) : At(x, z[i]) = At(x, q[i])
        BY <1>1
      <4> QED
        BY <4>1, <4>2, Zenon
    <3>3. t \in B <=> \E k \in At(x, z[n]) : t = <<n, k>>
      BY <1>1
    <3> HIDE DEF B
    <3> QED
      BY <3>1, <3>2, <3>3
  <2> QED
    BY <2>1
<1>3. Slots(x, q) \cap B = {}
  BY <1>1, SlotsAre
<1>4. IsFiniteSet(At(x, s)) /\ IsFiniteSet(Slots(x, q))
  BY CopiesNat, SlotsNat
<1>5. /\ f \in [At(x, s) -> B] /\ (\A a, b \in At(x, s) : f[a] = f[b] => a = b)
      /\ \A t \in B : \E k \in At(x, s) : f[k] = t
  OBVIOUS
<1>6. IsFiniteSet(B) /\ Cardinality(B) = Cardinality(At(x, s))
  <2> HIDE DEF B, f
  <2> QED
    BY <1>4, <1>5, SameSize
<1> HIDE DEF B
<1>7. Cardinality(Slots(x, z)) = Cardinality(Slots(x, q)) + Cardinality(B)
  BY <1>2, <1>3, <1>4, <1>6, DisjointSize
<1> QED
  BY <1>6, <1>7 DEF Copies

LEMMA SlotsTail ==
    ASSUME NEW S, NEW q \in Seq(Seq(S)), q # <<>>, NEW x
    PROVE  Cardinality(Slots(x, q)) = Copies(x, Head(q)) + Cardinality(Slots(x, Tail(q)))
<1>0. ASSUME NEW y, NEW t \in Slots(x, y)
      PROVE  \E i \in 1 .. Len(y) : \E k \in At(x, y[i]) : t = <<i, k>>
  BY SlotsAre
<1> PICK z : z = Tail(q)
  OBVIOUS
<1>1. /\ Len(q) \in Nat /\ Len(q) >= 1 /\ Len(z) = Len(q) - 1 /\ Head(q) = q[1]
      /\ z \in Seq(Seq(S)) /\ q[1] \in Seq(S)
      /\ \A i \in 1 .. Len(z) : z[i] = q[i + 1]
  OBVIOUS
<1> DEFINE A == {1} \X At(x, q[1])
           B == {t \in Slots(x, q) : t[1] # 1}
           f == [k \in At(x, q[1]) |-> <<1, k>>]
           g == [t \in Slots(x, z) |-> <<t[1] + 1, t[2]>>]
<1>2. Slots(x, q) = A \cup B /\ A \cap B = {}
  <2>1. ASSUME NEW t \in A PROVE t \in Slots(x, q) /\ t[1] = 1
    BY <1>1, SlotsAre
  <2>2. ASSUME NEW t \in Slots(x, q), t[1] = 1 PROVE t \in A
    BY <2>2, SlotsAre
  <2> QED
    BY <2>1, <2>2
<1>3. /\ f \in [At(x, q[1]) -> A] /\ (\A a, b \in At(x, q[1]) : f[a] = f[b] => a = b)
      /\ \A t \in A : \E k \in At(x, q[1]) : f[k] = t
  OBVIOUS
<1>4. ASSUME NEW t \in Slots(x, z)
      PROVE  g[t] \in B /\ g[t][1] = t[1] + 1 /\ g[t][2] = t[2] /\ t[1] \in Int /\ t = <<t[1], t[2]>>
  <2>0. PICK i \in 1 .. Len(z) : \E k \in At(x, z[i]) : t = <<i, k>>
    BY <1>0, Zenon
  <2>1. PICK k \in At(x, z[i]) : t = <<i, k>>
    BY <2>0
  <2>2. PICK j : j = i + 1
    OBVIOUS
  <2>3. j \in 1 .. Len(q) /\ j # 1 /\ z[i] = q[j]
    BY <1>1, <2>2
  <2>4. <<j, k>> \in Slots(x, q)
    BY <2>1, <2>3, SlotsAre
  <2>5. t[1] = i /\ t[2] = k /\ i \in Int
    BY <2>1
  <2>6. g[t] = <<j, k>>
    BY <2>2, <2>5
  <2>7. <<j, k>> \in B
    BY <2>3, <2>4
  <2> HIDE DEF B, g
  <2> QED
    BY <2>1, <2>2, <2>5, <2>6, <2>7
<1>5. \A a, b \in Slots(x, z) : g[a] = g[b] => a = b
  <2> SUFFICES ASSUME NEW a \in Slots(x, z), NEW b \in Slots(x, z), g[a] = g[b] PROVE a = b
    OBVIOUS
  <2>1. a[1] + 1 = b[1] + 1 /\ a[2] = b[2] /\ a[1] \in Int /\ b[1] \in Int
    BY <1>4
  <2>2. a[1] = b[1]
    BY <2>1
  <2> QED
    BY <1>4, <2>1, <2>2
<1>6. ASSUME NEW t \in B PROVE \E a \in Slots(x, z) : g[a] = t
  <2>0. PICK j \in 1 .. Len(q) : \E k \in At(x, q[j]) : t = <<j, k>>
    BY SlotsAre
  <2>1. PICK k \in At(x, q[j]) : t = <<j, k>>
    BY <2>0
  <2>2. PICK i : i = j - 1
    OBVIOUS
  <2>3. i \in 1 .. Len(z) /\ i + 1 = j /\ z[i] = q[j]
    BY <1>1, <2>1, <2>2
  <2>4. <<i, k>> \in Slots(x, z)
    BY <2>1, <2>3, SlotsAre
  <2>5. g[<<i, k>>] = t
    BY <2>1, <2>3, <2>4
  <2> QED
    BY <2>4, <2>5
<1>7. g \in [Slots(x, z) -> B]
  BY <1>4
<1>8. IsFiniteSet(At(x, q[1])) /\ IsFiniteSet(Slots(x, z))
  BY <1>1, CopiesNat, SlotsNat
<1> HIDE DEF A, B, f, g
<1>9. IsFiniteSet(A) /\ Cardinality(A) = Cardinality(At(x, q[1]))
  BY ZenonT(40), <1>3, <1>8, SameSize
<1>10. IsFiniteSet(B) /\ Cardinality(B) = Cardinality(Slots(x, z))
  BY ZenonT(40), <1>5, <1>6, <1>7, <1>8, SameSize
<1>11. Cardinality(Slots(x, q)) = Cardinality(A) + Cardinality(B)
  BY <1>2, <1>9, <1>10, DisjointSize
<1> QED
  BY <1>1, <1>9, <1>10, <1>11 DEF Copies

-----------------------------------------------------------------------------
(* A command's copies: waiting in i, written in w, collected in d, in the  *)
(* queue q and in the hands h of the processes                             *)
Spread(i, w, d, q, h) ==
    /\ i \in [Clients -> Seq(Command)] /\ w \in Seq(Command) /\ d \in Seq(Command)
    /\ q \in Seq(Seq(Command)) /\ h \in [Ports -> Seq(Command)]
InHands(x, h) == Copies(x, h["raw"]) + Copies(x, h["oled"]) + Copies(x, h["pwm"])
Total(x, i, w, d, q, h) ==
    Copies(x, i[x[1]]) + Copies(x, d) + Copies(x, w) + Cardinality(Slots(x, q)) + InHands(x, h)

LEMMA TotalNat ==
    ASSUME NEW x, NEW i, NEW w, NEW d, NEW q, NEW h, Spread(i, w, d, q, h), x[1] \in Clients
    PROVE  /\ Copies(x, i[x[1]]) \in Nat /\ Copies(x, d) \in Nat /\ Copies(x, w) \in Nat
           /\ Cardinality(Slots(x, q)) \in Nat /\ InHands(x, h) \in Nat
           /\ \A p \in Ports : Copies(x, h[p]) \in Nat
           /\ \A c \in Clients : Copies(x, i[c]) \in Nat
<1>1. /\ \A c \in Clients : i[c] \in Seq(Command)
      /\ \A p \in Ports : h[p] \in Seq(Command)
      /\ w \in Seq(Command) /\ d \in Seq(Command) /\ q \in Seq(Seq(Command))
  BY DEF Spread
<1>2. \A p \in Ports : Copies(x, h[p]) \in Nat
  BY <1>1, CopiesNat
<1>3. InHands(x, h) \in Nat
  BY <1>2 DEF InHands, Ports
<1>4. \A c \in Clients : Copies(x, i[c]) \in Nat
  BY <1>1, CopiesNat
<1>5. Copies(x, d) \in Nat /\ Copies(x, w) \in Nat
  BY <1>1, CopiesNat
<1>6. Cardinality(Slots(x, q)) \in Nat
  BY <1>1, SlotsNat
<1> QED
  BY <1>2, <1>3, <1>4, <1>5, <1>6

LEMMA TotalIsNat ==
    ASSUME NEW x, NEW i, NEW w, NEW d, NEW q, NEW h, Spread(i, w, d, q, h), x[1] \in Clients
    PROVE  Total(x, i, w, d, q, h) \in Nat
<1>1. /\ Copies(x, i[x[1]]) \in Nat /\ Copies(x, d) \in Nat /\ Copies(x, w) \in Nat
      /\ Cardinality(Slots(x, q)) \in Nat /\ InHands(x, h) \in Nat
  BY TotalNat
<1> QED
  BY <1>1 DEF Total

(* The hands of one process change *)
LEMMA HandsChanged ==
    ASSUME NEW x, NEW h, NEW k, \A p \in Ports : Copies(x, h[p]) \in Nat /\ Copies(x, k[p]) \in Nat,
           NEW p \in Ports, \A r \in Ports : r # p => k[r] = h[r]
    PROVE  InHands(x, k) + Copies(x, h[p]) = InHands(x, h) + Copies(x, k[p])
<1>1. p \in {"raw", "oled", "pwm"} /\ \A r \in {"raw", "oled", "pwm"} : r # p => Copies(x, k[r]) = Copies(x, h[r])
  BY DEF Ports
<1>2. \A r \in {"raw", "oled", "pwm"} : Copies(x, h[r]) \in Nat /\ Copies(x, k[r]) \in Nat
  BY DEF Ports
<1> QED
  BY <1>1, <1>2 DEF InHands

LEMMA TotalHands ==
    ASSUME NEW x, NEW i, NEW w, NEW d, NEW q, NEW h, NEW k, Spread(i, w, d, q, h), x[1] \in Clients,
           \A p \in Ports : k[p] = h[p] \/ k[p] = <<>>
    PROVE  Total(x, i, w, d, q, k) <= Total(x, i, w, d, q, h)
<1>1. ASSUME NEW p \in Ports PROVE Copies(x, k[p]) \in Nat /\ Copies(x, k[p]) <= Copies(x, h[p])
  <2>1. Copies(x, h[p]) \in Nat
    BY TotalNat
  <2>2. k[p] = <<>> => Copies(x, k[p]) = 0
    BY CopiesEmpty
  <2> QED
    BY <2>1, <2>2
<1>2. \A p \in {"raw", "oled", "pwm"} :
         Copies(x, k[p]) \in Nat /\ Copies(x, h[p]) \in Nat /\ Copies(x, k[p]) <= Copies(x, h[p])
  BY <1>1, TotalNat DEF Ports
<1>3. InHands(x, k) <= InHands(x, h) /\ InHands(x, k) \in Nat
  BY <1>2 DEF InHands
<1> QED
  BY <1>3, TotalNat DEF Total

LEMMA TotalPut ==
    ASSUME NEW x, NEW i, NEW w, NEW d, NEW q, NEW h, NEW k, Spread(i, w, d, q, h), x[1] \in Clients,
           NEW p \in Ports, k[p] = <<>>, \A r \in Ports : r # p => k[r] = h[r]
    PROVE  Total(x, i, w, d, Append(q, h[p]), k) = Total(x, i, w, d, q, h)
<1>1. \A r \in Ports : Copies(x, h[r]) \in Nat
  BY TotalNat
<1>2. Copies(x, k[p]) = 0
  BY CopiesEmpty
<1>3. \A r \in Ports : Copies(x, k[r]) \in Nat
  BY <1>1, <1>2
<1>4. InHands(x, k) + Copies(x, h[p]) = InHands(x, h) + Copies(x, k[p])
  BY <1>1, <1>3, HandsChanged
<1>5. InHands(x, k) \in Nat
  BY <1>3 DEF InHands, Ports
<1>6. Cardinality(Slots(x, Append(q, h[p]))) = Cardinality(Slots(x, q)) + Copies(x, h[p])
  BY SlotsAppended DEF Spread
<1> QED
  BY <1>1, <1>2, <1>4, <1>5, <1>6, TotalNat DEF Total

LEMMA TotalWritten ==
    ASSUME NEW x, NEW i, NEW w, NEW d, NEW q, NEW h, Spread(i, w, d, q, h), x[1] \in Clients, q # <<>>,
           NEW v, v = w \/ v = w \o Head(q)
    PROVE  Total(x, i, v, d, Tail(q), h) <= Total(x, i, w, d, q, h)
<1>1. /\ w \in Seq(Command) /\ q \in Seq(Seq(Command)) /\ Head(q) \in Seq(Command)
      /\ Tail(q) \in Seq(Seq(Command))
  BY DEF Spread
<1>2. Cardinality(Slots(x, q)) = Copies(x, Head(q)) + Cardinality(Slots(x, Tail(q)))
  BY <1>1, SlotsTail
<1>3. Copies(x, Head(q)) \in Nat /\ Cardinality(Slots(x, Tail(q))) \in Nat
  BY <1>1, CopiesNat, SlotsNat
<1>4. Copies(x, w \o Head(q)) = Copies(x, w) + Copies(x, Head(q))
  BY <1>1, CopiesJoined
<1>5. Copies(x, v) <= Copies(x, w) + Copies(x, Head(q)) /\ Copies(x, v) \in Nat
  <2>1. Copies(x, w) \in Nat
    BY TotalNat
  <2>2. Copies(x, v) = Copies(x, w) \/ Copies(x, v) = Copies(x, w) + Copies(x, Head(q))
    BY <1>4
  <2> QED
    BY <1>3, <2>1, <2>2
<1>6. /\ Copies(x, i[x[1]]) \in Nat /\ Copies(x, d) \in Nat /\ Copies(x, w) \in Nat
      /\ Cardinality(Slots(x, q)) \in Nat /\ InHands(x, h) \in Nat
  BY TotalNat
<1>7. Copies(x, v) + Cardinality(Slots(x, Tail(q))) <= Copies(x, w) + Cardinality(Slots(x, q))
  BY <1>2, <1>3, <1>5, <1>6
<1> QED
  <2>1. Copies(x, v) \in Nat /\ Cardinality(Slots(x, Tail(q))) \in Nat
    BY <1>3, <1>5
  <2> QED
    BY <1>6, <1>7, <2>1 DEF Total

LEMMA TotalFlushed ==
    ASSUME NEW x, NEW i, NEW w, NEW d, NEW q, NEW h, Spread(i, w, d, q, h), x[1] \in Clients,
           NEW v, v = w \/ v = w \o d
    PROVE  Total(x, i, v, <<>>, q, h) <= Total(x, i, w, d, q, h)
<1>1. Copies(x, w \o d) = Copies(x, w) + Copies(x, d)
  BY CopiesJoined DEF Spread
<1>2. Copies(x, v) <= Copies(x, w) + Copies(x, d) /\ Copies(x, v) \in Nat
  <2>1. Copies(x, w) \in Nat /\ Copies(x, d) \in Nat
    BY TotalNat
  <2>2. Copies(x, v) = Copies(x, w) \/ Copies(x, v) = Copies(x, w) + Copies(x, d)
    BY <1>1
  <2> QED
    BY <2>1, <2>2
<1>3. Copies(x, <<>>) = 0
  BY CopiesEmpty
<1> QED
  BY <1>2, <1>3, TotalNat DEF Total

(* A client's commands are taken: they leave its inbox *)
LEMMA InboxFreed ==
    ASSUME NEW x, x[1] \in Clients, NEW i \in [Clients -> Seq(Command)], NEW c \in Clients,
           c # x[1] => Copies(x, i[c]) = 0, NEW j, j = [i EXCEPT ![c] = <<>>]
    PROVE  Copies(x, j[x[1]]) + Copies(x, i[c]) = Copies(x, i[x[1]]) /\ Copies(x, j[x[1]]) \in Nat
<1>1. Copies(x, i[c]) \in Nat /\ Copies(x, i[x[1]]) \in Nat
  BY CopiesNat
<1>2. CASE c = x[1]
  <2>1. j[x[1]] = <<>>
    BY <1>2
  <2> QED
    BY <1>1, <1>2, <2>1, CopiesEmpty
<1>3. CASE c # x[1]
  <2>1. j[x[1]] = i[x[1]]
    BY <1>3
  <2> QED
    BY <1>1, <1>3, <2>1
<1> QED
  BY <1>2, <1>3

LEMMA TotalDiscarded ==
    ASSUME NEW x, NEW i, NEW w, NEW d, NEW q, NEW h, Spread(i, w, d, q, h), x[1] \in Clients,
           NEW c \in Clients, c # x[1] => Copies(x, i[c]) = 0, NEW j, j = [i EXCEPT ![c] = <<>>]
    PROVE  Total(x, j, w, d, q, h) <= Total(x, i, w, d, q, h)
<1>1. i \in [Clients -> Seq(Command)]
  BY DEF Spread
<1>2. Copies(x, j[x[1]]) + Copies(x, i[c]) = Copies(x, i[x[1]]) /\ Copies(x, j[x[1]]) \in Nat
  BY <1>1, InboxFreed
<1>3. /\ Copies(x, i[x[1]]) \in Nat /\ Copies(x, d) \in Nat /\ Copies(x, w) \in Nat
      /\ Cardinality(Slots(x, q)) \in Nat /\ InHands(x, h) \in Nat
  BY TotalNat
<1>4. Copies(x, i[c]) \in Nat
  BY TotalNat
<1>5. Copies(x, j[x[1]]) <= Copies(x, i[x[1]]) /\ Copies(x, j[x[1]]) \in Nat
  BY <1>2, <1>3, <1>4
<1> QED
  BY <1>3, <1>5 DEF Total

(* They join those that were collected *)
Both(e, d, s) == e = d \o s
LEMMA TotalCollected ==
    ASSUME NEW x, NEW i, NEW w, NEW d, NEW q, NEW h, Spread(i, w, d, q, h), x[1] \in Clients,
           NEW c \in Clients, c # x[1] => Copies(x, i[c]) = 0, NEW j, j = [i EXCEPT ![c] = <<>>],
           NEW e, Both(e, d, i[c])
    PROVE  Total(x, j, w, e, q, h) <= Total(x, i, w, d, q, h)
<1>1. i \in [Clients -> Seq(Command)] /\ d \in Seq(Command) /\ i[c] \in Seq(Command)
  BY DEF Spread
<1>2. Copies(x, j[x[1]]) + Copies(x, i[c]) = Copies(x, i[x[1]]) /\ Copies(x, j[x[1]]) \in Nat
  BY <1>1, InboxFreed
<1>3. Copies(x, e) = Copies(x, d) + Copies(x, i[c])
  BY <1>1, CopiesJoined DEF Both
<1>4. /\ Copies(x, i[x[1]]) \in Nat /\ Copies(x, d) \in Nat /\ Copies(x, w) \in Nat
      /\ Cardinality(Slots(x, q)) \in Nat /\ InHands(x, h) \in Nat
  BY TotalNat
<1>5. Copies(x, i[c]) \in Nat
  BY TotalNat
<1>6. Copies(x, j[x[1]]) + Copies(x, e) = Copies(x, i[x[1]]) + Copies(x, d)
  BY <1>2, <1>3, <1>4, <1>5
<1>7. Copies(x, e) \in Nat
  BY <1>3, <1>4, <1>5
<1> QED
  BY <1>2, <1>4, <1>6, <1>7 DEF Total

LEMMA TotalPicked ==
    ASSUME NEW x, NEW i, NEW w, NEW d, NEW q, NEW h, NEW k, Spread(i, w, d, q, h), x[1] \in Clients,
           NEW c \in Clients, c # x[1] => Copies(x, i[c]) = 0, NEW j, j = [i EXCEPT ![c] = <<>>],
           NEW p \in Ports, k[p] = i[c] \/ k[p] = <<>>, \A r \in Ports : r # p => k[r] = h[r]
    PROVE  Total(x, j, w, d, q, k) <= Total(x, i, w, d, q, h)
<1>1. i \in [Clients -> Seq(Command)]
  BY DEF Spread
<1>2. Copies(x, j[x[1]]) + Copies(x, i[c]) = Copies(x, i[x[1]]) /\ Copies(x, j[x[1]]) \in Nat
  BY <1>1, InboxFreed
<1>3. Copies(x, i[c]) \in Nat /\ \A r \in Ports : Copies(x, h[r]) \in Nat
  BY TotalNat
<1>4. Copies(x, k[p]) <= Copies(x, i[c]) /\ Copies(x, k[p]) \in Nat
  BY <1>3, CopiesEmpty
<1>5. \A r \in Ports : Copies(x, k[r]) \in Nat
  BY <1>3, <1>4
<1>6. InHands(x, k) + Copies(x, h[p]) = InHands(x, h) + Copies(x, k[p])
  BY <1>3, <1>5, HandsChanged
<1>7. InHands(x, k) \in Nat
  BY <1>5 DEF InHands, Ports
<1>8. /\ Copies(x, i[x[1]]) \in Nat /\ Copies(x, d) \in Nat /\ Copies(x, w) \in Nat
      /\ Cardinality(Slots(x, q)) \in Nat /\ InHands(x, h) \in Nat /\ Copies(x, h[p]) \in Nat
  BY TotalNat
<1>9. Copies(x, j[x[1]]) + InHands(x, k) <= Copies(x, i[x[1]]) + InHands(x, h)
  <2>1. Copies(x, i[c]) \in Nat /\ Copies(x, j[x[1]]) \in Nat
    BY <1>2, <1>3
  <2>2. InHands(x, k) <= InHands(x, h) + Copies(x, k[p])
    BY <1>4, <1>6, <1>7, <1>8
  <2>3. Copies(x, j[x[1]]) + Copies(x, k[p]) <= Copies(x, i[x[1]])
    BY <1>2, <1>4, <1>8, <2>1
  <2> QED
    BY <1>4, <1>7, <1>8, <2>1, <2>2, <2>3
<1> QED
  BY <1>2, <1>7, <1>8, <1>9 DEF Total

(* What was put before is put again, each command of it once *)
LEMMA TotalRepeated ==
    ASSUME NEW x, NEW i, NEW w, NEW d, NEW q, NEW h, NEW k, Spread(i, w, d, q, h), x[1] \in Clients,
           NEW p \in Ports, k[p] \in Seq(Command), Distinct(k[p]), \A r \in Ports : r # p => k[r] = h[r]
    PROVE  Total(x, i, w, d, q, k) <= Total(x, i, w, d, q, h) + 1
<1>1. \A r \in Ports : Copies(x, h[r]) \in Nat
  BY TotalNat
<1>2. Copies(x, k[p]) <= 1 /\ Copies(x, k[p]) \in Nat
  BY CopiesOne, CopiesNat
<1>3. \A r \in Ports : Copies(x, k[r]) \in Nat
  BY <1>1, <1>2
<1>4. InHands(x, k) + Copies(x, h[p]) = InHands(x, h) + Copies(x, k[p])
  BY <1>1, <1>3, HandsChanged
<1>5. InHands(x, k) \in Nat
  BY <1>3 DEF InHands, Ports
<1>6. /\ Copies(x, i[x[1]]) \in Nat /\ Copies(x, d) \in Nat /\ Copies(x, w) \in Nat
      /\ Cardinality(Slots(x, q)) \in Nat /\ InHands(x, h) \in Nat
  BY TotalNat
<1>7. InHands(x, k) <= InHands(x, h) + 1
  <2>1. Copies(x, h[p]) \in Nat
    BY <1>1
  <2> QED
    BY <1>2, <1>4, <1>5, <1>6, <2>1
<1> QED
  BY <1>5, <1>6, <1>7 DEF Total

LEMMA TotalRecollected ==
    ASSUME NEW x, NEW i, NEW w, NEW d, NEW q, NEW h, Spread(i, w, d, q, h), x[1] \in Clients,
           NEW t \in Seq(Command), Distinct(t)
    PROVE  Total(x, i, w, d \o t, q, h) <= Total(x, i, w, d, q, h) + 1
<1>1. Copies(x, t) <= 1 /\ Copies(x, t) \in Nat
  BY CopiesOne, CopiesNat
<1>2. Copies(x, d \o t) = Copies(x, d) + Copies(x, t)
  BY CopiesJoined DEF Spread
<1> QED
  BY <1>1, <1>2, TotalNat DEF Total

(* A client sends one more *)
More(j, i, c, e) == j = [i EXCEPT ![c] = Append(@, e)]
LEMMA TotalAsked ==
    ASSUME NEW x, NEW i, NEW w, NEW d, NEW q, NEW h, Spread(i, w, d, q, h), x[1] \in Clients,
           NEW c \in Clients, NEW e \in Command, NEW j, More(j, i, c, e)
    PROVE  /\ x # e => Total(x, j, w, d, q, h) = Total(x, i, w, d, q, h)
           /\ Total(x, j, w, d, q, h) <= Total(x, i, w, d, q, h) + 1
<1>1. i \in [Clients -> Seq(Command)] /\ i[c] \in Seq(Command) /\ <<e>> \in Seq(Command)
  BY DEF Spread
<1>2. Append(i[c], e) = i[c] \o <<e>>
  BY <1>1
<1>3. Copies(x, i[c] \o <<e>>) = Copies(x, i[c]) + Copies(x, <<e>>)
  BY <1>1, CopiesJoined
<1>4. Len(<<e>>) = 1 /\ <<e>>[1] = e
  OBVIOUS
<1>5. Copies(x, <<e>>) <= 1 /\ Copies(x, <<e>>) \in Nat
  <2>1. Distinct(<<e>>)
    BY <1>4 DEF Distinct
  <2> QED
    BY <1>1, <2>1, CopiesOne, CopiesNat
<1>6. x # e => Copies(x, <<e>>) = 0
  BY <1>4, CopiesNone
<1>7. j[x[1]] = i[x[1]] \/ (j[x[1]] = Append(i[c], e) /\ c = x[1])
  BY <1>1 DEF More
<1>8. /\ Copies(x, j[x[1]]) \in Nat /\ Copies(x, j[x[1]]) <= Copies(x, i[x[1]]) + 1
      /\ x # e => Copies(x, j[x[1]]) = Copies(x, i[x[1]])
  <2>1. Copies(x, i[x[1]]) \in Nat /\ Copies(x, i[c]) \in Nat
    BY TotalNat
  <2>2. CASE j[x[1]] = i[x[1]]
    BY <2>1, <2>2
  <2>3. CASE j[x[1]] = Append(i[c], e) /\ c = x[1]
    <3>1. Copies(x, j[x[1]]) = Copies(x, i[x[1]]) + Copies(x, <<e>>)
      BY <1>2, <1>3, <2>3
    <3> QED
      BY <1>5, <1>6, <2>1, <3>1
  <2> QED
    BY <1>7, <2>2, <2>3
<1>9. /\ Copies(x, i[x[1]]) \in Nat /\ Copies(x, d) \in Nat /\ Copies(x, w) \in Nat
      /\ Cardinality(Slots(x, q)) \in Nat /\ InHands(x, h) \in Nat
  BY TotalNat
<1> QED
  BY <1>8, <1>9 DEF Total

-----------------------------------------------------------------------------
(* What can be put again has no command twice *)
RepeatInv ==
    /\ \A p \in Ports : data[p] # Unbound => Distinct(data[p])
    /\ received # Unbound => Distinct(received)

(* A copy more for each connection that was reset, unless recv can still   *)
(* raise there                                                             *)
Sent(c, n) == IF n <= asked[c] THEN 1 ELSE 0
CountInv ==
    \A c \in Clients : \A n \in Nat :
        Total(<<c, n>>, inbox, written, indata, qin, Carried) + Cardinality(Armed)
            <= resets + Sent(c, n)

LEMMA InboxDistinct ==
    ASSUME InboxInv, NEW c \in Clients
    PROVE  Distinct(inbox[c])
<1>1. Follow(inbox[c], c, Left[c]) /\ Left[c] \in Nat
  BY DEF InboxInv
<1>2. SUFFICES ASSUME NEW j \in 1 .. Len(inbox[c]), NEW k \in 1 .. Len(inbox[c]), inbox[c][j] = inbox[c][k]
               PROVE  j = k
  BY DEF Distinct
<1>3. inbox[c][j] = <<c, Left[c] + j>> /\ inbox[c][k] = <<c, Left[c] + k>>
  BY <1>1 DEF Follow
<1>4. inbox[c][j][2] = Left[c] + j /\ inbox[c][k][2] = Left[c] + k
  BY <1>3
<1>5. Left[c] + j = Left[c] + k
  BY <1>2, <1>4
<1> QED
  BY <1>1, <1>5

LEMMA RepeatInvStep ==
    ASSUME QueueInv, BridgeInv, CallInv, InboxInv, RepeatInv, Next
    PROVE  RepeatInv'
<1>1. /\ data \in [Ports -> Chunk \cup {Unbound}]
      /\ \A p \in Ports : readable[p] \subseteq OfPort(p) \cup {Server}
      /\ \A p \in Ports : OfPort(p) \subseteq Clients
      /\ events \subseteq OfPort(port) \cup {Server} /\ able \subseteq OfPort(port)
      /\ \A c \in Clients : c \in OfPort(port) => c \in Clients
  BY DEF BridgeInv, CallInv, OfPort
<1>2. \A c \in Clients : Distinct(inbox[c])
  BY InboxDistinct
<1>3. /\ \A p \in Ports : data[p] # Unbound => Distinct(data[p])
      /\ received # Unbound => Distinct(received)
  BY DEF RepeatInv
<1>4. \A p \in Ports : data'[p] # Unbound => Distinct(data'[p])
  <2>1. CASE UNCHANGED data
    BY <1>3, <2>1
  <2>2. ASSUME NEW p \in Ports, Recv(p)
        PROVE  \A q \in Ports : data'[q] # Unbound => Distinct(data'[q])
    <3>1. PICK c \in readable[p] \ {Server} : Use(p, c, inbox[c])
      BY <2>2 DEF Recv
    <3>2. c \in Clients /\ data' = [data EXCEPT ![p] = inbox[c]]
      BY <1>1, <3>1 DEF Use
    <3> QED
      BY <1>1, <1>2, <1>3, <3>2
  <2>3. ASSUME NEW p \in Ports, RecvFails(p)
        PROVE  UNCHANGED data
    <3>1. UNCHANGED data \/ \E c : Use(p, c, data[p])
      BY <2>3 DEF RecvFails
    <3> QED
      BY <1>1, <3>1 DEF Use
  <2>4. UNCHANGED data \/ \E p \in Ports : Recv(p)
    <3>1. CASE Decode(TakeCommand) \/ Decode(Framing) \/ Decode(PutItem) \/ Decode(MainEnds)
      BY <3>1 DEF Decode, TakeCommand, Framing, PutItem, MainEnds, bvars, tcp
    <3>2. CASE \E p \in Ports :
                 \/ Decode(Select(p)) \/ Decode(Accept(p))
                 \/ Decode(Recv(p)) \/ Decode(RecvFails(p)) \/ Decode(PutCommands(p))
                 \/ Decode(GetItem(p)) \/ Decode(Send(p))
      <4>1. PICK p \in Ports : \/ Select(p) \/ Accept(p) \/ Recv(p) \/ RecvFails(p) \/ PutCommands(p)
                               \/ GetItem(p) \/ Send(p)
        BY <3>2 DEF Decode
      <4>2. CASE Select(p) \/ Accept(p) \/ PutCommands(p) \/ GetItem(p) \/ Send(p)
        BY <4>2 DEF Select, Accept, PutCommands, GetItem, Send
      <4> QED
        BY <2>3, <4>1, <4>2
    <3>3. CASE UNCHANGED bvars
      BY <3>3 DEF bvars, tcp
    <3> QED
      BY <3>1, <3>2, <3>3 DEF Next, StEp, Around
  <2> QED
    BY <2>1, <2>2, <2>4
<1>5. received' # Unbound => Distinct(received')
  <2>1. ASSUME NEW c \in Clients, Takes(c), Received(c) # Unbound
        PROVE  Distinct(received')
    BY <1>2, <1>3, <2>1 DEF Takes, Received
  <2>2. CASE StEp(StRecv)
    <3>1. PICK c \in events \ {Server} : Takes(c) /\ Received(c) # Unbound
      BY <2>2 DEF StEp, StRecv
    <3>2. c \in Clients
      BY <1>1, <3>1 DEF OfPort
    <3> QED
      BY <2>1, <3>1, <3>2
  <2>3. CASE StEp(EpRecvSend)
    <3>1. PICK c \in ((events \cup able) \ ending) \ {Server} :
            UNCHANGED received \/ (Takes(c) /\ Received(c) # Unbound)
      BY <2>3 DEF StEp, EpRecvSend
    <3>2. c \in Clients
      BY <1>1, <3>1 DEF OfPort
    <3> QED
      BY <1>3, <2>1, <3>1, <3>2
  <2>4. CASE \/ StEp(Start) \/ StEp(StFraming) \/ StEp(EpFraming) \/ StEp(AppendItem) \/ StEp(Raises)
             \/ StEp(SkipPort) \/ StEp(AcceptOne) \/ StEp(EpHangUp) \/ StEp(WriteCommands)
    BY <1>3, <2>4 DEF StEp, Start, StFraming, EpFraming, AppendItem, Raises, SkipPort, AcceptOne, EpHangUp,
                      WriteCommands, dvars, call
  <2>5. CASE StEp(Poll) \/ StEp(RecvRaises) \/ StEp(StSend) \/ StEp(EpReturn)
    <3>1. UNCHANGED received \/ Return
      BY <2>5 DEF StEp, Poll, RecvRaises, StSend, EpReturn
    <3> QED
      BY <1>3, <3>1 DEF Return
  <2>6. CASE UNCHANGED dvars
    BY <1>3, <2>6 DEF dvars
  <2> QED
    BY <2>2, <2>3, <2>4, <2>5, <2>6 DEF Next, Decode, Around
<1> QED
  BY <1>4, <1>5 DEF RepeatInv

(* Where recv can raise: nowhere else, but where a connection is reset *)
LEMMA ArmedMay ==
    ASSUME ResetInv, CallInv, Next
    PROVE  \/ UNCHANGED resets /\ Armed' \subseteq Armed
           \/ resets' = resets + 1 /\ \E c : Armed' \subseteq Armed \cup {c}
<1>1. UNCHANGED program
  BY ProgramStays
<1>2. program = "ep" => events' \ ending' \subseteq events \ ending \/ Armed' = {}
  <2>1. CASE \/ StEp(StRecv) \/ StEp(StFraming) \/ UNCHANGED dvars
    BY <2>1 DEF StEp, StRecv, StFraming, dvars
  <2>2. CASE \/ StEp(Start) \/ StEp(EpFraming) \/ StEp(AppendItem) \/ StEp(Raises)
             \/ StEp(SkipPort) \/ StEp(WriteCommands)
    BY <2>2 DEF StEp, Start, EpFraming, AppendItem, Raises, SkipPort, WriteCommands, dvars, call
  <2>3. CASE StEp(AcceptOne) \/ StEp(EpRecvSend)
    <3>1. UNCHANGED ending /\ \E c : events' = events \ {c}
      BY <2>3 DEF StEp, AcceptOne, EpRecvSend
    <3> QED
      BY <3>1
  <2>4. CASE StEp(EpHangUp)
    <3>1. \E c : events' = events \ {c} /\ ending' = ending \ {c}
      BY <2>4 DEF StEp, EpHangUp
    <3> QED
      BY <3>1
  <2>5. CASE StEp(RecvRaises) \/ StEp(StSend) \/ StEp(EpReturn)
    <3>1. events' = {}
      BY <2>5 DEF StEp, RecvRaises, StSend, EpReturn, Return
    <3> QED
      BY <3>1
  <2>6. CASE StEp(Poll)
    <3>1. CASE Return
      BY <3>1 DEF Return
    <3>2. CASE ~Return
      <4>1. UNCHANGED link
        BY <2>6 DEF StEp, Poll, clients
      <4>2. ending' = {c \in events' \ {Server} : program = "ep" /\ link[c] = "reset"}
        BY <2>6, <3>2 DEF StEp, Poll
      <4> QED
        BY <1>1, <4>1, <4>2 DEF Armed
    <3> QED
      BY <3>1, <3>2
  <2> QED
    BY <2>1, <2>2, <2>3, <2>4, <2>5, <2>6 DEF Next, Decode, Around
<1>3. ASSUME NEW C, \A c \in Clients : link'[c] = "reset" => c \in C \/ link[c] = "reset"
      PROVE  Armed' \subseteq Armed \cup C
  BY <1>1, <1>2, <1>3 DEF Armed
<1>4. CASE LinksStay
  <2>1. Armed' \subseteq Armed \cup {}
    BY <1>3, <1>4 DEF LinksStay
  <2> QED
    BY <1>4, <2>1 DEF LinksStay
<1>5. CASE LinkMoves
  <2>1. PICK c, l : l # "reset" /\ link' = [link EXCEPT ![c] = l]
    BY <1>5 DEF LinkMoves
  <2>2. \A d \in Clients : link'[d] = l \/ link'[d] = link[d]
    BY <2>1 DEF ResetInv
  <2>3. Armed' \subseteq Armed \cup {}
    BY <1>3, <2>1, <2>2
  <2> QED
    BY <1>5, <2>3 DEF LinkMoves
<1>6. CASE LinkBreaks
  <2>1. PICK c, l : link' = [link EXCEPT ![c] = l]
    BY <1>6 DEF LinkBreaks
  <2>2. \A d \in Clients : d = c \/ link'[d] = link[d]
    BY <2>1 DEF ResetInv
  <2>3. Armed' \subseteq Armed \cup {c}
    BY <1>3, <2>2
  <2> QED
    BY <1>6, <2>3 DEF LinkBreaks
<1> QED
  BY <1>4, <1>5, <1>6, LinkSteps

LEMMA ClientsFinite == IsFiniteSet(Clients)
<1>1. Clients = 1 .. Len(PortOf) /\ Len(PortOf) \in Nat
  BY HostAssumption DEF Clients
<1> QED
  BY <1>1, FS_Interval

LEMMA ArmedSize ==
    ASSUME NEW A \in SUBSET Clients, NEW B \in SUBSET Clients
    PROVE  /\ Cardinality(A) \in Nat /\ Cardinality(B) \in Nat
           /\ B \subseteq A => Cardinality(B) <= Cardinality(A)
           /\ \A c : B \subseteq A \cup {c} => Cardinality(B) <= Cardinality(A) + 1
           /\ \A c \in A : B \subseteq A \ {c} => Cardinality(B) + 1 <= Cardinality(A)
<1>1. IsFiniteSet(A) /\ IsFiniteSet(B)
  BY ClientsFinite, FS_Subset
<1>2. Cardinality(A) \in Nat /\ Cardinality(B) \in Nat
  BY <1>1, FS_CardinalityType
<1>3. B \subseteq A => Cardinality(B) <= Cardinality(A)
  BY <1>1, FS_Subset
<1>4. ASSUME NEW c, B \subseteq A \cup {c} PROVE Cardinality(B) <= Cardinality(A) + 1
  <2>1. IsFiniteSet(A \cup {c}) /\ Cardinality(A \cup {c}) <= Cardinality(A) + 1
    <3>1. /\ IsFiniteSet(A \cup {c})
          /\ Cardinality(A \cup {c}) = IF c \in A THEN Cardinality(A) ELSE Cardinality(A) + 1
      BY <1>1, FS_AddElement
    <3>2. CASE c \in A
      BY <1>2, <3>1, <3>2
    <3>3. CASE c \notin A
      BY <1>2, <3>1, <3>3
    <3> QED
      BY <3>2, <3>3
  <2>2. Cardinality(B) <= Cardinality(A \cup {c}) /\ Cardinality(A \cup {c}) \in Nat
    BY <1>4, <2>1, FS_Subset, FS_CardinalityType
  <2> QED
    BY <1>2, <2>1, <2>2
<1>5. ASSUME NEW c \in A, B \subseteq A \ {c} PROVE Cardinality(B) + 1 <= Cardinality(A)
  <2>1. IsFiniteSet(A \ {c}) /\ Cardinality(A \ {c}) = Cardinality(A) - 1
    BY <1>1, FS_RemoveElement
  <2>2. Cardinality(B) <= Cardinality(A \ {c})
    BY <1>5, <2>1, FS_Subset
  <2> QED
    BY <1>2, <2>1, <2>2
<1> QED
  BY <1>2, <1>3, <1>4, <1>5

LEMMA Spreads ==
    ASSUME ClientInv, BridgeInv, CallInv, written \in Seq(Command)
    PROVE  Spread(inbox, written, indata, qin, Carried)
<1>1. \A p \in Ports : data[p] \in Chunk \cup {Unbound} /\ (tpc[p] = "put" => data[p] # Unbound)
  BY DEF BridgeInv
<1>2. \A p \in Ports : Hand(p) \in Seq(Command)
  BY <1>1 DEF Hand, Chunk
<1>3. Carried \in [Ports -> Seq(Command)]
  BY <1>2 DEF Carried
<1> QED
  BY <1>3 DEF Spread, ClientInv, BridgeInv, CallInv, Chunk

LEMMA SpreadsNext ==
    ASSUME ClientInv', BridgeInv', CallInv', written' \in Seq(Command)
    PROVE  Spread(inbox', written', indata', qin', Carried')
<1>1. \A p \in Ports : data'[p] \in Chunk \cup {Unbound} /\ (tpc'[p] = "put" => data'[p] # Unbound)
  BY DEF BridgeInv
<1>2. \A p \in Ports : Hand(p)' \in Seq(Command)
  BY <1>1 DEF Hand, Chunk
<1>3. Carried' \in [Ports -> Seq(Command)]
  BY <1>2 DEF Carried
<1> QED
  BY <1>3 DEF Spread, ClientInv, BridgeInv, CallInv, Chunk

LEMMA OthersNot ==
    ASSUME InboxInv, NEW c, NEW n, NEW d \in Clients, d # c
    PROVE  Copies(<<c, n>>, inbox[d]) = 0
<1>1. Follow(inbox[d], d, Left[d])
  BY DEF InboxInv
<1>2. ASSUME NEW k \in 1 .. Len(inbox[d]) PROVE inbox[d][k] # <<c, n>>
  <2>1. inbox[d][k] = <<d, Left[d] + k>>
    BY <1>1 DEF Follow
  <2> QED
    BY <2>1
<1> QED
  BY <1>2, CopiesNone

LEMMA WrittenStays ==
    ASSUME BridgeInv, CallInv, written \in Seq(Command),
           \/ UNCHANGED written \/ Writes \/ Flushes
    PROVE  written' \in Seq(Command)
<1>1. indata \in Seq(Command) /\ qin \in Seq(Seq(Command))
  BY DEF BridgeInv, CallInv, Chunk
<1>2. CASE Writes
  <2>1. qin # <<>> /\ (written' = written \/ written' = written \o Head(qin))
    BY <1>2 DEF Writes
  <2>2. Head(qin) \in Seq(Command)
    BY <1>1, <2>1
  <2>3. written \o Head(qin) \in Seq(Command)
    BY <2>2, Joined
  <2> QED
    BY <2>1, <2>3
<1>3. CASE Flushes
  <2>1. written \o indata \in Seq(Command)
    BY <1>1, Joined
  <2>2. written' = written \/ written' = written \o indata
    BY <1>3 DEF Flushes
  <2> QED
    BY <2>1, <2>2
<1> QED
  BY <1>2, <1>3

(* What a step does to the copies of one command *)
LEMMA TotalStep ==
    ASSUME QueueInv, ClientInv, BridgeInv, ServedInv, CallInv, ResetInv, InboxInv, RepeatInv,
           written \in Seq(Command), ClientInv', Next, NEW c \in Clients, NEW n \in Nat,
           NEW x, x = <<c, n>>, NEW t, t = Total(x, inbox, written, indata, qin, Carried),
           NEW u, u = Total(x, inbox', written', indata', qin', Carried')
    PROVE  \/ u <= t /\ UNCHANGED asked
           \/ u <= t + 1 /\ UNCHANGED asked /\ \E d : Disarms(d)
           \/ /\ \E d \in Clients : asked' = [asked EXCEPT ![d] = @ + 1]
              /\ u <= t \/ (u <= t + 1 /\ asked' = [asked EXCEPT ![c] = @ + 1] /\ n = asked[c] + 1)
<1>1. Spread(inbox, written, indata, qin, Carried)
  BY Spreads
<1>2. x[1] = c /\ x[1] \in Clients
  OBVIOUS
<1>3. \A p \in Ports : Carried[p] = Hand(p) /\ Carried'[p] = Hand(p)'
  BY DEF Carried
<1>4. \A d \in Clients : d # x[1] => Copies(x, inbox[d]) = 0
  BY <1>2, OthersNot
<1>5. t \in Nat
  BY <1>1, <1>2, TotalNat DEF Total
<1>6. ASSUME UNCHANGED <<tpc, data>>
      PROVE  Carried' = Carried
  BY <1>6 DEF Carried, Hand
<1>7. CASE Leaves
  <2>1. UNCHANGED <<written, qin, indata, asked, inbox>> /\ \A p \in Ports : Carried'[p] = Carried[p] \/ Carried'[p] = <<>>
    BY <1>3, <1>7 DEF Leaves
  <2>2. Total(x, inbox, written, indata, qin, Carried') <= t
    BY <1>1, <1>2, <2>1, TotalHands
  <2> QED
    BY <2>1, <2>2
<1>8. CASE Writes
  <2>1. /\ UNCHANGED <<indata, asked, inbox, tpc, data>> /\ qin # <<>> /\ qin' = Tail(qin)
        /\ written' = written \/ written' = written \o Head(qin)
    BY <1>8 DEF Writes
  <2>2. Total(x, inbox, written', indata, Tail(qin), Carried) <= t
    BY <1>1, <1>2, <2>1, TotalWritten
  <2>3. Carried' = Carried
    BY <1>6, <2>1
  <2> QED
    BY <2>1, <2>2, <2>3
<1>9. CASE Flushes
  <2>1. /\ UNCHANGED <<qin, asked, inbox, tpc, data>> /\ indata' = <<>>
        /\ written' = written \/ written' = written \o indata
    BY <1>9 DEF Flushes
  <2>2. Total(x, inbox, written', <<>>, qin, Carried) <= t
    BY <1>1, <1>2, <2>1, TotalFlushed
  <2>3. Carried' = Carried
    BY <1>6, <2>1
  <2> QED
    BY <2>1, <2>2, <2>3
<1>10. ASSUME NEW p \in Ports, Puts(p)
       PROVE  u <= t /\ UNCHANGED asked
  <2>1. /\ UNCHANGED <<written, indata, asked, inbox>> /\ qin' = Append(qin, Carried[p]) /\ Carried'[p] = <<>>
        /\ \A r \in Ports : r # p => Carried'[r] = Carried[r]
    BY <1>3, <1>10 DEF Puts
  <2>2. Total(x, inbox, written, indata, Append(qin, Carried[p]), Carried') = t
    BY <1>1, <1>2, <2>1, TotalPut
  <2> QED
    BY <1>5, <2>1, <2>2
<1>11. ASSUME NEW d \in Clients, Asks(d)
       PROVE  /\ asked' = [asked EXCEPT ![d] = @ + 1]
              /\ u <= t \/ (u <= t + 1 /\ d = c /\ n = asked[c] + 1)
  <2>1. /\ UNCHANGED <<written, qin, indata, tpc, data>> /\ asked' = [asked EXCEPT ![d] = @ + 1]
        /\ inbox' = [inbox EXCEPT ![d] = Append(@, <<d, asked[d] + 1>>)]
    BY <1>11 DEF Asks
  <2> PICK e : e = <<d, asked[d] + 1>>
    OBVIOUS
  <2>2. e \in Command
    <3>1. inbox'[d] = Append(inbox[d], e) /\ inbox'[d] \in Seq(Command) /\ inbox[d] \in Seq(Command)
      BY <2>1 DEF ClientInv
    <3>2. Len(inbox[d]) + 1 \in 1 .. Len(inbox'[d]) /\ inbox'[d][Len(inbox[d]) + 1] = e
      BY <3>1
    <3> QED
      BY <3>1, <3>2
  <2>0. More(inbox', inbox, d, e)
    BY <2>1 DEF More
  <2>3. Carried' = Carried
    BY <1>6, <2>1
  <2>4. /\ x # e => Total(x, inbox', written, indata, qin, Carried) = Total(x, inbox, written, indata, qin, Carried)
        /\ Total(x, inbox', written, indata, qin, Carried) <= Total(x, inbox, written, indata, qin, Carried) + 1
    BY <1>1, <1>2, <2>0, <2>2, TotalAsked
  <2>5. x = e => d = c /\ n = asked[c] + 1
    OBVIOUS
  <2> QED
    BY <1>5, <2>1, <2>3, <2>4, <2>5
<1>12. ASSUME NEW d \in Clients, Discards(d)
       PROVE  u <= t /\ UNCHANGED asked
  <2>1. UNCHANGED <<written, qin, indata, asked, tpc, data>> /\ inbox' = [inbox EXCEPT ![d] = <<>>]
    BY <1>12 DEF Discards, Emptied
  <2>2. Total(x, inbox', written, indata, qin, Carried) <= t
    BY <1>1, <1>2, <1>4, <2>1, TotalDiscarded
  <2>3. Carried' = Carried
    BY <1>6, <2>1
  <2> QED
    BY <2>1, <2>2, <2>3
<1>13. ASSUME NEW d \in Clients, Collects(d)
       PROVE  u <= t /\ UNCHANGED asked
  <2>1. /\ UNCHANGED <<written, qin, asked, tpc, data>> /\ inbox' = [inbox EXCEPT ![d] = <<>>]
        /\ Both(indata', indata, inbox[d])
    BY <1>13 DEF Collects, Emptied, Both
  <2>2. Total(x, inbox', written, indata', qin, Carried) <= t
    <3>1. inbox' = [inbox EXCEPT ![d] = <<>>] /\ (d # x[1] => Copies(x, inbox[d]) = 0)
      BY <1>4, <2>1
    <3>2. Both(indata', indata, inbox[d])
      BY <2>1
    <3> QED
      BY <1>1, <1>2, <3>1, <3>2, TotalCollected
  <2>3. Carried' = Carried
    BY <1>6, <2>1
  <2> QED
    BY <1>5, <2>1, <2>2, <2>3
<1>14. ASSUME NEW d \in Clients, NEW p \in Ports, Picks(p, d)
       PROVE  u <= t /\ UNCHANGED asked
  <2>1. /\ UNCHANGED <<written, qin, indata, asked>> /\ inbox' = [inbox EXCEPT ![d] = <<>>]
        /\ Carried'[p] = inbox[d] \/ Carried'[p] = <<>>
        /\ \A r \in Ports : r # p => Carried'[r] = Carried[r]
    BY <1>3, <1>14 DEF Picks, Emptied
  <2>2. Total(x, inbox', written, indata, qin, Carried') <= t
    BY <1>1, <1>2, <1>4, <2>1, TotalPicked
  <2> QED
    BY <2>1, <2>2
<1>15. ASSUME NEW d \in Clients, Recollects(d)
       PROVE  u <= t + 1 /\ UNCHANGED asked /\ Disarms(d)
  <2>1. /\ UNCHANGED <<written, qin, inbox, asked, tpc, data>> /\ Disarms(d)
        /\ received # Unbound /\ indata' = indata \o received
    BY <1>15 DEF Recollects
  <2>2. received \in Seq(Command) /\ Distinct(received)
    BY <2>1 DEF CallInv, RepeatInv, Chunk
  <2>3. Total(x, inbox, written, indata \o received, qin, Carried) <= t + 1
    BY <1>1, <1>2, <2>2, TotalRecollected
  <2>4. Carried' = Carried
    BY <1>6, <2>1
  <2> QED
    BY <2>1, <2>3, <2>4
<1>16. ASSUME NEW d \in Clients, NEW p \in Ports, Repeats(p, d)
       PROVE  u <= t + 1 /\ UNCHANGED asked /\ Disarms(d)
  <2>1. /\ UNCHANGED <<written, qin, indata, inbox, asked>> /\ Disarms(d)
        /\ data[p] # Unbound /\ Carried'[p] = data[p]
        /\ \A r \in Ports : r # p => Carried'[r] = Carried[r]
    BY <1>3, <1>16 DEF Repeats
  <2>2. data[p] \in Seq(Command) /\ Distinct(data[p])
    BY <2>1 DEF BridgeInv, RepeatInv, Chunk
  <2>3. Carried'[p] \in Seq(Command) /\ Distinct(Carried'[p])
    BY <2>1, <2>2
  <2>4. Total(x, inbox, written, indata, qin, Carried') <= t + 1
    BY <1>1, <1>2, <2>1, <2>3, TotalRepeated
  <2> QED
    BY <2>1, <2>4
<1>17. \/ Leaves \/ Writes \/ Flushes \/ \E p \in Ports : Puts(p)
       \/ \E d \in Clients : \/ Asks(d) \/ Discards(d) \/ Collects(d) \/ Recollects(d)
                           \/ \E p \in Ports : Picks(p, d) \/ Repeats(p, d)
  BY CommandSteps
<1> QED
  BY <1>7, <1>8, <1>9, <1>10, <1>11, <1>12, <1>13, <1>14, <1>15, <1>16, <1>17

LEMMA CountInvStep ==
    ASSUME QueueInv, ClientInv, BridgeInv, ServedInv, CallInv, ResetInv, InboxInv, RepeatInv, CountInv,
           written \in Seq(Command), written' \in Seq(Command), ClientInv', BridgeInv', CallInv', Next
    PROVE  CountInv'
<1> SUFFICES ASSUME NEW c \in Clients, NEW n \in Nat
             PROVE  Total(<<c, n>>, inbox', written', indata', qin', Carried') + Cardinality(Armed')
                      <= resets' + Sent(c, n)'
  BY DEF CountInv
<1>1. PICK x, t, u :
        /\ x = <<c, n>> /\ t = Total(x, inbox, written, indata, qin, Carried)
        /\ u = Total(x, inbox', written', indata', qin', Carried')
  OBVIOUS
<1>2. PICK g, h : g = Sent(c, n) /\ h = Sent(c, n)'
  OBVIOUS
<1>3. PICK a, b, k, m : a = Cardinality(Armed) /\ b = Cardinality(Armed') /\ k = resets /\ m = resets'
  OBVIOUS
<1>4. t \in Nat /\ u \in Nat
  <2>1. Spread(inbox, written, indata, qin, Carried)
    BY Spreads
  <2>2. Spread(inbox', written', indata', qin', Carried')
    BY SpreadsNext
  <2>3. x[1] \in Clients
    BY <1>1
  <2>4. t \in Nat
    BY <1>1, <2>1, <2>3, TotalIsNat
  <2>5. u \in Nat
    BY <1>1, <2>2, <2>3, TotalIsNat
  <2> QED
    BY <2>4, <2>5
<1>5. Armed \in SUBSET Clients /\ Armed' \in SUBSET Clients
  BY DEF Armed
<1>6. a \in Nat /\ b \in Nat
  BY <1>3, <1>5, ArmedSize
<1>7. k \in Nat /\ t + a <= k + g
  <2>1. Total(<<c, n>>, inbox, written, indata, qin, Carried) + Cardinality(Armed) <= resets + Sent(c, n)
    BY DEF CountInv
  <2> QED
    BY <1>1, <1>2, <1>3, <2>1 DEF ResetInv
<1>8. g = (IF n <= asked[c] THEN 1 ELSE 0) /\ h = (IF n <= asked'[c] THEN 1 ELSE 0)
  BY <1>2 DEF Sent
<1>9. (m = k /\ b <= a) \/ (m = k + 1 /\ b <= a + 1)
  <2>1. CASE UNCHANGED resets /\ Armed' \subseteq Armed
    BY <1>3, <1>5, <2>1, ArmedSize
  <2>2. CASE resets' = resets + 1 /\ \E d : Armed' \subseteq Armed \cup {d}
    BY <1>3, <1>5, <2>2, ArmedSize
  <2> QED
    BY <2>1, <2>2, ArmedMay
<1>10. ASSUME NEW d, Disarms(d)
       PROVE  m = k /\ b + 1 <= a
  BY <1>3, <1>5, <1>10, ArmedSize DEF Disarms
<1>11. g \in {0, 1} /\ h \in {0, 1}
  BY <1>8
<1>12. \/ u <= t /\ g <= h
       \/ u <= t + 1 /\ h = g + 1
       \/ u <= t + 1 /\ h = g /\ m = k /\ b + 1 <= a
  <2>1. CASE UNCHANGED asked /\ (u <= t \/ (u <= t + 1 /\ \E d : Disarms(d)))
    <3>1. h = g
      BY <1>8, <2>1
    <3> QED
      BY <1>10, <1>11, <2>1, <3>1
  <2>2. ASSUME NEW d \in Clients, asked' = [asked EXCEPT ![d] = @ + 1]
        PROVE  g <= h
    <3>1. asked[c] \in Nat /\ (asked'[c] = asked[c] \/ asked'[c] = asked[c] + 1)
      BY <2>2 DEF ClientInv
    <3> QED
      BY <1>8, <3>1
  <2>3. CASE u <= t + 1 /\ asked' = [asked EXCEPT ![c] = @ + 1] /\ n = asked[c] + 1
    <3>1. asked[c] \in Nat /\ asked'[c] = asked[c] + 1
      BY <2>3 DEF ClientInv
    <3>2. ~(n <= asked[c]) /\ n <= asked'[c]
      BY <2>3, <3>1
    <3>3. h = g + 1
      BY <1>8, <3>2
    <3> QED
      BY <2>3, <3>3
  <2> QED
    BY <1>1, <2>1, <2>2, <2>3, TotalStep
<1>13. u + b <= m + h
  BY <1>4, <1>6, <1>7, <1>9, <1>11, <1>12
<1> QED
  BY <1>1, <1>2, <1>3, <1>13

(* No command is written twice; once more at most for each connection that was *)
(* reset, because recv raises there and the data before is put again           *)
(* (decode.py:67-68, 188-193, st-decode.py:199-204, ep-decode.py:235-240).     *)
THEOREM HostCommandsOnce == Spec => []CommandsOnce
<1> DEFINE Inv == TypeInv /\ ResetInv /\ InboxInv /\ RepeatInv /\ CountInv /\ written \in Seq(Command)
<1>1. Init => Inv
  <2> SUFFICES ASSUME Init PROVE Inv
    OBVIOUS
  <2>1. TypeInv
    BY TypeInit
  <2>2. ResetInv
    BY DEF Init, SidesInit, ResetInv
  <2>3. InboxInv
    BY InboxInit
  <2>4. RepeatInv
    BY DEF Init, BridgeInit, DecoderInit, RepeatInv
  <2>5. written \in Seq(Command)
    BY DEF Init, SidesInit
  <2>6. CountInv
    <3>1. Armed = {}
      BY DEF Init, SidesInit, Armed
    <3>2. Cardinality(Armed) = 0
      BY <3>1, FS_EmptySet
    <3>3. /\ \A c \in Clients : inbox[c] = <<>>
          /\ written = <<>> /\ indata = <<>> /\ qin = <<>> /\ \A p \in Ports : Carried[p] = <<>>
      BY DEF Init, SidesInit, BridgeInit, DecoderInit, Carried, Hand
    <3>4. ASSUME NEW c \in Clients, NEW n
          PROVE  Total(<<c, n>>, inbox, written, indata, qin, Carried) = 0
      <4>1. Copies(<<c, n>>, <<>>) = 0
        BY CopiesEmpty
      <4>2. Slots(<<c, n>>, <<>>) = {}
        <5>1. 1 .. Len(<<>>) = {}
          OBVIOUS
        <5> QED
          BY <5>1 DEF Slots
      <4>3. Cardinality(Slots(<<c, n>>, qin)) = 0
        BY <3>3, <4>2, FS_EmptySet
      <4>4. InHands(<<c, n>>, Carried) = 0
        BY <3>3, <4>1 DEF InHands, Ports
      <4>5. Copies(<<c, n>>, inbox[<<c, n>>[1]]) = 0
        BY <3>3, <4>1
      <4> QED
        BY <3>3, <4>1, <4>3, <4>4, <4>5 DEF Total
    <3>5. resets = 0 /\ \A c \in Clients : \A n \in Nat : Sent(c, n) \in {0, 1}
      BY DEF Init, SidesInit, Sent
    <3>6. ASSUME NEW c \in Clients, NEW n \in Nat
          PROVE  Total(<<c, n>>, inbox, written, indata, qin, Carried) + Cardinality(Armed)
                   <= resets + Sent(c, n)
      <4>1. Total(<<c, n>>, inbox, written, indata, qin, Carried) = 0
        BY <3>4
      <4>2. Sent(c, n) = 0 \/ Sent(c, n) = 1
        BY <3>5
      <4> QED
        BY <3>2, <3>5, <4>1, <4>2
    <3> QED
      BY <3>6 DEF CountInv
  <2> QED
    BY <2>1, <2>2, <2>3, <2>4, <2>5, <2>6
<1>2. Inv /\ [Next]_vars => Inv'
  <2> SUFFICES ASSUME Inv, [Next]_vars PROVE Inv'
    OBVIOUS
  <2>1. TypeInv'
    BY TypeInvStep
  <2>2. CASE Next
    <3>1. QueueInv /\ ClientInv /\ BridgeInv /\ ServedInv /\ CallInv
      BY DEF TypeInv, RelayInv
    <3>2. ClientInv' /\ BridgeInv' /\ CallInv'
      BY <2>1 DEF TypeInv
    <3>3. ResetInv'
      BY <2>2, LinkSteps, ResetInvStep
    <3>4. RepeatInv'
      BY <2>2, <3>1, RepeatInvStep
    <3>5. written' \in Seq(Command) /\ InboxInv'
      <4>1. \/ Leaves \/ Writes \/ Flushes \/ \E p \in Ports : Puts(p)
            \/ \E c \in Clients : \/ Asks(c) \/ Discards(c) \/ Collects(c) \/ Recollects(c)
                                \/ \E p \in Ports : Picks(p, c) \/ Repeats(p, c)
        BY <2>2, <3>1, CommandSteps
      <4>2. \/ UNCHANGED written \/ Writes \/ Flushes
        BY <4>1 DEF Leaves, Puts, Asks, Discards, Collects, Recollects, Picks, Repeats
      <4>3. \/ UNCHANGED <<asked, inbox>>
            \/ \E c \in Clients :
                 \/ UNCHANGED asked /\ Emptied(c)
                 \/ /\ asked' = [asked EXCEPT ![c] = @ + 1]
                    /\ inbox' = [inbox EXCEPT ![c] = Append(@, <<c, asked[c] + 1>>)]
        BY <4>1, Zenon DEF Leaves, Writes, Flushes, Puts, Asks, Discards, Collects, Recollects, Picks, Repeats
      <4>4. written' \in Seq(Command)
        BY <3>1, <4>2, WrittenStays
      <4>5. InboxInv'
        BY <3>1, <4>3, LeftMoves
      <4> QED
        BY <4>4, <4>5
    <3>6. CountInv'
      BY <2>2, <3>1, <3>2, <3>5, CountInvStep
    <3> QED
      BY <2>1, <3>3, <3>4, <3>5, <3>6
  <2>3. CASE UNCHANGED vars
    <3>1. UNCHANGED <<program, written, indata, qin, asked, inbox, tpc, data, link, resets, events, ending, received>>
      BY <2>3 DEF vars, sides, board, clients, bvars, dvars, tcp
    <3>2. Left' = Left /\ Carried' = Carried /\ Armed' = Armed
      BY <3>1 DEF Left, Carried, Hand, Armed
    <3>3. ResetInv' /\ InboxInv' /\ RepeatInv'
      BY <3>1, <3>2 DEF ResetInv, InboxInv, RepeatInv
    <3>4. CountInv'
      BY <3>1, <3>2 DEF CountInv, Sent
    <3> QED
      BY <2>1, <3>1, <3>3, <3>4
  <2> QED
    BY <2>2, <2>3
<1>3. Inv => CommandsOnce
  <2> SUFFICES ASSUME Inv, NEW c \in Clients, NEW n \in 1 .. asked[c]
               PROVE  Everywhere(<<c, n>>) <= 1 + resets
    BY DEF CommandsOnce
  <2> PICK x : x = <<c, n>>
    OBVIOUS
  <2>1. ClientInv /\ BridgeInv /\ CallInv
    BY DEF TypeInv
  <2>2. asked[c] \in Nat /\ n \in Nat /\ n <= asked[c]
    BY <2>1 DEF ClientInv
  <2>3. x[1] \in Clients /\ Spread(inbox, written, indata, qin, Carried)
    BY <2>1, Spreads
  <2>4. Total(x, inbox, written, indata, qin, Carried) + Cardinality(Armed) <= resets + 1
    BY <2>2 DEF CountInv, Sent
  <2>5. Cardinality(Armed) \in Nat /\ resets \in Nat
    <3>1. Armed \in SUBSET Clients
      BY DEF Armed
    <3> QED
      BY <3>1, ArmedSize DEF ResetInv
  <2>6. /\ Copies(x, inbox[x[1]]) \in Nat /\ Copies(x, indata) \in Nat /\ Copies(x, written) \in Nat
        /\ Cardinality(Slots(x, qin)) \in Nat /\ \A p \in Ports : Copies(x, Carried[p]) \in Nat
    BY <2>3, TotalNat
  <2>7. /\ Carried["raw"] = Hand("raw") /\ Carried["oled"] = Hand("oled") /\ Carried["pwm"] = Hand("pwm")
        /\ "raw" \in Ports /\ "oled" \in Ports /\ "pwm" \in Ports
    BY DEF Carried, Ports
  <2>8. Everywhere(x) = Total(x, inbox, written, indata, qin, Carried)
    <3>1. PICK a, b, d, e :
            /\ a = Copies(x, inbox[x[1]]) /\ b = Copies(x, indata)
            /\ d = Copies(x, written) /\ e = Cardinality(Slots(x, qin))
      OBVIOUS
    <3>2. PICK f, g, h :
            /\ f = Copies(x, Carried["raw"]) /\ g = Copies(x, Carried["oled"])
            /\ h = Copies(x, Carried["pwm"])
      OBVIOUS
    <3>3. Everywhere(x) = a + b + d + e + f + g + h
      BY <2>7, <3>1, <3>2 DEF Everywhere
    <3>4. Total(x, inbox, written, indata, qin, Carried) = a + b + d + e + (f + g + h)
      BY <3>1, <3>2 DEF Total, InHands
    <3>5. /\ a \in Nat /\ b \in Nat /\ d \in Nat /\ e \in Nat
          /\ f \in Nat /\ g \in Nat /\ h \in Nat
      BY <2>6, <2>7, <3>1, <3>2
    <3>6. a + b + d + e + f + g + h = a + b + d + e + (f + g + h)
      BY <3>5
    <3> QED
      BY <3>3, <3>4, <3>6
  <2>9. Total(x, inbox, written, indata, qin, Carried) \in Nat
    BY <2>3, TotalNat DEF Total
  <2> QED
    BY <2>4, <2>5, <2>8, <2>9
<1> QED
  BY <1>1, <1>2, <1>3, PTL DEF Spec

=============================================================================
