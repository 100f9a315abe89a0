--------------------------- MODULE Scanner_proofs ---------------------------
(***************************************************************************)
(* The network scanner: the targets of a sweep (IpRange), for every width  *)
(* of addresses and ports, and the timers and attempts (NetworkScanner),   *)
(* for every set of targets.  The two modules share no variable.           *)
(***************************************************************************)
EXTENDS IpRange, NetworkScanner, TLAPS

-----------------------------------------------------------------------------
\* The targets of a sweep

LEMMA DivMod ==
  ASSUME NEW a \in Int, NEW b \in Nat \ {0}
  PROVE  a \div b \in Int /\ a % b \in 0 .. b - 1 /\ a = b * (a \div b) + (a % b)
OBVIOUS

\* Multiples of b are at least b apart.
LEMMA Apart ==
  ASSUME NEW q \in Int, NEW r \in Int, NEW b \in Nat \ {0}, q < r
  PROVE  b * q + b <= b * r
OBVIOUS

LEMMA Positive == Byte \in Nat \ {0} /\ Addresses \in Nat \ {0}
BY ByteAssumption DEF Addresses

\* Dividing an address by Byte leaves a part less.
LEMMA Shift ==
  ASSUME NEW n \in Nat, NEW k \in Nat, n < Byte * k
  PROVE  n \div Byte \in Nat /\ n \div Byte < k
<1> DEFINE q == n \div Byte
<1>1. q \in Int /\ n % Byte \in 0 .. Byte - 1 /\ n = Byte * q + (n % Byte)
  BY DivMod, Positive
<1> HIDE DEF q
<1>2. CASE q < 0
  <2>1. Byte * q + Byte <= Byte * 0
    BY <1>1, <1>2, Apart, Positive
  <2> QED BY <2>1, <1>1, Positive
<1>3. CASE q >= k
  <2>1. CASE q = k
    BY <2>1, <1>1, Positive
  <2>2. CASE k < q
    <3>1. Byte * k + Byte <= Byte * q
      BY <2>2, <1>1, Apart, Positive
    <3> QED BY <3>1, <1>1, Positive
  <2> QED BY <2>1, <2>2, <1>1, <1>3
<1> QED BY <1>1, <1>2, <1>3 DEF q

(* An address survives its way through text, with parts of any size: what  *)
(* getIpRange writes as dotted text is what scanFromIpRangeAny reads.      *)
THEOREM TextRoundTrip ==
  ASSUME NEW n \in 0 .. Addresses - 1 PROVE ipToInt(intToIp(n)) = n
<1> DEFINE n8 == n \div Byte
           n16 == n8 \div Byte
           n24 == n16 \div Byte
<1>1. n \in Nat /\ n < Byte * (Byte * Byte * Byte) /\ Byte * Byte * Byte \in Nat
  BY Positive DEF Addresses
<1>2. n8 \in Nat /\ n8 < Byte * (Byte * Byte) /\ Byte * Byte \in Nat
  <2>1. n8 \in Nat /\ n8 < Byte * Byte * Byte
    BY <1>1, Shift
  <2> HIDE DEF n8
  <2> QED BY <2>1, Positive
<1>3. n = Byte * n8 + (n % Byte) /\ n % Byte \in Int
  BY <1>1, DivMod, Positive
<1> HIDE DEF n8
<1>4. n16 \in Nat /\ n16 < Byte * Byte
  BY <1>2, Shift
<1>5. n8 = Byte * n16 + (n8 % Byte) /\ n8 % Byte \in Int
  BY <1>2, DivMod, Positive
<1> HIDE DEF n16
<1>6. n24 \in Nat /\ n24 < Byte
  BY <1>4, Shift, Positive
<1>7. n16 = Byte * n24 + (n16 % Byte) /\ n16 % Byte \in Int
  BY <1>4, DivMod, Positive
<1> HIDE DEF n24
<1>8. n24 % Byte = n24
  BY <1>6, Positive
<1>9. intToIp(n) = <<n24 % Byte, n16 % Byte, n8 % Byte, n % Byte>>
  BY DEF intToIp, n8, n16, n24
<1>10. ipToInt(intToIp(n)) = (((n24 % Byte) * Byte + (n16 % Byte)) * Byte + (n8 % Byte)) * Byte + (n % Byte)
  BY <1>9 DEF ipToInt
<1>11. (n24 % Byte) * Byte + (n16 % Byte) = n16
  BY <1>4, <1>6, <1>7, <1>8, Positive
<1>12. n16 * Byte + (n8 % Byte) = n8
  BY <1>2, <1>4, <1>5, Positive
<1>13. n8 * Byte + (n % Byte) = n
  BY <1>1, <1>2, <1>3, Positive
<1> QED BY <1>10, <1>11, <1>12, <1>13

-----------------------------------------------------------------------------
\* The network of the interface

InNetwork == own \in 0 .. Addresses - 1 /\ block \in Blocks

\* It is a whole block of addresses, the last of which is in range.
LEMMA Network ==
  ASSUME InNetwork
  PROVE  /\ block \in Nat \ {0} /\ network \in Nat /\ network + block <= Addresses
         /\ \A a \in 0 .. Addresses - 1 :
              IsHost(a) <=> network < a /\ a < broadcast
<1> DEFINE q == own \div block
           m == Addresses \div block
<1>1. block \in Nat \ {0} /\ Addresses % block = 0 /\ Addresses \in Nat /\ own \in Nat
  BY BlocksAssumption, Positive DEF InNetwork
<1>2. q \in Int /\ own % block \in 0 .. block - 1 /\ own = block * q + (own % block)
  BY <1>1, DivMod
<1>3. m \in Int /\ Addresses = block * m
  BY <1>1, DivMod
<1>4. network = block * q
  BY <1>1, <1>2 DEF network
<1>5. \A a \in Int : a \div block \in Int /\ a % block \in 0 .. block - 1
                    /\ a = block * (a \div block) + (a % block)
  BY <1>1, DivMod
<1> HIDE DEF q, m
<1>6. q < m
  <2> SUFFICES ASSUME m <= q PROVE FALSE
    BY <1>2, <1>3
  <2>1. block * m <= block * q
    <3>1. CASE m = q
      BY <3>1, <1>1, <1>2
    <3>2. CASE m < q
      <4>1. block * m + block <= block * q
        BY <3>2, <1>1, <1>2, <1>3, Apart
      <4> QED BY <4>1, <1>1, <1>2, <1>3
    <3> QED BY <3>1, <3>2, <1>2, <1>3
  <2> QED BY <2>1, <1>1, <1>2, <1>3 DEF InNetwork
<1>7. network + block <= Addresses
  BY <1>1, <1>2, <1>3, <1>4, <1>6, Apart
<1>8. network \in Nat
  <2> SUFFICES ASSUME q < 0 PROVE FALSE
    BY <1>1, <1>2, <1>4
  <2>1. block * q + block <= block * 0
    BY <1>1, <1>2, Apart
  <2> QED BY <2>1, <1>1, <1>2
<1>9. ASSUME NEW a \in 0 .. Addresses - 1
      PROVE  IsHost(a) <=> network < a /\ a < broadcast
  <2> DEFINE p == a \div block
             r == a % block
  <2>1. p \in Int /\ r \in 0 .. block - 1 /\ a = block * p + r /\ a \in Nat
    BY <1>1, <1>5
  <2>2. IsHost(a) <=> p = q /\ r # 0 /\ r # block - 1
    BY DEF IsHost, q
  <2> HIDE DEF p, r
  <2>3. CASE p = q
    BY <2>1, <2>2, <2>3, <1>1, <1>2, <1>4, <1>8 DEF broadcast
  <2>4. CASE p < q
    <3>1. block * p + block <= block * q
      BY <2>1, <2>4, <1>1, <1>2, Apart
    <3>2. a < network
      BY <3>1, <2>1, <1>1, <1>4, <1>8
    <3> QED BY <3>2, <2>1, <2>2, <2>4, <1>2, <1>8
  <2>5. CASE q < p
    <3>1. block * q + block <= block * p
      BY <2>1, <2>5, <1>1, <1>2, Apart
    <3>2. a >= network + block
      BY <3>1, <2>1, <1>1, <1>4, <1>8
    <3> QED BY <3>2, <2>1, <2>2, <2>5, <1>1, <1>2, <1>8 DEF broadcast
  <2> QED BY <2>1, <2>3, <2>4, <2>5, <1>2
<1> QED BY <1>1, <1>7, <1>8, <1>9

-----------------------------------------------------------------------------
\* The invariant

PairOK == low \in 0 .. Ports - 2 /\ high \in 0 .. Ports - 2

\* What is left of RangeTick during a sweep and after it.
RangeOK ==
  /\ Usable /\ low <= high
  /\ start = network + 1 /\ end = broadcast - 1

\* The sweep has tried what is before its counters.
Swept(a, p) ==
  \A x \in 0 .. Addresses - 1, y \in 0 .. Ports - 1 :
    start <= x /\ low <= y /\ y <= high /\ (x < a \/ (x = a /\ y < p)) => <<x, y>> \in tried

IInv ==
  /\ InNetwork /\ PairOK
  /\ at \in {"tick", "outer", "inner", "done"}
  /\ at = "tick" => tried = {}
  /\ at = "done" /\ ~Usable => tried = {}
  /\ at \in {"outer", "inner"} \/ (at = "done" /\ Usable) =>
       /\ RangeOK
       /\ \A t \in tried : t[1] \in start .. end /\ t[2] \in low .. high
  /\ at = "outer" => ip \in start .. end + 1 /\ Swept(ip, 0)
  /\ at = "inner" => ip \in start .. end /\ port \in low .. high + 1 /\ Swept(ip, port)
  /\ at = "done" /\ Usable => Swept(end + 1, 0)

\* Neither counter is at its largest value when it is incremented.
LEMMA Bounds ==
  ASSUME InNetwork, PairOK, RangeOK
  PROVE  /\ network \in Nat /\ broadcast \in Nat /\ block \in Nat
         /\ start \in Nat /\ end \in Nat /\ start <= end /\ end + 1 < Addresses
         /\ Addresses \in Nat /\ Ports \in Nat /\ low \in Nat /\ high \in Nat
         /\ high + 1 < Ports
BY Network, Positive, PortsAssumption DEF PairOK, RangeOK, Usable, broadcast

LEMMA PairsOK == \A pair \in PortPairs : pair[1] \in 0 .. Ports - 2 /\ pair[2] \in 0 .. Ports - 2
BY PairsAssumption

LEMMA InitInv == RangeInit => IInv
BY PairsOK DEF RangeInit, IInv, InNetwork, PairOK

LEMMA TickStep ==
  ASSUME IInv, RangeTick PROVE IInv'
<1> USE DEF RangeTick
<1>1. InNetwork /\ InNetwork' /\ network' = network /\ broadcast' = broadcast /\ Usable' = Usable
  BY DEF IInv, InNetwork, network, broadcast, Usable
<1>2. tried = {} /\ tried' = {}
  BY DEF IInv
<1>3. CASE ~Usable
  BY <1>1, <1>2, <1>3 DEF IInv, PairOK
<1>4. CASE Usable
  <2> DEFINE first == network + 1
             last  == broadcast - 1
  <2>1. network \in Nat /\ block \in Nat /\ network + block <= Addresses /\ Addresses \in Nat
    BY <1>1, Network, Positive
  <2>2. first \in 0 .. Addresses - 1 /\ last \in 0 .. Addresses - 1 /\ first <= last
    BY <2>1, <1>4 DEF Usable, broadcast
  <2>3. ipToInt(intToIp(first)) = first /\ ipToInt(intToIp(last)) = last
    BY <2>2, TextRoundTrip
  <2>4. start' = first /\ end' = last /\ ip' = first
    BY <2>2, <2>3, <1>4 DEF Ordered, LastHost
  <2>5. PairOK' /\ low' <= high'
    BY <1>4, PortsAssumption DEF IInv, PairOK, PortRange, Ordered
  <2>6. RangeOK'
    BY <1>1, <1>4, <2>4, <2>5 DEF RangeOK
  <2>7. Swept(ip, 0)'
    BY <2>2, <2>4, <2>5 DEF Swept, PairOK
  <2>8. ip' \in start' .. end' + 1
    BY <2>2, <2>4
  <2> QED BY <1>1, <1>2, <1>4, <2>5, <2>6, <2>7, <2>8 DEF IInv
<1> QED BY <1>3, <1>4

LEMMA AddressStep ==
  ASSUME IInv, NextAddress PROVE IInv'
<1> USE DEF NextAddress
<1>1. InNetwork /\ PairOK /\ RangeOK /\ Usable /\ ip \in start .. end + 1 /\ Swept(ip, 0)
      /\ \A t \in tried : t[1] \in start .. end /\ t[2] \in low .. high
  BY DEF IInv, RangeOK
<1>2. (InNetwork /\ PairOK /\ RangeOK /\ Usable)'
  BY <1>1 DEF InNetwork, PairOK, RangeOK, Usable, network, broadcast
<1>3. CASE ip <= end
  <2>1. ip' \in start' .. end' /\ port' \in low' .. high' + 1
    BY <1>1, <1>3, Bounds DEF RangeOK
  <2>2. Swept(ip, port)'
    BY <1>1, <1>3, Bounds DEF Swept
  <2> QED BY <1>1, <1>2, <1>3, <2>1, <2>2, Bounds DEF IInv
<1>4. CASE ip > end
  <2>1. ip = end + 1
    BY <1>1, <1>4, Bounds
  <2>2. Swept(end + 1, 0)'
    BY <1>1, <1>4, <2>1 DEF Swept
  <2> QED BY <1>1, <1>2, <1>4, <2>2, Bounds DEF IInv
<1> QED BY <1>1, <1>3, <1>4, Bounds

LEMMA PortStep ==
  ASSUME IInv, NextPort PROVE IInv'
<1> USE DEF NextPort
<1>1. InNetwork /\ PairOK /\ RangeOK /\ Usable /\ ip \in start .. end
      /\ port \in low .. high + 1 /\ Swept(ip, port)
      /\ \A t \in tried : t[1] \in start .. end /\ t[2] \in low .. high
  BY DEF IInv, RangeOK
<1>2. (InNetwork /\ PairOK /\ RangeOK /\ Usable)'
  BY <1>1 DEF InNetwork, PairOK, RangeOK, Usable, network, broadcast
<1>3. CASE port <= high
  <2>1. ipToInt(intToIp(ip)) = ip
    BY <1>1, Bounds, TextRoundTrip
  <2>2. port' = port + 1 /\ port' \in low' .. high' + 1 /\ ip' = ip
    BY <1>1, <1>3, Bounds
  <2>3. tried' = tried \cup {<<ip, port>>}
    BY <1>1, <1>3, <2>1, Bounds
  <2>4. \A t \in tried' : t[1] \in start' .. end' /\ t[2] \in low' .. high'
    BY <1>1, <1>3, <2>3, Bounds
  <2>5. Swept(ip, port)'
    BY <1>1, <1>3, <2>2, <2>3, Bounds DEF Swept
  <2> QED BY <1>1, <1>2, <1>3, <2>2, <2>4, <2>5, Bounds DEF IInv
<1>4. CASE port > high
  <2>1. ip' = ip + 1 /\ ip' \in start' .. end' + 1
    BY <1>1, <1>4, Bounds
  <2>2. Swept(ip, 0)'
    BY <1>1, <1>4, <2>1, Bounds DEF Swept
  <2> QED BY <1>1, <1>2, <1>4, <2>1, <2>2, Bounds DEF IInv
<1> QED BY <1>1, <1>3, <1>4, Bounds

LEMMA NextInv == IInv /\ [RangeNext]_rangeVars => IInv'
<1> SUFFICES ASSUME IInv, [RangeNext]_rangeVars PROVE IInv'
  OBVIOUS
<1>1. CASE Sweep
  BY <1>1, TickStep, AddressStep, PortStep DEF Sweep
<1>2. CASE Again
  BY <1>2, PairsOK DEF Again, IInv, InNetwork, PairOK
<1>3. CASE UNCHANGED rangeVars
  BY <1>3 DEF rangeVars, IInv, InNetwork, PairOK, RangeOK, Swept, Usable, network, broadcast
<1> QED BY <1>1, <1>2, <1>3 DEF RangeNext

LEMMA Covers == IInv => SweepCovers
<1> SUFFICES ASSUME IInv PROVE SweepCovers
  OBVIOUS
<1>1. InNetwork /\ PairOK
  BY DEF IInv
<1>2. CASE tried = {} /\ ~(at = "done" /\ Usable)
  BY <1>2 DEF SweepCovers
<1>3. CASE at \in {"outer", "inner"} \/ (at = "done" /\ Usable)
  <2>1. RangeOK /\ \A t \in tried : t[1] \in start .. end /\ t[2] \in low .. high
    BY <1>3 DEF IInv
  <2>2. \A a \in 0 .. Addresses - 1 : IsHost(a) <=> a \in start .. end
    BY <1>1, <2>1, Network, Bounds DEF RangeOK
  <2>3. \A p \in Int : Between(p) <=> low <= p /\ p <= high
    BY <1>1, <2>1, Bounds DEF Between, RangeOK
  <2>4. ASSUME NEW t \in tried PROVE IsHost(t[1]) /\ Between(t[2])
    <3>1. t[1] \in 0 .. Addresses - 1 /\ t[1] \in start .. end /\ t[2] \in Int /\ t[2] \in low .. high
      BY <1>1, <2>1, <2>4, Bounds
    <3> QED BY <3>1, <2>2, <2>3, <1>1, <2>1, Bounds
  <2>5. ASSUME at = "done", Usable, NEW a \in 0 .. Addresses - 1, NEW p \in 0 .. Ports - 1,
               IsHost(a), Between(p)
        PROVE  <<a, p>> \in tried
    <3>1. Swept(end + 1, 0)
      BY <2>5 DEF IInv
    <3>2. start <= a /\ a < end + 1 /\ low <= p /\ p <= high
      BY <1>1, <2>1, <2>2, <2>3, <2>5, Bounds
    <3> QED BY <3>1, <3>2 DEF Swept
  <2> QED BY <2>4, <2>5 DEF SweepCovers
<1> QED BY <1>2, <1>3 DEF IInv

(* In every network and for every pair of ports that leaves the counter    *)
(* room, a sweep of scanFromIpRangeAny tries the hosts of the network and  *)
(* no other address, also where the network is the last of all.            *)
THEOREM TriesTheHosts == RangeSpec => []SweepCovers
<1>1. RangeSpec => []IInv
  BY InitInv, NextInv, PTL DEF RangeSpec
<1> QED BY <1>1, Covers, PTL

(* What is left of a sweep: a row of Width for every address to come, and  *)
(* the ports to come of this one.                                          *)
Width == Ports + 2
Left ==
  CASE at = "tick" -> Addresses * Width + 2
    [] at = "outer" -> (end + 1 - ip) * Width + 1
    [] at = "inner" -> (end - ip) * Width + (high + 1 - port) + 2
    [] at = "done" -> 0

SweepShrinks == [][Sweep => Left' < Left]_rangeVars

LEMMA Rows ==
  ASSUME NEW a \in Nat, NEW b \in Nat, NEW w \in Nat, a <= b
  PROVE  a * w \in Nat /\ b * w \in Nat /\ a * w <= b * w /\ (a + 1) * w = a * w + w
OBVIOUS

LEMMA LeftType == ASSUME IInv PROVE Left \in Nat
<1>1. InNetwork /\ PairOK /\ Width \in Nat /\ Addresses \in Nat
  BY PortsAssumption, Positive DEF IInv, Width
<1> HIDE DEF Width
<1>2. CASE at = "tick"
  BY <1>1, <1>2, Rows DEF Left
<1>3. CASE at = "outer"
  <2>1. end + 1 - ip \in Nat
    BY <1>1, <1>3, Bounds DEF IInv
  <2> QED BY <1>1, <1>3, <2>1, Rows DEF Left
<1>4. CASE at = "inner"
  <2>1. end - ip \in Nat /\ high + 1 - port \in Nat
    BY <1>1, <1>4, Bounds DEF IInv
  <2>2. (end - ip) * Width \in Nat
    BY <1>1, <2>1, Rows
  <2> QED BY <1>4, <2>1, <2>2 DEF Left
<1>5. CASE at = "done"
  BY <1>5 DEF Left
<1> QED BY <1>2, <1>3, <1>4, <1>5 DEF IInv

\* The addresses to come are not more than there are.
AddressesToCome == at = "outer" => end + 1 - ip \in Nat /\ end + 1 - ip <= Addresses

LEMMA ToComeBounded == IInv => AddressesToCome
<1> SUFFICES ASSUME IInv, at = "outer" PROVE end + 1 - ip \in Nat /\ end + 1 - ip <= Addresses
  BY DEF AddressesToCome
<1>1. InNetwork /\ PairOK /\ RangeOK /\ ip \in start .. end + 1
  BY DEF IInv
<1> QED BY <1>1, Bounds

LEMMA ToComeAfter == IInv' => AddressesToCome'
BY ToComeBounded, PTL

LEMMA LeftLess == ASSUME IInv, IInv', Sweep PROVE Left' < Left
<1>1. /\ InNetwork /\ PairOK /\ Width \in Nat /\ Width = Ports + 2 /\ Addresses \in Nat
      /\ Ports \in Nat /\ Width' = Width /\ Left \in Nat
      /\ at' = "done" => Left' = 0
  BY PortsAssumption, Positive, LeftType DEF IInv, Width, Left
<1>2. at \in {"outer", "inner"} => RangeOK
  BY DEF IInv
<1> HIDE DEF Width
<1>3. CASE RangeTick
  <2>1. Left = Addresses * Width + 2
    BY <1>3 DEF RangeTick, Left
  <2>2. CASE at' = "done"
    <3>1. Addresses * Width \in Nat
      BY <1>1, Rows
    <3> QED BY <1>1, <2>1, <2>2, <3>1
  <2>3. CASE at' = "outer"
    <3>1. end' + 1 - ip' \in Nat /\ end' + 1 - ip' <= Addresses
      BY <2>3, ToComeAfter DEF AddressesToCome
    <3>2. Left' = (end' + 1 - ip') * Width + 1
      BY <1>1, <2>3 DEF Left
    <3>3. (end' + 1 - ip') * Width <= Addresses * Width /\ (end' + 1 - ip') * Width \in Nat
          /\ Addresses * Width \in Nat
      BY <1>1, <3>1, Rows
    <3> QED BY <2>1, <3>2, <3>3
  <2> QED BY <1>3, <2>2, <2>3 DEF RangeTick
<1>4. CASE NextAddress
  <2>1. end + 1 - ip \in Nat /\ low \in Nat /\ high \in Nat /\ high - low <= Ports - 2 /\ ip \in Int
        /\ end \in Int
    BY <1>1, <1>2, <1>4, Bounds DEF NextAddress, IInv, PairOK
  <2>2. Left = (end + 1 - ip) * Width + 1 /\ (end + 1 - ip) * Width \in Nat
    BY <1>1, <1>4, <2>1, Rows DEF NextAddress, Left
  <2>3. CASE at' = "done"
    BY <1>1, <2>2, <2>3
  <2>4. CASE at' = "inner"
    <3>1. ip <= end /\ Left' = (end - ip) * Width + (high + 1 - low) + 2
      BY <1>1, <1>4, <2>4 DEF NextAddress, Left
    <3>2. end - ip \in Nat /\ (end - ip) + 1 = end + 1 - ip
      BY <2>1, <3>1
    <3>3. (end - ip) * Width \in Nat /\ (end + 1 - ip) * Width = (end - ip) * Width + Width
      BY <1>1, <3>2, Rows
    <3>4. PICK rows \in Nat : rows = (end - ip) * Width
      BY <3>3
    <3>5. Left = rows + Width + 1 /\ Left' = rows + (high + 1 - low) + 2
      BY <2>2, <3>1, <3>3, <3>4
    <3> QED BY <1>1, <2>1, <3>5
  <2> QED BY <1>4, <2>3, <2>4 DEF NextAddress
<1>5. CASE NextPort
  <2>1. /\ end - ip \in Nat /\ ip \in Nat /\ end \in Nat /\ ip + 1 < Addresses
        /\ port \in Nat /\ high \in Nat /\ port <= high + 1 /\ high + 1 < Ports
    BY <1>1, <1>2, <1>5, Bounds DEF NextPort, IInv
  <2>2. /\ Left = (end - ip) * Width + (high + 1 - port) + 2
        /\ (end - ip) * Width \in Nat
    BY <1>1, <1>5, <2>1, Rows DEF NextPort, Left
  <2>3. CASE port <= high
    <3>1. port' = port + 1 /\ UNCHANGED <<at, ip, end, high>>
      <4>1. (port + 1) % Ports = port + 1
        BY <1>1, <2>1, <2>3
      <4> QED BY <1>5, <2>1, <2>3, <4>1 DEF NextPort
    <3>2. Left' = (end - ip) * Width + (high + 1 - (port + 1)) + 2
      BY <1>1, <1>5, <3>1 DEF NextPort, Left
    <3> QED BY <2>1, <2>2, <3>2
  <2>4. CASE port > high
    <3>1. ip' = ip + 1 /\ at' = "outer" /\ end' = end
      BY <1>1, <1>5, <2>1, <2>4 DEF NextPort
    <3>2. Left' = (end + 1 - (ip + 1)) * Width + 1
      BY <1>1, <3>1 DEF Left
    <3>3. end + 1 - (ip + 1) = end - ip /\ port = high + 1
      BY <2>1, <2>4
    <3> QED BY <2>1, <2>2, <3>2, <3>3
  <2> QED BY <2>1, <2>3, <2>4
<1> QED BY <1>3, <1>4, <1>5 DEF Sweep

(* Every step of a sweep leaves less of it, in any network and for any     *)
(* pair of ports but those that end at the last port: the loops of         *)
(* scanFromIpRangeAny end, their counters notwithstanding.                 *)
THEOREM SweepIsFinite == RangeSpec => [](Left \in Nat) /\ SweepShrinks
<1>1. RangeSpec => []IInv /\ [][RangeNext]_rangeVars
  BY InitInv, NextInv, PTL DEF RangeSpec
<1>2. IInv /\ IInv' /\ [RangeNext]_rangeVars => [Sweep => Left' < Left]_rangeVars
  BY LeftLess
<1> QED BY <1>1, <1>2, LeftType, PTL DEF SweepShrinks

-----------------------------------------------------------------------------
(***************************************************************************)
(* The timers and attempts of NetworkScanner.  Beside the types: a socket  *)
(* is closed only by a timer that went off, so that one handed over while  *)
(* its timer ran, which ended the timer, is never closed.                  *)
(***************************************************************************)
HandedOver ==
  \A t \in Targets : /\ t \in closed => timer[t] = "over"
                     /\ found[t] = "early" => timer[t] = "over" /\ t \notin closed

ScannerInv == ScannerTypeOK /\ HandedOver

\* The same by parts: what is said of one target, of the attempts, of the timer.
ScannerOne(t) ==
  /\ conn[t] = "none" <=> timer[t] = "none"
  /\ conn[t] = "over" => timer[t] # "armed"
  /\ found[t] # "no" => conn[t] = "over"
  /\ t \in closed => timer[t] = "over"
  /\ found[t] = "early" => timer[t] = "over" /\ t \notin closed

AttemptTypes ==
  /\ closed \subseteq Targets
  /\ conn \in [Targets -> {"none", "open", "ok", "err", "over"}]
  /\ timer \in [Targets -> {"none", "armed", "due", "over"}]
  /\ found \in [Targets -> {"no", "early", "late"}]

PeriodicTypes ==
  /\ online \in BOOLEAN /\ enabled \in BOOLEAN /\ armed \in BOOLEAN
  /\ sweeping \in BOOLEAN /\ going \in BOOLEAN
  /\ todo \subseteq Targets /\ (todo # {} => sweeping)

LEMMA ScannerParts ==
  ScannerInv <=> PeriodicTypes /\ due \in 0 .. MaxDue /\ AttemptTypes /\ \A t \in Targets : ScannerOne(t)
BY DEF ScannerInv, ScannerTypeOK, HandedOver, PeriodicTypes, AttemptTypes, ScannerOne

LEMMA ScannerInitInv == Init => ScannerInv
<1> SUFFICES ASSUME Init PROVE ScannerInv
  OBVIOUS
<1>0. due \in 0 .. MaxDue
  BY MaxDueAssumption DEF Init
<1>1. PeriodicTypes
  BY DEF Init, PeriodicTypes
<1>2. AttemptTypes /\ \A t \in Targets : ScannerOne(t)
  BY DEF Init, AttemptTypes, ScannerOne
<1> QED BY <1>0, <1>1, <1>2, ScannerParts

\* The timer and the sweeps, as one half of the state,
LEMMA PeriodicKeeps ==
  ASSUME PeriodicTypes, [Next]_vars
  PROVE  PeriodicTypes'
<1> USE DEF PeriodicTypes
<1>1. CASE Start
  BY <1>1 DEF Start, StartPeriodicScan
<1>2. CASE Stop
  BY <1>2 DEF Stop
<1>3. CASE Expire
  BY <1>3 DEF Expire
<1>4. CASE Connectivity
  BY <1>4 DEF Connectivity
<1>5. CASE Tick
  BY <1>5 DEF Tick
<1>6. CASE SweepEnd
  BY <1>6 DEF SweepEnd, StartPeriodicScan
<1>7. ASSUME NEW t \in Targets, StartScan(t) PROVE PeriodicTypes'
  BY <1>7 DEF StartScan
<1>8. ASSUME NEW t \in Targets, Connected(t) \/ Attempt(t) PROVE PeriodicTypes'
  BY <1>8 DEF Connected, Attempt, TimerExpires, Timeout, HandleConnect, periodic
<1>9. CASE UNCHANGED vars
  BY <1>9 DEF vars
<1> QED BY <1>1, <1>2, <1>3, <1>4, <1>5, <1>6, <1>7, <1>8, <1>9 DEF Next, Scan

\* and the attempts as the other.
LEMMA AttemptsKeep ==
  ASSUME AttemptTypes, \A t \in Targets : ScannerOne(t), [Next]_vars
  PROVE  AttemptTypes' /\ \A t \in Targets : ScannerOne(t)'
<1>1. CASE UNCHANGED attempts
  BY <1>1 DEF attempts, AttemptTypes, ScannerOne
<1>2. CASE Start \/ Stop \/ Expire \/ Connectivity \/ Tick \/ SweepEnd \/ UNCHANGED vars
  <2>1. UNCHANGED attempts
    BY <1>2 DEF Start, Stop, Expire, Connectivity, Tick, SweepEnd, vars, attempts
  <2> QED BY <1>1, <2>1
<1>3. ASSUME NEW t \in Targets, StartScan(t) PROVE AttemptTypes' /\ \A u \in Targets : ScannerOne(u)'
  <2>1. CASE UNCHANGED <<conn, timer>>
    BY <1>1, <1>3, <2>1 DEF StartScan, attempts
  <2>2. CASE /\ t \notin scanned_targets
             /\ conn' = [conn EXCEPT ![t] = "open"] /\ timer' = [timer EXCEPT ![t] = "armed"]
    <3>1. conn[t] = "none" /\ timer[t] = "none"
      BY <2>2 DEF scanned_targets, ScannerOne
    <3>2. closed' = closed /\ found' = found
      BY <1>3 DEF StartScan
    <3>3. AttemptTypes'
      BY <2>2, <3>2 DEF AttemptTypes
    <3>4. \A u \in Targets : ScannerOne(u)'
      BY <2>2, <3>1, <3>2 DEF AttemptTypes, ScannerOne
    <3> QED BY <3>3, <3>4
  <2> QED BY <1>3, <2>1, <2>2 DEF StartScan
<1>4. ASSUME NEW t \in Targets, Connected(t) \/ TimerExpires(t)
      PROVE  AttemptTypes' /\ \A u \in Targets : ScannerOne(u)'
  BY <1>4 DEF Connected, TimerExpires, AttemptTypes, ScannerOne
<1>5. ASSUME NEW t \in Targets, Timeout(t)
      PROVE  AttemptTypes' /\ \A u \in Targets : ScannerOne(u)'
  BY <1>5 DEF Timeout, AttemptTypes, ScannerOne
<1>6. ASSUME NEW t \in Targets, HandleConnect(t)
      PROVE  AttemptTypes' /\ \A u \in Targets : ScannerOne(u)'
  <2>1. /\ conn[t] \in {"ok", "err"} /\ conn' = [conn EXCEPT ![t] = "over"] /\ closed' = closed
        /\ timer' = [timer EXCEPT ![t] = IF timer[t] = "armed" THEN "over" ELSE timer[t]]
    BY <1>6 DEF HandleConnect
  <2>2. \/ found' = found
        \/ found' = [found EXCEPT ![t] = "early"] /\ timer[t] = "armed"
        \/ found' = [found EXCEPT ![t] = "late"]
    BY <1>6 DEF HandleConnect, Report
  <2>3. AttemptTypes'
    BY <2>1, <2>2 DEF AttemptTypes
  <2>4. \A u \in Targets : ScannerOne(u)'
    BY <2>1, <2>2 DEF AttemptTypes, ScannerOne
  <2> QED BY <2>3, <2>4
<1> QED BY <1>2, <1>3, <1>4, <1>5, <1>6 DEF Next, Scan, Attempt

LEMMA DueKeeps ==
  ASSUME due \in 0 .. MaxDue, [Next]_vars
  PROVE  due' \in 0 .. MaxDue
<1>1. due' = due \/ (due < MaxDue /\ due' = due + 1) \/ (due > 0 /\ due' = due - 1)
  BY DEF Next, Start, Stop, Expire, Connectivity, Scan, Tick, SweepEnd, StartScan, Connected,
         Attempt, TimerExpires, Timeout, HandleConnect, periodic, vars
<1> QED BY <1>1, MaxDueAssumption

LEMMA ScannerNextInv == ScannerInv /\ [Next]_vars => ScannerInv'
<1> SUFFICES ASSUME ScannerInv, [Next]_vars PROVE ScannerInv'
  OBVIOUS
<1>1. PeriodicTypes /\ due \in 0 .. MaxDue /\ AttemptTypes /\ \A t \in Targets : ScannerOne(t)
  BY ScannerParts
<1>2. PeriodicTypes' /\ due' \in 0 .. MaxDue /\ AttemptTypes' /\ \A t \in Targets : ScannerOne(t)'
  BY <1>1, PeriodicKeeps, DueKeeps, AttemptsKeep
<1> QED BY <1>2 DEF ScannerInv, ScannerTypeOK, HandedOver, PeriodicTypes, AttemptTypes, ScannerOne

LEMMA ScannerSafety == Spec => []ScannerInv /\ [][Next]_vars
BY ScannerInitInv, ScannerNextInv, PTL DEF Spec

(* The types of the scanner, and what its halves say of each other.        *)
THEOREM ScannerTypeCorrect == Spec => []ScannerTypeOK
<1>1. ScannerInv => ScannerTypeOK
  BY DEF ScannerInv
<1> QED BY <1>1, ScannerSafety, PTL

(* No connection handed to the device callback in time is ever closed by   *)
(* the timer of its attempt, nor handed over again, in any sweep.          *)
THEOREM HandedOverOnce == Spec => FoundStays
<1> DEFINE Stays ==
      \A t \in Targets : /\ found[t] # "no" => found'[t] = found[t]
                         /\ found[t] = "early" => t \notin closed'
<1>1. ASSUME ScannerInv, Next PROVE Stays
  <2>1. AttemptTypes /\ \A t \in Targets : ScannerOne(t)
    BY <1>1, ScannerParts
  <2>2. CASE found' = found /\ closed' = closed
    BY <2>1, <2>2 DEF ScannerOne
  <2>3. CASE Start \/ Stop \/ Expire \/ Connectivity \/ Scan
    <3>1. found' = found /\ closed' = closed
      BY <2>3 DEF Start, Stop, Expire, Connectivity, Scan, Tick, SweepEnd, StartScan, attempts
    <3> QED BY <2>2, <3>1
  <2>4. ASSUME NEW t \in Targets, Connected(t) \/ TimerExpires(t) PROVE Stays
    BY <2>2, <2>4 DEF Connected, TimerExpires
  <2>5. ASSUME NEW t \in Targets, Timeout(t) PROVE Stays
    BY <2>1, <2>5 DEF Timeout, ScannerOne
  <2>6. ASSUME NEW t \in Targets, HandleConnect(t) PROVE Stays
    <3>1. conn[t] # "over" /\ closed' = closed
      BY <2>6 DEF HandleConnect
    <3>2. \A u \in Targets : u # t => found'[u] = found[u]
      BY <2>1, <2>6 DEF HandleConnect, Report, AttemptTypes
    <3> QED BY <2>1, <3>1, <3>2 DEF ScannerOne
  <2> QED BY <1>1, <2>3, <2>4, <2>5, <2>6 DEF Next, Attempt
<1>2. ScannerInv /\ [Next]_vars => [Stays]_vars
  BY <1>1
<1> QED BY <1>2, ScannerSafety, PTL DEF FoundStays

(* Once stopped and between sweeps, the scanner begins no other.           *)
THEOREM StopIsFinal == Spec => StopHolds
<1>1. ASSUME Next, ~enabled, ~sweeping PROVE ~sweeping'
  BY <1>1 DEF Next, Start, Stop, Expire, Connectivity, Scan, Tick, SweepEnd, StartScan, Connected,
              Attempt, TimerExpires, Timeout, HandleConnect, periodic
<1>2. [Next]_vars => [~enabled /\ ~sweeping => ~sweeping']_vars
  BY <1>1
<1> QED BY <1>2, PTL DEF StopHolds, Spec

(* Until stop(), or a sweep that ends without a network, the periodic scan *)
(* always has its next step: a timer, a handler in the queue or a sweep.   *)
THEOREM ScanKeepsGoing == Spec => []ScanGoesOn
<1>1. Init => ScanGoesOn
  BY DEF Init, ScanGoesOn
<1>2. ASSUME ScannerInv, ScanGoesOn, [Next]_vars PROVE ScanGoesOn'
  <2>1. due \in Nat
    BY <1>2, MaxDueAssumption DEF ScannerInv, ScannerTypeOK
  <2>2. CASE Start \/ Stop \/ SweepEnd
    BY <1>2, <2>2 DEF Start, Stop, SweepEnd, StartPeriodicScan, ScanGoesOn
  <2>3. CASE Expire
    BY <2>1, <2>3 DEF Expire, ScanGoesOn
  <2>4. CASE Tick
    BY <1>2, <2>4 DEF Tick, ScanGoesOn, ScannerInv, ScannerTypeOK
  <2>5. CASE Connectivity \/ \E t \in Targets : StartScan(t)
    BY <1>2, <2>5 DEF Connectivity, StartScan, ScanGoesOn
  <2>6. CASE \E t \in Targets : Connected(t) \/ Attempt(t)
    <3>1. UNCHANGED <<going, enabled, armed, due, sweeping>>
      BY <2>6 DEF Connected, Attempt, TimerExpires, Timeout, HandleConnect, periodic
    <3> QED BY <1>2, <3>1 DEF ScanGoesOn
  <2>7. CASE UNCHANGED vars
    BY <1>2, <2>7 DEF vars, ScanGoesOn
  <2> QED BY <1>2, <2>2, <2>3, <2>4, <2>5, <2>6, <2>7 DEF Next, Scan
<1> QED BY <1>1, <1>2, ScannerSafety, PTL DEF Spec
=============================================================================
