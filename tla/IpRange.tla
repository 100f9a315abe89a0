------------------------------ MODULE IpRange ------------------------------
(***************************************************************************)
(* The targets of a scan: NetWorkUtils::getIpRange makes a range of        *)
(* addresses of the address and the mask of the WLAN interface,            *)
(* scanFromIpRangeAny walks over it, and over the ports, with counters     *)
(* that wrap around.  A mask is known by the size of the block of          *)
(* addresses it leaves to the hosts: ip & mask is the first of the block,  *)
(* ~mask its size less one.                                                *)
(***************************************************************************)
EXTENDS Integers

CONSTANTS Byte,        \* values of one part of an address: 256
          Ports,       \* values of uint16_t: 65536
          Blocks,      \* sizes of the networks the interface may be in
          PortPairs    \* values of startPort and endPort in the configuration

\* 2^32
Addresses == Byte * Byte * Byte * Byte

ASSUME ByteAssumption   == Byte \in Nat \ {0}
ASSUME PortsAssumption  == Ports \in Nat \ {0}
ASSUME BlocksAssumption == \A b \in Blocks : b \in 1 .. Addresses /\ Addresses % b = 0
(* The default is 5555 for both.  With Ports - 1 the loop would not end.   *)
ASSUME PairsAssumption  == PortPairs \subseteq (0 .. Ports - 2) \X (0 .. Ports - 2)

VARIABLES
  at,             \* "tick", "outer", "inner": where the sweep is; "done"
  own, block,     \* the interface: its address and its block
  start, end,     \* of scanFromIpRangeAny, addresses
  low, high,      \* of scanFromIpRangeAny, ports
  ip, port,       \* the counters of the loops
  tried           \* the targets startScan was called for in this sweep

rangeVars == <<at, own, block, start, end, low, high, ip, port, tried>>

RangeInit ==
  /\ at = "tick" /\ tried = {} /\ ip = 0 /\ port = 0 /\ start = 0 /\ end = 0
  /\ own \in 0 .. Addresses - 1 /\ block \in Blocks
  /\ \E pair \in PortPairs : low = pair[1] /\ high = pair[2]

-----------------------------------------------------------------------------
\* Addresses as text

\* The parts of an address, the highest first (shifts by 24, 16, 8 and 0).
intToIp(n) ==
  LET n8 == n \div Byte
      n16 == n8 \div Byte
      n24 == n16 \div Byte
  IN  <<n24 % Byte, n16 % Byte, n8 % Byte, n % Byte>>

ipToInt(text) == ((text[1] * Byte + text[2]) * Byte + text[3]) * Byte + text[4]

-----------------------------------------------------------------------------
\* getIpRange

network == own - (own % block)
broadcast == network + (block - 1)

\* No mask of zeros or of ones, and two hosts at least.
Usable == block # Addresses /\ block # 1 /\ broadcast - network > 1

\* What-if: the broadcast address is scanned too.
LastAndBroadcast == broadcast

LastHost == broadcast - 1

-----------------------------------------------------------------------------
\* scanFromIpRangeAny

Ordered(a, b) == IF a > b THEN <<b, a>> ELSE <<a, b>>

\* What-if: ports in the wrong order are left as they are.
PortRangeAsGiven(a, b) == <<a, b>>

PortRange(a, b) == Ordered(a, b)

\* updateNetworkInfo, when the timer is set, and the sweep when it fires.
RangeTick ==
  /\ at = "tick"
  /\ \/ ~Usable /\ at' = "done" /\ UNCHANGED <<start, end, low, high, ip>>
     \/ /\ Usable /\ at' = "outer"
        /\ LET range == Ordered(ipToInt(intToIp(network + 1)), ipToInt(intToIp(LastHost)))
           IN  start' = range[1] /\ end' = range[2] /\ ip' = range[1]
        /\ low' = PortRange(low, high)[1] /\ high' = PortRange(low, high)[2]
  /\ UNCHANGED <<own, block, port, tried>>

NextAddress ==
  /\ at = "outer"
  /\ \/ ip <= end /\ port' = low /\ at' = "inner"
     \/ ip > end /\ at' = "done" /\ UNCHANGED port
  /\ UNCHANGED <<own, block, start, end, low, high, ip, tried>>

NextPort ==
  /\ at = "inner"
  /\ \/ /\ port <= high
        /\ tried' = tried \cup {<<ipToInt(intToIp(ip)), port>>}
        /\ port' = (port + 1) % Ports
        /\ UNCHANGED <<at, ip>>
     \/ /\ port > high
        /\ ip' = (ip + 1) % Addresses /\ at' = "outer"
        /\ UNCHANGED <<port, tried>>
  /\ UNCHANGED <<own, block, start, end, low, high>>

\* The next period, perhaps in another network.
Again ==
  /\ at = "done" /\ at' = "tick"
  /\ own' \in 0 .. Addresses - 1 /\ block' \in Blocks
  /\ \E pair \in PortPairs : low' = pair[1] /\ high' = pair[2]
  /\ tried' = {}
  /\ UNCHANGED <<start, end, ip, port>>

Sweep == RangeTick \/ NextAddress \/ NextPort
RangeNext == Sweep \/ Again

\* A sweep is one call, which runs to its end if it has one.
RangeSpec == RangeInit /\ [][RangeNext]_rangeVars /\ WF_rangeVars(Sweep)

-----------------------------------------------------------------------------
\* Properties

Between(p) == (low <= p /\ p <= high) \/ (high <= p /\ p <= low)

\* An address of the interface's network that is neither the first nor the last.
IsHost(a) == a \div block = own \div block /\ a % block \notin {0, block - 1}

(* A sweep tries the hosts of the network at the configured ports, whatever *)
(* their order, and nothing else; when it is over it has tried all.        *)
SweepCovers ==
  /\ \A target \in tried : IsHost(target[1]) /\ Between(target[2])
  /\ at = "done" /\ Usable =>
       \A a \in 0 .. Addresses - 1, p \in 0 .. Ports - 1 :
         IsHost(a) /\ Between(p) => <<a, p>> \in tried

(* The counters never wrap around, not even in the last network there is,  *)
(* and every sweep ends.                                                   *)
SweepEnds == at = "outer" ~> at = "done"
=============================================================================
