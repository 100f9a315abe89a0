------------------------------ MODULE MCScanner ------------------------------
\* The two parts of the scanner for TLC, which share no variable: a behaviour is
\* one of IpRange (part is "range") or of NetworkScanner (part is "timer"), and
\* the other part stays in an initial state.  Sixteen addresses, networks of
\* every size, ports in any order; two targets.
EXTENDS IpRange, NetworkScanner

CONSTANTS t1, t2
VARIABLE part

MCBlocks == {1, 2, 4, 8, 16}
MCPortPairs == {<<1, 1>>, <<0, 2>>, <<2, 1>>}
MCTargets == {t1, t2}

scannerVars == <<vars, rangeVars, part>>

ScannerInit ==
  /\ RangeInit /\ Init
  /\ \/ part = "range" /\ online /\ enabled
     \/ part = "timer" /\ own = 0 /\ block = 1 /\ low = 1

RangeStep(A) == part = "range" /\ A /\ UNCHANGED <<vars, part>>
TimerStep(A) == part = "timer" /\ A /\ UNCHANGED <<rangeVars, part>>

ScannerNext == RangeStep(RangeNext) \/ TimerStep(Next)

\* The fairness of RangeSpec and of Spec.
ScannerSpec ==
  /\ ScannerInit /\ [][ScannerNext]_scannerVars
  /\ WF_scannerVars(RangeStep(Sweep))
  /\ WF_scannerVars(TimerStep(Scan))
  /\ \A t \in Targets : SF_scannerVars(TimerStep(Attempt(t)))
=============================================================================
