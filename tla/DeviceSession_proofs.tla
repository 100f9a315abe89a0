------------------------ MODULE DeviceSession_proofs ------------------------
(***************************************************************************)
(* What the dispatch of a DeviceSession guarantees for any streams, sets   *)
(* of commands and number of messages.  The inductive invariant adds three *)
(* things to the properties: a client has at most one wait that has not    *)
(* expired, and only while it is suspended (OneFresh); only an open stream *)
(* has a client that may go on (StreamStatus); and during checkWaiters the *)
(* part of the list behind the iterator has no match (Walked).  Where every *)
(* message is follows from a second invariant on top of it, the Ledger.    *)
(***************************************************************************)
EXTENDS DeviceSession, TLAPS

\* What client c may wait for.
Wanted(c) == IF c = 0 THEN Control ELSE Data

Fresh(c, i) == ~waiters[c][i].late

\* findWaiters finds a list for every stream that has a context.
ContextsListed == contexts \subseteq listed /\ loop # "dead"

StreamStatus ==
  \A s \in Streams : /\ status[s] # "starting"
                     /\ s \notin contexts => status[s] \in {"unborn", "done"}

OneFresh ==
  \A c \in Clients : \A i \in DOMAIN waiters[c] : Fresh(c, i) =>
    /\ status[c] = "waiting"
    /\ \A j \in DOMAIN waiters[c] : Fresh(c, j) => i = j

WaitSets ==
  \A c \in Clients : \A i \in DOMAIN waiters[c] : waiters[c][i].cmds \subseteq Wanted(c)

\* A context's queue holds messages of its stream.
QueuesHold ==
  /\ \A s \in Streams : \A i \in DOMAIN queue[s] :
       /\ queue[s][i] \in DOMAIN received
       /\ Cmd(queue[s][i]) \in Data /\ received[queue[s][i]].arg1 = s
  /\ \A i \in DOMAIN pending : pending[i] \in DOMAIN received

GivenRight ==
  \A c \in Clients : \A i \in DOMAIN given[c] :
    /\ given[c][i] \in DOMAIN received
    /\ Cmd(given[c][i]) \in Wanted(c)
    /\ c # 0 => received[given[c][i]].arg1 = c

\* The waiter i of c has been looked at since the last message.
Passed(c, i) == loop = "reading" \/ c # scanned \/ i < cursor

Walked ==
  \A c \in Clients : \A i \in DOMAIN waiters[c] :
    Fresh(c, i) /\ Passed(c, i) => FirstMatch(waiters[c][i].cmds, Deque(c)) = {}

IInv == /\ TypeOK /\ ContextsListed /\ StreamStatus /\ OneFresh /\ WaitSets
        /\ QueuesHold /\ GivenRight /\ Walked

-----------------------------------------------------------------------------
\* Sequences

LEMMA Stretch ==
  ASSUME NEW S, NEW s \in Seq(S), NEW a \in Nat, NEW b \in Nat, a <= b, b <= Len(s)
  PROVE  /\ SubSeq(s, a + 1, b) \in Seq(S)
         /\ Len(SubSeq(s, a + 1, b)) = b - a
         /\ \A n \in 1 .. b - a : SubSeq(s, a + 1, b)[n] = s[a + n]
  OBVIOUS

LEMMA Glue ==
  ASSUME NEW S, NEW s \in Seq(S), NEW t \in Seq(S)
  PROVE  /\ s \o t \in Seq(S)
         /\ Len(s \o t) = Len(s) + Len(t)
         /\ \A n \in 1 .. Len(s) : (s \o t)[n] = s[n]
         /\ \A n \in Len(s) + 1 .. Len(s) + Len(t) : (s \o t)[n] = t[n - Len(s)]
  OBVIOUS

LEMMA AppendSeq ==
  ASSUME NEW S, NEW s \in Seq(S), NEW e \in S
  PROVE  /\ Append(s, e) \in Seq(S)
         /\ Len(Append(s, e)) = Len(s) + 1
         /\ DOMAIN Append(s, e) = 1 .. Len(s) + 1
         /\ Append(s, e)[Len(s) + 1] = e
         /\ \A j \in 1 .. Len(s) : Append(s, e)[j] = s[j]
  OBVIOUS

\* A queue and what is put at its end.
LEMMA Enqueued ==
  ASSUME NEW q \in Seq(Nat), NEW n \in Nat
  PROVE  /\ Append(q, n) \in Seq(Nat)
         /\ \A j \in DOMAIN Append(q, n) : \/ j \in DOMAIN q /\ Append(q, n)[j] = q[j]
                                           \/ Append(q, n)[j] = n
         /\ \A j \in DOMAIN q : j \in DOMAIN Append(q, n) /\ Append(q, n)[j] = q[j]
<1>1. Len(q) \in Nat /\ DOMAIN q = 1 .. Len(q)
  OBVIOUS
<1>2. /\ Append(q, n) \in Seq(Nat)
      /\ DOMAIN Append(q, n) = 1 .. Len(q) + 1
      /\ Append(q, n)[Len(q) + 1] = n
      /\ \A j \in 1 .. Len(q) : Append(q, n)[j] = q[j]
  BY AppendSeq
<1> QED BY <1>1, <1>2

\* Without leaves the other elements, and in their order.
Shift(i, j) == IF j < i THEN j ELSE j + 1

LEMMA WithoutSeq ==
  ASSUME NEW S, NEW s \in Seq(S), NEW i \in DOMAIN s
  PROVE  /\ Without(s, i) \in Seq(S)
         /\ DOMAIN Without(s, i) = 1 .. Len(s) - 1
         /\ \A j \in DOMAIN Without(s, i) : /\ Shift(i, j) \in DOMAIN s
                                            /\ Shift(i, j) # i
                                            /\ Without(s, i)[j] = s[Shift(i, j)]
<1> DEFINE a == SubSeq(s, 1, i - 1)
           b == SubSeq(s, i + 1, Len(s))
<1>1. Len(s) \in Nat /\ DOMAIN s = 1 .. Len(s) /\ i \in 1 .. Len(s)
  OBVIOUS
<1>2. a \in Seq(S) /\ Len(a) = i - 1 /\ \A n \in 1 .. i - 1 : a[n] = s[n]
  <2>1. i - 1 \in Nat /\ 0 \in Nat /\ 0 <= i - 1 /\ i - 1 <= Len(s) /\ 0 + 1 = 1 /\ (i - 1) - 0 = i - 1
    BY <1>1
  <2>2. \A n \in 1 .. i - 1 : 0 + n = n
    BY <1>1
  <2>3. /\ SubSeq(s, 0 + 1, i - 1) \in Seq(S) /\ Len(SubSeq(s, 0 + 1, i - 1)) = (i - 1) - 0
        /\ \A n \in 1 .. (i - 1) - 0 : SubSeq(s, 0 + 1, i - 1)[n] = s[0 + n]
    BY <2>1, Stretch
  <2> QED BY <2>1, <2>2, <2>3
<1>3. b \in Seq(S) /\ Len(b) = Len(s) - i /\ \A n \in 1 .. Len(s) - i : b[n] = s[i + n]
  <2>1. i \in Nat /\ i <= Len(s)
    BY <1>1
  <2> QED BY <1>1, <2>1, Stretch
<1>4. Without(s, i) = a \o b
  BY DEF Without
<1> HIDE DEF a, b
<1>5. /\ a \o b \in Seq(S) /\ Len(a \o b) = Len(s) - 1
      /\ \A n \in 1 .. i - 1 : (a \o b)[n] = a[n]
      /\ \A n \in i .. Len(s) - 1 : (a \o b)[n] = b[n - (i - 1)]
  <2>1. /\ a \o b \in Seq(S) /\ Len(a \o b) = Len(a) + Len(b)
        /\ \A n \in 1 .. Len(a) : (a \o b)[n] = a[n]
        /\ \A n \in Len(a) + 1 .. Len(a) + Len(b) : (a \o b)[n] = b[n - Len(a)]
    <3>1. a \in Seq(S) /\ b \in Seq(S)
      BY <1>2, <1>3
    <3> QED BY <3>1, Glue
  <2>2. Len(a) + 1 = i /\ Len(a) + Len(b) = Len(s) - 1
    BY <1>1, <1>2, <1>3
  <2> QED BY <2>1, <2>2, <1>2
<1>6. \A j \in 1 .. Len(s) - 1 : /\ Shift(i, j) \in 1 .. Len(s) /\ Shift(i, j) # i
                                 /\ (a \o b)[j] = s[Shift(i, j)]
  <2> SUFFICES ASSUME NEW j \in 1 .. Len(s) - 1
               PROVE  /\ Shift(i, j) \in 1 .. Len(s) /\ Shift(i, j) # i
                      /\ (a \o b)[j] = s[Shift(i, j)]
    OBVIOUS
  <2>1. CASE j < i
    <3>1. j \in 1 .. i - 1
      BY <2>1, <1>1
    <3>2. (a \o b)[j] = s[j]
      BY <3>1, <1>2, <1>5
    <3> QED BY <2>1, <3>2, <1>1 DEF Shift
  <2>2. CASE ~(j < i)
    <3>1. j \in i .. Len(s) - 1 /\ j - (i - 1) \in 1 .. Len(s) - i /\ i + (j - (i - 1)) = j + 1
      BY <2>2, <1>1
    <3>2. (a \o b)[j] = b[j - (i - 1)] /\ b[j - (i - 1)] = s[i + (j - (i - 1))]
      BY <3>1, <1>3, <1>5
    <3>3. (a \o b)[j] = s[j + 1]
      BY <3>1, <3>2
    <3> QED BY <2>2, <3>3, <1>1 DEF Shift
  <2> QED BY <2>1, <2>2
<1>7. DOMAIN (a \o b) = 1 .. Len(s) - 1
  BY <1>5
<1> QED BY <1>1, <1>4, <1>5, <1>6, <1>7

\* What is left of a queue without its element i: no other element is lost.
LEMMA WithoutKeeps ==
  ASSUME NEW S, NEW q \in Seq(S), NEW i \in DOMAIN q, NEW k \in DOMAIN q, k # i
  PROVE  \E j \in DOMAIN Without(q, i) : Without(q, i)[j] = q[k]
<1>1. Len(q) \in Nat /\ DOMAIN q = 1 .. Len(q) /\ i \in Nat /\ k \in Nat
  OBVIOUS
<1>2. DOMAIN Without(q, i) = 1 .. Len(q) - 1
  BY WithoutSeq
<1>3. PICK j \in 1 .. Len(q) - 1 : Shift(i, j) = k
  <2>1. CASE k < i
    BY <1>1, <2>1 DEF Shift
  <2>2. CASE ~(k < i)
    <3>1. k - 1 \in 1 .. Len(q) - 1 /\ Shift(i, k - 1) = k
      BY <1>1, <2>2 DEF Shift
    <3> QED BY <3>1
  <2> QED BY <2>1, <2>2
<1>4. Without(q, i)[j] = q[Shift(i, j)]
  BY <1>2, <1>3, WithoutSeq
<1> QED BY <1>2, <1>3, <1>4

\* Two elements stay two elements.
LEMMA ShiftOne ==
  ASSUME NEW i \in Nat, NEW j \in Nat, NEW k \in Nat, Shift(i, j) = Shift(i, k)
  PROVE  j = k
  BY DEF Shift

LEMMA EmptySeq == ASSUME NEW S PROVE <<>> \in Seq(S) /\ DOMAIN <<>> = {} /\ Len(<<>>) = 0
  OBVIOUS

-----------------------------------------------------------------------------
\* Facts of single states

LEMMA Zero == 0 \notin Streams /\ Clients = Streams \cup {0} /\ Streams \subseteq Clients /\ 0 \in Clients
  BY StreamsAssumption DEF Clients

LEMMA DequeType ==
  ASSUME TypeOK, NEW c \in Clients
  PROVE  Deque(c) \in Seq(Nat)
<1>1. CASE c \in contexts
  BY <1>1 DEF TypeOK, Deque
<1>2. CASE c \notin contexts
  BY <1>2 DEF TypeOK, Deque
<1> QED BY <1>1, <1>2

\* A client that waits in time or runs has its queue.
LEMMA OwnQueue ==
  ASSUME StreamStatus, NEW s \in Streams, status[s] \notin {"unborn", "done"}
  PROVE  s \in contexts
  BY DEF StreamStatus

LEMMA DequeHolds ==
  ASSUME TypeOK, QueuesHold, NEW c \in Clients, NEW i \in DOMAIN Deque(c)
  PROVE  /\ Deque(c)[i] \in DOMAIN received
         /\ c \in contexts => received[Deque(c)[i]].arg1 = c
<1>1. CASE c \in contexts
  <2>1. c \in Streams /\ Deque(c) = queue[c]
    BY <1>1 DEF TypeOK, Deque
  <2> QED BY <2>1 DEF QueuesHold
<1>2. CASE c \notin contexts
  <2>1. Deque(c) = pending
    BY <1>2 DEF Deque
  <2> QED BY <1>2, <2>1 DEF QueuesHold
<1> QED BY <1>1, <1>2

LEMMA InitInv == Init => IInv
<1> SUFFICES ASSUME Init PROVE IInv
  OBVIOUS
<1>1. /\ received = <<>> /\ pending = <<>> /\ contexts = {} /\ listed = {}
      /\ \A s \in Streams : queue[s] = <<>>
      /\ \A c \in Clients : waiters[c] = <<>> /\ given[c] = <<>> /\ status[c] = "unborn"
  BY DEF Init
<1>2. TypeOK
  <2>1. received \in Seq(Message) /\ pending \in Seq(Nat)
    BY <1>1, EmptySeq
  <2>2. queue \in [Streams -> Seq(Nat)]
    BY EmptySeq DEF Init
  <2>3. waiters \in [Clients -> Seq(Waiter)] /\ given \in [Clients -> Seq(Nat)]
    BY EmptySeq DEF Init
  <2>4. status \in [Clients -> Status]
    BY DEF Init, Status
  <2>5. scanned \in Clients /\ cursor \in Nat \ {0} /\ callback \in SUBSET Clients
    BY Zero DEF Init
  <2> QED BY <2>1, <2>2, <2>3, <2>4, <2>5 DEF Init, TypeOK
<1>3. ContextsListed /\ StreamStatus
  BY <1>1, Zero DEF Init, ContextsListed, StreamStatus
<1>4. OneFresh /\ WaitSets /\ Walked /\ GivenRight
  BY <1>1, EmptySeq DEF OneFresh, WaitSets, Walked, GivenRight
<1>5. QueuesHold
  BY <1>1, EmptySeq DEF QueuesHold
<1> QED BY <1>2, <1>3, <1>4, <1>5 DEF IInv

-----------------------------------------------------------------------------
\* A message is handed over

LEMMA HandedOverTypes ==
  ASSUME TypeOK, NEW c \in Clients, NEW i \in DOMAIN Deque(c), HandOver(c, i)
  PROVE  /\ queue' \in [Streams -> Seq(Nat)] /\ pending' \in Seq(Nat)
         /\ given' \in [Clients -> Seq(Nat)] /\ status' \in [Clients -> Status]
<1>1. Deque(c) \in Seq(Nat)
  BY DequeType
<1>2. Without(Deque(c), i) \in Seq(Nat) /\ Deque(c)[i] \in Nat
  BY <1>1, WithoutSeq
<1>3. status' \in [Clients -> Status]
  BY DEF HandOver, TypeOK, Status
<1>4. given' \in [Clients -> Seq(Nat)]
  <2>1. Append(given[c], Deque(c)[i]) \in Seq(Nat)
    BY <1>2, AppendSeq DEF TypeOK
  <2>2. given' = [given EXCEPT ![c] = Append(given[c], Deque(c)[i])]
    BY DEF HandOver
  <2> QED BY <2>1, <2>2 DEF TypeOK
<1>5. queue' \in [Streams -> Seq(Nat)] /\ pending' \in Seq(Nat)
  <2>1. CASE c \in contexts
    <3>1. Deque(c) = queue[c]
      BY <2>1 DEF Deque
    <3>2. queue' = [queue EXCEPT ![c] = Without(queue[c], i)] /\ pending' = pending
      BY <2>1 DEF HandOver
    <3> QED BY <3>1, <3>2, <1>2 DEF TypeOK
  <2>2. CASE c \notin contexts
    <3>1. Deque(c) = pending
      BY <2>2 DEF Deque
    <3>2. queue' = queue /\ pending' = Without(pending, i)
      BY <2>2 DEF HandOver
    <3> QED BY <3>1, <3>2, <1>2 DEF TypeOK
  <2> QED BY <2>1, <2>2
<1> QED BY <1>3, <1>4, <1>5

LEMMA HandedOverQueues ==
  ASSUME TypeOK, QueuesHold, NEW c \in Clients, NEW i \in DOMAIN Deque(c), HandOver(c, i),
         UNCHANGED <<received, contexts>>
  PROVE  /\ QueuesHold'
         /\ \A d \in Clients : d # c /\ (d \in contexts \/ c \in contexts) => Deque(d)' = Deque(d)
<1>1. CASE c \in contexts
  <2>1. Deque(c) = queue[c] /\ c \in Streams
    BY <1>1 DEF Deque, TypeOK
  <2>2. queue' = [queue EXCEPT ![c] = Without(queue[c], i)] /\ pending' = pending
    BY <1>1 DEF HandOver
  <2>3. /\ queue'[c] = Without(queue[c], i)
        /\ \A s \in Streams : s # c => queue'[s] = queue[s]
    BY <2>1, <2>2 DEF TypeOK
  <2>4. \A j \in DOMAIN queue'[c] : /\ Shift(i, j) \in DOMAIN queue[c]
                                    /\ queue'[c][j] = queue[c][Shift(i, j)]
    <3>1. queue[c] \in Seq(Nat) /\ i \in DOMAIN queue[c]
      BY <2>1 DEF TypeOK
    <3> QED BY <2>3, <3>1, WithoutSeq
  <2>5. QueuesHold'
    BY <2>1, <2>2, <2>3, <2>4 DEF QueuesHold, Cmd
  <2>6. \A d \in Clients : d # c => Deque(d)' = Deque(d)
    BY <2>2, <2>3 DEF Deque, TypeOK
  <2> QED BY <2>5, <2>6
<1>2. CASE c \notin contexts
  <2>1. Deque(c) = pending
    BY <1>2 DEF Deque
  <2>2. queue' = queue /\ pending' = Without(pending, i)
    BY <1>2 DEF HandOver
  <2>3. \A j \in DOMAIN pending' : /\ Shift(i, j) \in DOMAIN pending
                                   /\ pending'[j] = pending[Shift(i, j)]
    <3>1. pending \in Seq(Nat) /\ i \in DOMAIN pending
      BY <2>1 DEF TypeOK
    <3> QED BY <2>2, <3>1, WithoutSeq
  <2>4. QueuesHold'
    BY <2>2, <2>3 DEF QueuesHold, Cmd
  <2>5. \A d \in Clients : d \in contexts => Deque(d)' = Deque(d)
    BY <2>2 DEF Deque
  <2> QED BY <1>2, <2>4, <2>5
<1> QED BY <1>1, <1>2

LEMMA HandedOverRight ==
  ASSUME TypeOK, QueuesHold, GivenRight, NEW c \in Clients, c # 0 => c \in contexts,
         NEW cmds \in SUBSET Wanted(c), NEW i \in FirstMatch(cmds, Deque(c)),
         HandOver(c, i), received' = received
  PROVE  GivenRight'
<1>1. i \in DOMAIN Deque(c) /\ Cmd(Deque(c)[i]) \in Wanted(c)
  BY DEF FirstMatch
<1>2. PICK n \in Nat : n = Deque(c)[i]
  BY <1>1, DequeType
<1>3. n \in DOMAIN received /\ (c # 0 => received[n].arg1 = c) /\ Cmd(n) \in Wanted(c)
  BY <1>1, <1>2, DequeHolds
<1>4. given' = [given EXCEPT ![c] = Append(given[c], n)]
  BY <1>2 DEF HandOver
<1>5. /\ given'[c] = Append(given[c], n)
      /\ \A d \in Clients : d # c => given'[d] = given[d]
  BY <1>4 DEF TypeOK
<1>6. \A j \in DOMAIN given'[c] : \/ j \in DOMAIN given[c] /\ given'[c][j] = given[c][j]
                                  \/ given'[c][j] = n
  <2>1. given[c] \in Seq(Nat)
    BY DEF TypeOK
  <2>2. \A j \in DOMAIN Append(given[c], n) :
          \/ j \in DOMAIN given[c] /\ Append(given[c], n)[j] = given[c][j]
          \/ Append(given[c], n)[j] = n
    BY <2>1, Enqueued
  <2>3. given'[c] = Append(given[c], n)
    BY <1>5
  <2> QED BY <2>2, <2>3
<1> QED BY <1>3, <1>5, <1>6 DEF GivenRight, Cmd, Wanted

-----------------------------------------------------------------------------
\* A client waits

LEMMA StillUnmatched ==
  ASSUME TypeOK, QueuesHold, Walked, NEW d \in Clients, NEW j, NEW k \in DOMAIN waiters[d],
         waiters'[d][j] = waiters[d][k], Fresh(d, k), Passed(d, k), Deque(d)' = Deque(d),
         \A n \in DOMAIN received : received'[n] = received[n]
  PROVE  FirstMatch(waiters[d][j].cmds, Deque(d))' = {}
<1>1. PICK q : q = Deque(d)
  OBVIOUS
<1>2. PICK w : w = waiters[d][k].cmds
  OBVIOUS
<1>3. FirstMatch(w, q) = {}
  BY <1>1, <1>2 DEF Walked
<1>4. \A i \in DOMAIN q : Cmd(q[i])' = Cmd(q[i])
  BY <1>1, DequeHolds DEF Cmd
<1>5. FirstMatch(w, q)' = {}
  BY <1>3, <1>4 DEF FirstMatch
<1>6. Deque(d)' = q /\ waiters'[d][j].cmds = w
  BY <1>1, <1>2
<1> QED BY <1>5, <1>6 DEF FirstMatch

LEMMA WaiterAdded ==
  ASSUME TypeOK, OneFresh, WaitSets, NEW c \in Clients, status[c] # "waiting",
         NEW cmds \in SUBSET Wanted(c), AddWaiter(c, cmds)
  PROVE  /\ waiters' \in [Clients -> Seq(Waiter)] /\ status' \in [Clients -> Status]
         /\ status' = [status EXCEPT ![c] = "waiting"] /\ listed' = listed \cup {c}
         /\ OneFresh' /\ WaitSets'
         /\ \A d \in Clients : \A j \in DOMAIN waiters'[d] :
              \/ j \in DOMAIN waiters[d] /\ waiters'[d][j] = waiters[d][j]
              \/ d = c /\ waiters'[d][j].cmds = cmds
         /\ \A j \in DOMAIN waiters[c] : ~Fresh(c, j)
<1>1. PICK w : w = [cmds |-> cmds, late |-> FALSE]
  OBVIOUS
<1>2. w \in Waiter /\ w.cmds = cmds /\ w.late = FALSE
  BY <1>1 DEF Waiter, Wanted
<1>3. waiters' = [waiters EXCEPT ![c] = Append(waiters[c], w)]
  BY <1>1 DEF AddWaiter
<1>4. waiters[c] \in Seq(Waiter)
  BY DEF TypeOK
<1>5. /\ waiters'[c] = Append(waiters[c], w)
      /\ \A d \in Clients : d # c => waiters'[d] = waiters[d]
  BY <1>3 DEF TypeOK
<1>6. Len(waiters[c]) \in Nat /\ DOMAIN waiters[c] = 1 .. Len(waiters[c])
  BY <1>4
<1>7. /\ waiters'[c] \in Seq(Waiter)
      /\ DOMAIN waiters'[c] = 1 .. Len(waiters[c]) + 1
      /\ waiters'[c][Len(waiters[c]) + 1] = w
      /\ \A j \in 1 .. Len(waiters[c]) : waiters'[c][j] = waiters[c][j]
  BY <1>2, <1>4, <1>5, AppendSeq
<1>8. \A j \in DOMAIN waiters'[c] :
        \/ j \in DOMAIN waiters[c] /\ waiters'[c][j] = waiters[c][j]
        \/ j = Len(waiters[c]) + 1 /\ waiters'[c][j] = w
  BY <1>6, <1>7
<1>9. \A j \in DOMAIN waiters[c] : ~Fresh(c, j)
  BY DEF OneFresh
<1>10. waiters' \in [Clients -> Seq(Waiter)] /\ status' \in [Clients -> Status]
  <2>1. waiters' \in [Clients -> Seq(Waiter)]
    BY <1>3, <1>5, <1>7 DEF TypeOK
  <2>2. status' \in [Clients -> Status]
    BY DEF AddWaiter, TypeOK, Status
  <2> QED BY <2>1, <2>2
<1>11. status' = [status EXCEPT ![c] = "waiting"] /\ listed' = listed \cup {c}
  BY DEF AddWaiter
<1>12. /\ status'[c] = "waiting"
       /\ \A d \in Clients : d # c => status'[d] = status[d]
  BY <1>11 DEF TypeOK
<1>13. \A d \in Clients : \A j \in DOMAIN waiters'[d] :
         \/ j \in DOMAIN waiters[d] /\ waiters'[d][j] = waiters[d][j]
         \/ d = c /\ waiters'[d][j].cmds = cmds
  BY <1>2, <1>5, <1>8
<1>14. OneFresh'
  <2> SUFFICES ASSUME NEW d \in Clients, NEW i \in DOMAIN waiters'[d], Fresh(d, i)'
               PROVE  /\ status'[d] = "waiting"
                      /\ \A j \in DOMAIN waiters'[d] : Fresh(d, j)' => i = j
    BY DEF OneFresh
  <2>1. CASE d = c
    <3>1. \A j \in DOMAIN waiters'[c] : Fresh(c, j)' => j = Len(waiters[c]) + 1
      BY <1>8, <1>9 DEF Fresh
    <3> QED BY <2>1, <3>1, <1>12
  <2>2. CASE d # c
    BY <2>2, <1>5, <1>12 DEF OneFresh, Fresh
  <2> QED BY <2>1, <2>2
<1>15. WaitSets'
  BY <1>13 DEF WaitSets, Wanted
<1> QED BY <1>9, <1>10, <1>11, <1>13, <1>14, <1>15

\* The queues with their frame are as Walked needs them.
LEMMA WaitedOn ==
  ASSUME IInv, NEW c \in Clients, c # 0 => c \in contexts,
         status[c] \notin {"waiting", "unborn", "done"}, c # 0 => status[c] # "starting",
         NEW cmds \in SUBSET Wanted(c), CoWait(c, cmds),
         UNCHANGED <<received, contexts, loopVars>>
  PROVE  IInv'
<1> USE DEF IInv
<1>0. \A d \in Clients : \A j \in DOMAIN waiters[d] : Passed(d, j)' <=> Passed(d, j)
  BY DEF Passed, loopVars
<1>1. CASE /\ \E i \in FirstMatch(cmds, Deque(c)) : HandOver(c, i)
           /\ UNCHANGED <<waiters, listed>>
  <2>1. PICK i \in FirstMatch(cmds, Deque(c)) : HandOver(c, i)
    BY <1>1
  <2>2. i \in DOMAIN Deque(c)
    BY DEF FirstMatch
  <2>3. /\ queue' \in [Streams -> Seq(Nat)] /\ pending' \in Seq(Nat)
        /\ given' \in [Clients -> Seq(Nat)] /\ status' \in [Clients -> Status]
    BY <2>1, <2>2, HandedOverTypes
  <2>4. /\ QueuesHold'
        /\ \A d \in Clients : d # c /\ (d \in contexts \/ c \in contexts) => Deque(d)' = Deque(d)
    BY <2>1, <2>2, HandedOverQueues
  <2>5. GivenRight'
    BY <2>1, HandedOverRight
  <2>6. status' = [status EXCEPT ![c] = "running"]
    BY <2>1 DEF HandOver
  <2>7. /\ status'[c] = "running"
        /\ \A d \in Clients : d # c => status'[d] = status[d]
    BY <2>6 DEF TypeOK
  <2>8. TypeOK'
    BY <1>1, <2>3 DEF TypeOK, loopVars
  <2>9. ContextsListed' /\ WaitSets'
    BY <1>1 DEF ContextsListed, WaitSets, loopVars, Wanted
  <2>10. StreamStatus'
    BY <2>7, Zero DEF StreamStatus
  <2>11. \A j \in DOMAIN waiters[c] : ~Fresh(c, j)
    BY DEF OneFresh
  <2>12. OneFresh'
    BY <1>1, <2>7, <2>11 DEF OneFresh, Fresh
  <2>13. Walked'
    <3> SUFFICES ASSUME NEW d \in Clients, NEW j \in DOMAIN waiters[d], Fresh(d, j), Passed(d, j)
                 PROVE  FirstMatch(waiters[d][j].cmds, Deque(d))' = {}
      BY <1>0, <1>1 DEF Walked, Fresh
    <3>1. d # c /\ status[d] = "waiting"
      BY <2>11 DEF OneFresh
    <3>2. d \in contexts \/ c \in contexts
      BY <3>1, Zero DEF StreamStatus
    <3>3. Deque(d)' = Deque(d)
      BY <2>4, <3>1, <3>2
    <3> QED BY <1>1, <3>3, StillUnmatched
  <2> QED BY <2>4, <2>5, <2>8, <2>9, <2>10, <2>12, <2>13
<1>2. CASE /\ FirstMatch(cmds, Deque(c)) = {}
           /\ AddWaiter(c, cmds)
           /\ UNCHANGED <<given, queue, pending>>
  <2>1. /\ waiters' \in [Clients -> Seq(Waiter)] /\ status' \in [Clients -> Status]
        /\ status' = [status EXCEPT ![c] = "waiting"] /\ listed' = listed \cup {c}
        /\ OneFresh' /\ WaitSets'
        /\ \A d \in Clients : \A j \in DOMAIN waiters'[d] :
             \/ j \in DOMAIN waiters[d] /\ waiters'[d][j] = waiters[d][j]
             \/ d = c /\ waiters'[d][j].cmds = cmds
    BY <1>2, WaiterAdded
  <2>2. /\ status'[c] = "waiting"
        /\ \A d \in Clients : d # c => status'[d] = status[d]
    BY <2>1 DEF TypeOK
  <2>3. TypeOK'
    BY <1>2, <2>1 DEF TypeOK, loopVars
  <2>4. ContextsListed'
    BY <2>1 DEF ContextsListed, loopVars
  <2>5. StreamStatus'
    BY <2>2, Zero DEF StreamStatus
  <2>6. QueuesHold' /\ GivenRight'
    BY <1>2 DEF QueuesHold, GivenRight, Cmd, Wanted
  <2>7. Walked'
    <3> SUFFICES ASSUME NEW d \in Clients, NEW j \in DOMAIN waiters'[d], Fresh(d, j)', Passed(d, j)'
                 PROVE  FirstMatch(waiters[d][j].cmds, Deque(d))' = {}
      BY DEF Walked
    <3>1. Deque(d)' = Deque(d)
      BY <1>2 DEF Deque
    <3>2. CASE j \in DOMAIN waiters[d] /\ waiters'[d][j] = waiters[d][j]
      <4>1. Fresh(d, j) /\ Passed(d, j)
        BY <1>0, <3>2 DEF Fresh
      <4> QED BY <3>1, <3>2, <4>1, StillUnmatched
    <3>3. CASE d = c /\ waiters'[d][j].cmds = cmds
      BY <1>2, <3>1, <3>3 DEF FirstMatch, Cmd
    <3> QED BY <2>1, <3>2, <3>3
  <2> QED BY <2>1, <2>3, <2>4, <2>5, <2>6, <2>7
<1> QED BY <1>1, <1>2 DEF CoWait

-----------------------------------------------------------------------------
\* Steps of a client alone

\* A client that is not waiting goes from one status to another.
LEMMA StatusOnly ==
  ASSUME IInv, NEW c \in Clients, status[c] # "waiting", NEW v \in Status \ {"waiting"},
         c # 0 => v # "starting" /\ (c \in contexts \/ v = "done"),
         status' = [status EXCEPT ![c] = v], UNCHANGED <<sessionVars, loopVars, given>>
  PROVE  IInv'
<1> USE DEF IInv, sessionVars, loopVars
<1>1. /\ status'[c] = v
      /\ \A d \in Clients : d # c => status'[d] = status[d]
  BY DEF TypeOK
<1>2. TypeOK'
  BY DEF TypeOK
<1>3. ContextsListed' /\ WaitSets' /\ QueuesHold' /\ GivenRight'
  BY DEF ContextsListed, WaitSets, QueuesHold, GivenRight, Cmd, Wanted
<1>4. StreamStatus'
  BY <1>1, Zero DEF StreamStatus
<1>5. OneFresh'
  BY <1>1 DEF OneFresh, Fresh
<1>6. Walked'
  BY DEF Walked, Fresh, Passed, FirstMatch, Deque, Cmd
<1> QED BY <1>2, <1>3, <1>4, <1>5, <1>6

\* The clock passes the deadline of c.
LEMMA Expired == ASSUME IInv, NEW c \in Clients, Expire(c) PROVE IInv'
<1> USE DEF IInv, loopVars
<1>1. UNCHANGED <<received, contexts, queue, pending, listed, loopVars, given>>
  BY DEF Expire
<1>2. PICK w \in Seq(Waiter) : w = waiters[c]
  BY DEF TypeOK
<1>3. waiters' = [waiters EXCEPT ![c] = [i \in DOMAIN w |-> [cmds |-> w[i].cmds, late |-> TRUE]]]
  BY <1>2 DEF Expire
<1>4. \A i \in DOMAIN w : [cmds |-> w[i].cmds, late |-> TRUE] \in Waiter
  <2>1. \A i \in DOMAIN w : w[i] \in Waiter
    OBVIOUS
  <2>2. \A x \in Waiter : x.cmds \in SUBSET (Control \cup Data)
    BY DEF Waiter
  <2>3. \A C \in SUBSET (Control \cup Data) : [cmds |-> C, late |-> TRUE] \in Waiter
    BY DEF Waiter
  <2> QED BY <2>1, <2>2, <2>3
<1>5. [i \in DOMAIN w |-> [cmds |-> w[i].cmds, late |-> TRUE]] \in Seq(Waiter)
  <2>1. DOMAIN w = 1 .. Len(w) /\ Len(w) \in Nat
    OBVIOUS
  <2> QED BY <1>4, <2>1
<1>6. /\ waiters'[c] = [i \in DOMAIN w |-> [cmds |-> w[i].cmds, late |-> TRUE]]
      /\ \A d \in Clients : d # c => waiters'[d] = waiters[d]
  BY <1>3 DEF TypeOK
<1>7. \A i \in DOMAIN waiters'[c] : /\ i \in DOMAIN waiters[c]
                                    /\ waiters'[c][i].cmds = waiters[c][i].cmds
                                    /\ waiters'[c][i].late
  BY <1>2, <1>4, <1>6
<1>8. /\ status'[c] = "overdue" /\ status[c] = "waiting"
      /\ \A d \in Clients : d # c => status'[d] = status[d]
  BY DEF Expire, TypeOK
<1>9. TypeOK'
  <2>1. waiters' \in [Clients -> Seq(Waiter)]
    BY <1>3, <1>5 DEF TypeOK
  <2>2. status' \in [Clients -> Status]
    BY DEF Expire, TypeOK, Status
  <2> QED BY <1>1, <2>1, <2>2 DEF TypeOK
<1>10. ContextsListed' /\ QueuesHold' /\ GivenRight'
  BY <1>1 DEF ContextsListed, QueuesHold, GivenRight, Cmd, Wanted
<1>11. WaitSets'
  BY <1>6, <1>7 DEF WaitSets, Wanted
<1>12. StreamStatus'
  BY <1>1, <1>8, Zero DEF StreamStatus
<1>13. OneFresh'
  BY <1>6, <1>7, <1>8 DEF OneFresh, Fresh
<1>14. Walked'
  <2> SUFFICES ASSUME NEW d \in Clients, NEW j \in DOMAIN waiters'[d], Fresh(d, j)', Passed(d, j)'
               PROVE  FirstMatch(waiters[d][j].cmds, Deque(d))' = {}
    BY DEF Walked
  <2>1. d # c
    BY <1>7 DEF Fresh
  <2>2. /\ j \in DOMAIN waiters[d] /\ waiters'[d][j] = waiters[d][j]
        /\ Fresh(d, j) /\ Passed(d, j) /\ Deque(d)' = Deque(d)
    BY <1>1, <1>6, <2>1 DEF Fresh, Passed, Deque
  <2> QED BY <1>1, <2>2, StillUnmatched
<1> QED BY <1>9, <1>10, <1>11, <1>12, <1>13, <1>14

\* A handler starts on a new context.
LEMMA Opened == ASSUME IInv, NEW s \in Streams, Open(s) PROVE IInv'
<1> USE DEF IInv, loopVars
<1>1. /\ contexts' = contexts \cup {s} /\ queue' = [queue EXCEPT ![s] = <<>>]
      /\ UNCHANGED <<received, pending, given, loopVars>> /\ status[s] = "unborn"
  BY DEF Open
<1>2. PICK cmds \in DataWaits : AddWaiter(s, cmds)
  BY DEF Open
<1>3. cmds \in SUBSET Wanted(s) /\ s \in Clients
  BY WaitsAssumption, Zero DEF Wanted
<1>4. /\ waiters' \in [Clients -> Seq(Waiter)] /\ status' \in [Clients -> Status]
      /\ status' = [status EXCEPT ![s] = "waiting"] /\ listed' = listed \cup {s}
      /\ OneFresh' /\ WaitSets'
      /\ \A d \in Clients : \A j \in DOMAIN waiters'[d] :
           \/ j \in DOMAIN waiters[d] /\ waiters'[d][j] = waiters[d][j]
           \/ d = s /\ waiters'[d][j].cmds = cmds
      /\ \A j \in DOMAIN waiters[s] : ~Fresh(s, j)
  BY <1>1, <1>2, <1>3, WaiterAdded
<1>5. /\ queue'[s] = <<>>
      /\ \A t \in Streams : t # s => queue'[t] = queue[t]
  BY <1>1 DEF TypeOK
<1>6. TypeOK'
  <2>1. queue' \in [Streams -> Seq(Nat)]
    BY <1>1, EmptySeq DEF TypeOK
  <2>2. listed' \in SUBSET Clients /\ contexts' \in SUBSET Streams
    BY <1>1, <1>3, <1>4 DEF TypeOK
  <2> QED BY <1>1, <1>4, <2>1, <2>2 DEF TypeOK
<1>7. ContextsListed'
  BY <1>1, <1>4 DEF ContextsListed
<1>8. StreamStatus'
  <2>1. /\ status'[s] = "waiting"
        /\ \A d \in Clients : d # s => status'[d] = status[d]
    BY <1>3, <1>4 DEF TypeOK
  <2> QED BY <1>1, <2>1, Zero DEF StreamStatus
<1>9. QueuesHold'
  BY <1>1, <1>5, EmptySeq DEF QueuesHold, Cmd
<1>10. GivenRight'
  BY <1>1 DEF GivenRight, Cmd, Wanted
<1>11. Walked'
  <2> SUFFICES ASSUME NEW d \in Clients, NEW j \in DOMAIN waiters'[d], Fresh(d, j)', Passed(d, j)'
               PROVE  FirstMatch(waiters[d][j].cmds, Deque(d))' = {}
    BY DEF Walked
  <2>1. CASE d = s
    <3>1. Deque(d)' = <<>>
      BY <1>1, <1>5, <2>1 DEF Deque
    <3> QED BY <3>1, EmptySeq DEF FirstMatch
  <2>2. CASE d # s
    <3>1. j \in DOMAIN waiters[d] /\ waiters'[d][j] = waiters[d][j]
      BY <1>4, <2>2
    <3>2. Deque(d)' = Deque(d)
      BY <1>1, <1>5, <2>2 DEF Deque, TypeOK
    <3>3. Fresh(d, j) /\ Passed(d, j)
      BY <1>1, <3>1 DEF Fresh, Passed
    <3> QED BY <1>1, <3>1, <3>2, <3>3, StillUnmatched
  <2> QED BY <2>1, <2>2
<1> QED BY <1>4, <1>6, <1>7, <1>8, <1>9, <1>10, <1>11

\* The context of a stream nobody waits on is removed.
LEMMA Removed == ASSUME IInv, NEW s \in Streams, Remove(s) PROVE IInv'
<1> USE DEF IInv, loopVars
<1>1. /\ contexts' = contexts \ {s} /\ queue' = [queue EXCEPT ![s] = <<>>]
      /\ status' = [status EXCEPT ![s] = "done"] /\ status[s] = "timedout"
      /\ UNCHANGED <<received, pending, waiters, listed, given, loopVars>>
  BY DEF Remove
<1>2. /\ status'[s] = "done"
      /\ \A d \in Clients : d # s => status'[d] = status[d]
  BY <1>1, Zero DEF TypeOK
<1>3. /\ queue'[s] = <<>>
      /\ \A t \in Streams : t # s => queue'[t] = queue[t]
  BY <1>1 DEF TypeOK
<1>4. TypeOK'
  <2>1. queue' \in [Streams -> Seq(Nat)]
    BY <1>1, EmptySeq DEF TypeOK
  <2>2. status' \in [Clients -> Status]
    BY <1>1 DEF TypeOK, Status
  <2> QED BY <1>1, <2>1, <2>2 DEF TypeOK
<1>5. ContextsListed' /\ WaitSets' /\ GivenRight'
  BY <1>1 DEF ContextsListed, WaitSets, GivenRight, Cmd, Wanted
<1>6. StreamStatus'
  BY <1>1, <1>2, Zero DEF StreamStatus
<1>7. QueuesHold'
  BY <1>1, <1>3, EmptySeq DEF QueuesHold, Cmd
<1>8. \A j \in DOMAIN waiters[s] : ~Fresh(s, j)
  BY <1>1, Zero DEF OneFresh
<1>9. OneFresh'
  BY <1>1, <1>2, <1>8 DEF OneFresh, Fresh
<1>10. Walked'
  <2> SUFFICES ASSUME NEW d \in Clients, NEW j \in DOMAIN waiters[d], Fresh(d, j), Passed(d, j)
               PROVE  FirstMatch(waiters[d][j].cmds, Deque(d))' = {}
    BY <1>1 DEF Walked, Fresh, Passed
  <2>1. d # s
    BY <1>8
  <2>2. Deque(d)' = Deque(d)
    BY <1>1, <1>3, <2>1 DEF Deque, TypeOK
  <2> QED BY <1>1, <2>2, StillUnmatched
<1> QED BY <1>4, <1>5, <1>6, <1>7, <1>9, <1>10

-----------------------------------------------------------------------------
\* A message arrives

LEMMA MessageReceived ==
  ASSUME TypeOK, NEW m \in FromDevice, received' = Append(received, m)
  PROVE  /\ m \in Message /\ received' \in Seq(Message)
         /\ Len(received) + 1 \in Nat /\ Len(received) + 1 \in DOMAIN received'
         /\ received'[Len(received) + 1] = m
         /\ \A n \in DOMAIN received : n \in DOMAIN received' /\ received'[n] = received[n]
         /\ ~ToDefault(m) => m.cmd \in Data /\ m.arg1 \in Streams
<1>1. received \in Seq(Message)
  BY DEF TypeOK
<1>2. m \in Message
  <2>1. Control \subseteq Control \cup Data /\ Connect \in Control /\ DeviceMaxData \in Nat /\ 0 \in Nat
    BY CommandsAssumption, MessagesAssumption
  <2>2. {s \in Streams : status[s] # "unborn"} \subseteq Nat
    BY StreamsAssumption
  <2>3. CASE m \in [cmd : Control \ {Connect}, arg1 : {0}]
    BY <2>1, <2>3 DEF Message
  <2>4. CASE m \in [cmd : {Connect}, arg1 : {DeviceMaxData}]
    BY <2>1, <2>4 DEF Message
  <2>5. CASE m \in [cmd : Data, arg1 : {s \in Streams : status[s] # "unborn"}]
    BY <2>2, <2>5 DEF Message
  <2> QED BY <2>3, <2>4, <2>5 DEF FromDevice
<1>3. Len(received) \in Nat /\ DOMAIN received = 1 .. Len(received)
  BY <1>1
<1>4. /\ received' \in Seq(Message)
      /\ DOMAIN received' = 1 .. Len(received) + 1
      /\ received'[Len(received) + 1] = m
      /\ \A j \in 1 .. Len(received) : received'[j] = received[j]
  BY <1>1, <1>2, AppendSeq
<1>5. ~ToDefault(m) => m.cmd \in Data /\ m.arg1 \in Streams
  BY DEF ToDefault, FromDevice
<1> QED BY <1>2, <1>3, <1>4, <1>5

\* What a longer list of messages leaves as it is.
LEMMA Remembered ==
  ASSUME IInv, \A n \in DOMAIN received : n \in DOMAIN received' /\ received'[n] = received[n],
         UNCHANGED <<contexts, waiters, status, given>>
  PROVE  StreamStatus' /\ OneFresh' /\ WaitSets' /\ GivenRight'
<1>1. StreamStatus' /\ OneFresh' /\ WaitSets'
  BY DEF IInv, StreamStatus, OneFresh, Fresh, WaitSets, Wanted
<1>2. GivenRight'
  BY DEF IInv, GivenRight, Cmd, Wanted
<1> QED BY <1>1, <1>2

\* A message of another kind does not match.
LEMMA OtherKind ==
  ASSUME NEW q \in Seq(Nat), NEW n \in Nat, NEW cmds, FirstMatch(cmds, q) = {},
         \A i \in DOMAIN q : Cmd(q[i])' = Cmd(q[i]), Cmd(n)' \notin cmds
  PROVE  FirstMatch(cmds, Append(q, n))' = {}
<1>1. /\ \A j \in DOMAIN Append(q, n) : \/ j \in DOMAIN q /\ Append(q, n)[j] = q[j]
                                        \/ Append(q, n)[j] = n
      /\ \A j \in DOMAIN q : j \in DOMAIN Append(q, n) /\ Append(q, n)[j] = q[j]
  BY Enqueued
<1>2. PICK r : r = Append(q, n)
  OBVIOUS
<1>3. FirstMatch(cmds, r)' \subseteq FirstMatch(cmds, q)
  BY <1>1, <1>2 DEF FirstMatch
<1> QED BY <1>2, <1>3 DEF FirstMatch

LEMMA Received ==
  ASSUME IInv, NEW m \in FromDevice, received' = Append(received, m), loop = "reading",
         ReceiveDefault(m) \/ ReceiveKnown(m) \/ ReceiveUnknown(m),
         UNCHANGED <<contexts, waiters, status, given>>
  PROVE  IInv'
<1> USE DEF IInv
<1> DEFINE n == Len(received) + 1
<1>1. /\ m \in Message /\ received' \in Seq(Message) /\ n \in Nat /\ n \in DOMAIN received'
      /\ received'[n] = m
      /\ \A k \in DOMAIN received : k \in DOMAIN received' /\ received'[k] = received[k]
      /\ ~ToDefault(m) => m.cmd \in Data /\ m.arg1 \in Streams
  BY MessageReceived
<1> HIDE DEF n
<1>2. StreamStatus' /\ OneFresh' /\ WaitSets' /\ GivenRight'
  BY <1>1, Remembered
<1>3. \A d \in Clients : \A j \in DOMAIN waiters[d] :
        Fresh(d, j) => d = 0 \/ d \in contexts
  BY Zero DEF OneFresh, StreamStatus
<1>4. 0 \notin contexts
  BY Zero DEF TypeOK
<1>5. ASSUME NEW c \in Clients, loop' = "scanning", scanned' = c, cursor' = 1, callback' = callback,
             \A d \in Clients : d # c /\ (d = 0 \/ d \in contexts) => Deque(d)' = Deque(d)
      PROVE  Walked'
  <2> SUFFICES ASSUME NEW d \in Clients, NEW j \in DOMAIN waiters[d], Fresh(d, j), Passed(d, j)'
               PROVE  FirstMatch(waiters[d][j].cmds, Deque(d))' = {}
    BY DEF Walked, Fresh
  <2>1. d # c
    <3>1. waiters[d] \in Seq(Waiter)
      BY DEF TypeOK
    <3>2. j \in Nat /\ ~(j < 1)
      BY <3>1
    <3> QED BY <1>5, <3>2 DEF Passed
  <2>2. Deque(d)' = Deque(d)
    BY <1>3, <1>5, <2>1
  <2>3. Passed(d, j)
    BY DEF Passed
  <2> QED BY <1>1, <2>2, <2>3, StillUnmatched
<1>6. CASE ReceiveDefault(m)
  <2>1. /\ pending' = Append(pending, n) /\ queue' = queue /\ listed' = listed \cup {0}
        /\ loop' = "scanning" /\ scanned' = 0 /\ cursor' = 1 /\ callback' = callback
    BY <1>6 DEF ReceiveDefault, Scan, n
  <2>2. pending \in Seq(Nat)
    BY DEF TypeOK
  <2>3. /\ pending' \in Seq(Nat)
        /\ \A j \in DOMAIN pending' : \/ j \in DOMAIN pending /\ pending'[j] = pending[j]
                                      \/ pending'[j] = n
    BY <1>1, <2>1, <2>2, Enqueued
  <2>4. TypeOK'
    BY <1>1, <2>1, <2>3, Zero DEF TypeOK
  <2>5. ContextsListed'
    BY <2>1 DEF ContextsListed
  <2>6. QueuesHold'
    BY <1>1, <2>1, <2>3 DEF QueuesHold, Cmd
  <2>7. \A d \in Clients : d # 0 /\ (d = 0 \/ d \in contexts) => Deque(d)' = Deque(d)
    BY <2>1 DEF Deque
  <2>8. Walked'
    BY <1>5, <2>1, <2>7, Zero
  <2> QED BY <1>2, <2>4, <2>5, <2>6, <2>8
<1>7. CASE ReceiveKnown(m)
  <2>1. PICK c \in Streams : c = m.arg1 /\ c \in contexts
    BY <1>1, <1>7 DEF ReceiveKnown
  <2>2. c \in listed /\ c \in Clients
    BY <2>1, Zero DEF ContextsListed
  <2>3. /\ queue' = [queue EXCEPT ![c] = Append(queue[c], n)]
        /\ pending' = pending /\ listed' = listed
        /\ loop' = "scanning" /\ scanned' = c /\ cursor' = 1 /\ callback' = callback
    BY <1>7, <2>1, <2>2 DEF ReceiveKnown, Scan, n
  <2>4. /\ queue'[c] = Append(queue[c], n) /\ queue[c] \in Seq(Nat)
        /\ \A s \in Streams : s # c => queue'[s] = queue[s]
    BY <2>3 DEF TypeOK
  <2>5. /\ queue'[c] \in Seq(Nat)
        /\ \A j \in DOMAIN queue'[c] : \/ j \in DOMAIN queue[c] /\ queue'[c][j] = queue[c][j]
                                       \/ queue'[c][j] = n
    BY <1>1, <2>4, Enqueued
  <2>6. TypeOK'
    <3>1. queue' \in [Streams -> Seq(Nat)]
      BY <2>3, <2>4, <2>5 DEF TypeOK
    <3> QED BY <1>1, <2>2, <2>3, <3>1 DEF TypeOK
  <2>7. ContextsListed'
    BY <2>3 DEF ContextsListed
  <2>8. QueuesHold'
    <3>1. m.cmd \in Data /\ m.arg1 = c
      BY <1>1, <1>7, <2>1 DEF ReceiveKnown
    <3>2. /\ \A s \in Streams : \A i \in DOMAIN queue'[s] :
               /\ queue'[s][i] \in DOMAIN received'
               /\ received'[queue'[s][i]].cmd \in Data /\ received'[queue'[s][i]].arg1 = s
      <4> SUFFICES ASSUME NEW s \in Streams, NEW i \in DOMAIN queue'[s]
                   PROVE  /\ queue'[s][i] \in DOMAIN received'
                          /\ received'[queue'[s][i]].cmd \in Data
                          /\ received'[queue'[s][i]].arg1 = s
        OBVIOUS
      <4>1. CASE i \in DOMAIN queue[s] /\ queue'[s][i] = queue[s][i]
        BY <1>1, <4>1 DEF QueuesHold, Cmd
      <4>2. CASE s = c /\ queue'[s][i] = n
        BY <1>1, <3>1, <4>2
      <4> QED BY <2>4, <2>5, <4>1, <4>2
    <3> QED BY <1>1, <2>3, <3>2 DEF QueuesHold, Cmd
  <2>9. \A d \in Clients : d # c /\ (d = 0 \/ d \in contexts) => Deque(d)' = Deque(d)
    BY <2>3, <2>4 DEF Deque, TypeOK
  <2>10. Walked'
    BY <1>5, <2>2, <2>3, <2>9
  <2> QED BY <1>2, <2>6, <2>7, <2>8, <2>10
<1>8. CASE ReceiveUnknown(m)
  <2>1. /\ pending' = Append(pending, n) /\ UNCHANGED <<queue, listed, loopVars>>
        /\ m.cmd \in Data
    BY <1>1, <1>8 DEF ReceiveUnknown, n
  <2>2. pending \in Seq(Nat)
    BY DEF TypeOK
  <2>3. /\ pending' \in Seq(Nat)
        /\ \A j \in DOMAIN pending' : \/ j \in DOMAIN pending /\ pending'[j] = pending[j]
                                      \/ pending'[j] = n
    BY <1>1, <2>1, <2>2, Enqueued
  <2>4. TypeOK'
    BY <1>1, <2>1, <2>3 DEF TypeOK, loopVars
  <2>5. ContextsListed'
    BY <2>1 DEF ContextsListed, loopVars
  <2>6. QueuesHold'
    BY <1>1, <2>1, <2>3 DEF QueuesHold, Cmd
  <2>7. Walked'
    <3> SUFFICES ASSUME NEW d \in Clients, NEW j \in DOMAIN waiters[d], Fresh(d, j)
                 PROVE  FirstMatch(waiters[d][j].cmds, Deque(d))' = {}
      BY DEF Walked, Fresh
    <3>1. Passed(d, j)
      BY DEF Passed
    <3>2. CASE d \in contexts
      <4>1. Deque(d)' = Deque(d)
        BY <2>1, <3>2 DEF Deque
      <4> QED BY <1>1, <3>1, <4>1, StillUnmatched
    <3>3. CASE d = 0
      <4>1. PICK w : w = waiters[d][j].cmds
        OBVIOUS
      <4>2. Deque(d) = pending /\ Deque(d)' = Append(pending, n)
        BY <1>4, <2>1, <3>3 DEF Deque
      <4>3. FirstMatch(w, pending) = {}
        BY <3>1, <4>1, <4>2 DEF Walked
      <4>4. w \subseteq Control
        BY <3>3, <4>1 DEF WaitSets, Wanted
      <4>5. m.cmd \notin w
        BY <2>1, <4>4, CommandsAssumption
      <4>6. PICK q \in Seq(Nat) : q = pending
        BY <2>2
      <4>7. \A i \in DOMAIN q : Cmd(q[i])' = Cmd(q[i])
        BY <1>1, <4>6 DEF QueuesHold, Cmd
      <4>8. PICK k \in Nat : k = n
        BY <1>1
      <4>9. Cmd(k)' \notin w
        BY <1>1, <4>5, <4>8 DEF Cmd
      <4>10. FirstMatch(w, Append(q, k))' = {}
        BY <4>3, <4>6, <4>7, <4>9, OtherKind
      <4>11. Deque(d)' = Append(q, k) /\ waiters'[d][j].cmds = w
        BY <4>1, <4>2, <4>6, <4>8
      <4> QED BY <4>10, <4>11 DEF FirstMatch
    <3> QED BY <1>3, <3>2, <3>3
  <2> QED BY <1>2, <2>4, <2>5, <2>6, <2>7
<1> QED BY <1>6, <1>7, <1>8

-----------------------------------------------------------------------------
\* checkWaiters

\* Where the waiter at j stood before the current one was erased.
Before(d, j) == IF d = scanned THEN Shift(cursor, j) ELSE j

LEMMA WaiterErased ==
  ASSUME TypeOK, AtWaiter, EraseCurrent
  PROVE  /\ cursor \in DOMAIN waiters[scanned]
         /\ waiters' \in [Clients -> Seq(Waiter)]
         /\ \A d \in Clients : \A j \in DOMAIN waiters'[d] :
              /\ Before(d, j) \in DOMAIN waiters[d]
              /\ waiters'[d][j] = waiters[d][Before(d, j)]
              /\ d = scanned => Before(d, j) # cursor
              /\ \A k \in DOMAIN waiters'[d] : Before(d, j) = Before(d, k) => j = k
              /\ d # scanned \/ j < cursor => Before(d, j) = j
<1>1. waiters[scanned] \in Seq(Waiter) /\ scanned \in Clients /\ cursor \in Nat \ {0}
  BY DEF TypeOK
<1>2. cursor \in DOMAIN waiters[scanned]
  <2>1. cursor <= Len(waiters[scanned])
    BY DEF AtWaiter
  <2>2. DOMAIN waiters[scanned] = 1 .. Len(waiters[scanned]) /\ Len(waiters[scanned]) \in Nat
    BY <1>1
  <2> QED BY <1>1, <2>1, <2>2
<1>3. waiters' = [waiters EXCEPT ![scanned] = Without(waiters[scanned], cursor)]
  BY DEF EraseCurrent
<1>4. /\ waiters'[scanned] = Without(waiters[scanned], cursor)
      /\ \A d \in Clients : d # scanned => waiters'[d] = waiters[d]
  BY <1>1, <1>3 DEF TypeOK
<1>5. /\ waiters'[scanned] \in Seq(Waiter)
      /\ \A j \in DOMAIN waiters'[scanned] :
           /\ Shift(cursor, j) \in DOMAIN waiters[scanned]
           /\ Shift(cursor, j) # cursor
           /\ waiters'[scanned][j] = waiters[scanned][Shift(cursor, j)]
  BY <1>1, <1>2, <1>4, WithoutSeq
<1>6. waiters' \in [Clients -> Seq(Waiter)]
  BY <1>3, <1>4, <1>5 DEF TypeOK
<1>7. \A j, k \in DOMAIN waiters'[scanned] : Shift(cursor, j) = Shift(cursor, k) => j = k
  <2>1. \A j \in DOMAIN waiters'[scanned] : j \in Nat
    BY <1>5
  <2> QED BY <1>1, <2>1, ShiftOne
<1>8. \A j : j < cursor => Shift(cursor, j) = j
  BY DEF Shift
<1> QED BY <1>2, <1>4, <1>5, <1>6, <1>7, <1>8 DEF Before

\* What the erasure keeps, whatever becomes of the erased waiter.
LEMMA ErasedKeeps ==
  ASSUME TypeOK, OneFresh, WaitSets, AtWaiter, EraseCurrent,
         \A d \in Clients : d # scanned \/ Current.late => status'[d] = status[d]
  PROVE  OneFresh' /\ WaitSets'
<1>1. /\ cursor \in DOMAIN waiters[scanned]
      /\ \A d \in Clients : \A j \in DOMAIN waiters'[d] :
              /\ Before(d, j) \in DOMAIN waiters[d]
              /\ waiters'[d][j] = waiters[d][Before(d, j)]
              /\ d = scanned => Before(d, j) # cursor
              /\ \A k \in DOMAIN waiters'[d] : Before(d, j) = Before(d, k) => j = k
  BY WaiterErased
<1>2. WaitSets'
  BY <1>1 DEF WaitSets, Wanted
<1>3. OneFresh'
  <2> SUFFICES ASSUME NEW d \in Clients, NEW i \in DOMAIN waiters'[d], Fresh(d, i)'
               PROVE  /\ status'[d] = "waiting"
                      /\ \A j \in DOMAIN waiters'[d] : Fresh(d, j)' => i = j
    BY DEF OneFresh
  <2>1. /\ Before(d, i) \in DOMAIN waiters[d] /\ Fresh(d, Before(d, i))
        /\ d = scanned => Before(d, i) # cursor
    BY <1>1 DEF Fresh
  <2>2. /\ status[d] = "waiting"
        /\ \A k \in DOMAIN waiters[d] : Fresh(d, k) => Before(d, i) = k
    BY <2>1 DEF OneFresh
  <2>3. d = scanned => Current.late
    BY <1>1, <2>1, <2>2 DEF Current, Fresh
  <2>4. status'[d] = "waiting"
    BY <2>2, <2>3
  <2>5. \A j \in DOMAIN waiters'[d] : Fresh(d, j)' => i = j
    <3> SUFFICES ASSUME NEW j \in DOMAIN waiters'[d], Fresh(d, j)' PROVE i = j
      OBVIOUS
    <3>1. Before(d, j) \in DOMAIN waiters[d] /\ Fresh(d, Before(d, j))
      BY <1>1 DEF Fresh
    <3>2. Before(d, i) = Before(d, j)
      BY <2>2, <3>1
    <3> QED BY <1>1, <3>2
  <2> QED BY <2>4, <2>5
<1> QED BY <1>2, <1>3

LEMMA ExpiredErased == ASSUME IInv, CheckExpired PROVE IInv'
<1> USE DEF IInv
<1>1. /\ AtWaiter /\ Current.late /\ EraseCurrent /\ callback' = {}
      /\ UNCHANGED <<received, contexts, queue, pending, listed, loop, scanned, cursor, status, given>>
  BY DEF CheckExpired
<1>2. /\ waiters' \in [Clients -> Seq(Waiter)]
      /\ \A d \in Clients : \A j \in DOMAIN waiters'[d] :
              /\ Before(d, j) \in DOMAIN waiters[d]
              /\ waiters'[d][j] = waiters[d][Before(d, j)]
              /\ d # scanned \/ j < cursor => Before(d, j) = j
  BY <1>1, WaiterErased
<1>3. TypeOK'
  BY <1>1, <1>2 DEF TypeOK
<1>4. OneFresh' /\ WaitSets'
  BY <1>1, ErasedKeeps
<1>5. ContextsListed' /\ StreamStatus' /\ QueuesHold' /\ GivenRight'
  BY <1>1 DEF ContextsListed, StreamStatus, QueuesHold, GivenRight, Cmd, Wanted
<1>6. Walked'
  <2> SUFFICES ASSUME NEW d \in Clients, NEW j \in DOMAIN waiters'[d], Fresh(d, j)', Passed(d, j)'
               PROVE  FirstMatch(waiters[d][j].cmds, Deque(d))' = {}
    BY DEF Walked
  <2>1. d # scanned \/ j < cursor
    BY <1>1 DEF Passed, AtWaiter
  <2>2. j \in DOMAIN waiters[d] /\ waiters'[d][j] = waiters[d][j]
    BY <1>2, <2>1
  <2>3. Fresh(d, j) /\ Passed(d, j) /\ Deque(d)' = Deque(d)
    BY <1>1, <2>1, <2>2 DEF Fresh, Passed, Deque
  <2> QED BY <1>1, <2>2, <2>3, StillUnmatched
<1> QED BY <1>3, <1>4, <1>5, <1>6

LEMMA Matched == ASSUME IInv, CheckMatch PROVE IInv'
<1> USE DEF IInv
<1>1. /\ AtWaiter /\ ~Current.late /\ EraseCurrent /\ callback' = {scanned}
      /\ UNCHANGED <<received, contexts, listed, loop, scanned, cursor>>
  BY DEF CheckMatch
<1>2. PICK c \in Clients : c = scanned
  BY DEF TypeOK
<1>3. PICK cmds : cmds = Current.cmds
  OBVIOUS
<1>4. PICK i \in FirstMatch(cmds, Deque(c)) : HandOver(c, i)
  BY <1>2, <1>3 DEF CheckMatch
<1>5. i \in DOMAIN Deque(c)
  BY DEF FirstMatch
<1>6. /\ cursor \in DOMAIN waiters[c]
      /\ waiters' \in [Clients -> Seq(Waiter)]
      /\ \A d \in Clients : \A j \in DOMAIN waiters'[d] :
              /\ Before(d, j) \in DOMAIN waiters[d]
              /\ waiters'[d][j] = waiters[d][Before(d, j)]
              /\ d = scanned => Before(d, j) # cursor
              /\ d # scanned \/ j < cursor => Before(d, j) = j
  BY <1>1, <1>2, WaiterErased
<1>7. cmds \in SUBSET Wanted(c) /\ Fresh(c, cursor)
  BY <1>1, <1>2, <1>3, <1>6 DEF Current, WaitSets, Fresh
<1>8. status[c] = "waiting" /\ \A j \in DOMAIN waiters[c] : Fresh(c, j) => j = cursor
  BY <1>6, <1>7 DEF OneFresh
<1>9. c # 0 => c \in contexts
  BY <1>8, Zero DEF StreamStatus
<1>10. /\ queue' \in [Streams -> Seq(Nat)] /\ pending' \in Seq(Nat)
       /\ given' \in [Clients -> Seq(Nat)] /\ status' \in [Clients -> Status]
  BY <1>4, <1>5, HandedOverTypes
<1>11. /\ QueuesHold'
       /\ \A d \in Clients : d # c /\ (d \in contexts \/ c \in contexts) => Deque(d)' = Deque(d)
  BY <1>1, <1>4, <1>5, HandedOverQueues
<1>12. GivenRight'
  BY <1>1, <1>4, <1>7, <1>9, HandedOverRight
<1>13. /\ status'[c] = "running"
       /\ \A d \in Clients : d # c => status'[d] = status[d]
  BY <1>4 DEF HandOver, TypeOK
<1>14. TypeOK'
  BY <1>1, <1>2, <1>6, <1>10 DEF TypeOK
<1>15. OneFresh' /\ WaitSets'
  BY <1>1, <1>2, <1>13, ErasedKeeps
<1>16. ContextsListed' /\ StreamStatus'
  BY <1>1, <1>9, <1>13, Zero DEF ContextsListed, StreamStatus
<1>17. Walked'
  <2> SUFFICES ASSUME NEW d \in Clients, NEW j \in DOMAIN waiters'[d], Fresh(d, j)', Passed(d, j)'
               PROVE  FirstMatch(waiters[d][j].cmds, Deque(d))' = {}
    BY DEF Walked
  <2>1. Before(d, j) \in DOMAIN waiters[d] /\ Fresh(d, Before(d, j))
    BY <1>6 DEF Fresh
  <2>2. d # c
    BY <1>2, <1>6, <1>8, <2>1
  <2>3. j \in DOMAIN waiters[d] /\ waiters'[d][j] = waiters[d][j] /\ Fresh(d, j)
    BY <1>2, <1>6, <2>1, <2>2
  <2>4. Passed(d, j)
    BY <1>2, <2>2 DEF Passed
  <2>5. d \in contexts \/ c \in contexts
    BY <1>9, <2>2, <2>3, Zero DEF OneFresh, StreamStatus
  <2>6. Deque(d)' = Deque(d)
    BY <1>11, <2>2, <2>5
  <2> QED BY <1>1, <2>3, <2>4, <2>6, StillUnmatched
<1> QED BY <1>11, <1>12, <1>14, <1>15, <1>16, <1>17

\* The iterator moves on, or is at the end.
LEMMA Advanced == ASSUME IInv, CheckNext \/ CheckEnd PROVE IInv'
<1> USE DEF IInv
<1>1. UNCHANGED <<sessionVars, status, given>>
  BY DEF CheckNext, CheckEnd
<1>2. cursor \in Nat /\ scanned \in Clients /\ waiters[scanned] \in Seq(Waiter)
  BY DEF TypeOK
<1>3. TypeOK'
  <2>1. cursor' \in Nat \ {0} /\ scanned' \in Clients /\ callback' \in SUBSET Clients
        /\ loop' \in {"reading", "scanning", "dead"}
    BY <1>2, Zero DEF CheckNext, CheckEnd, TypeOK
  <2> QED BY <1>1, <2>1 DEF TypeOK, sessionVars
<1>4. StreamStatus' /\ OneFresh' /\ WaitSets' /\ QueuesHold' /\ GivenRight'
  BY <1>1 DEF sessionVars, StreamStatus, OneFresh, Fresh, WaitSets, QueuesHold, GivenRight, Cmd, Wanted
<1>5. ContextsListed'
  BY <1>1 DEF sessionVars, ContextsListed, CheckNext, CheckEnd
<1>6. \A d \in Clients : \A j \in DOMAIN waiters[d] :
        Passed(d, j)' => Passed(d, j) \/ (CheckNext /\ d = scanned /\ j = cursor)
  <2> SUFFICES ASSUME NEW d \in Clients, NEW j \in DOMAIN waiters[d], Passed(d, j)'
               PROVE  Passed(d, j) \/ (CheckNext /\ d = scanned /\ j = cursor)
    OBVIOUS
  <2>0. j \in Nat
    <3>1. waiters[d] \in Seq(Waiter)
      BY DEF TypeOK
    <3> QED BY <3>1
  <2>1. CASE CheckNext
    <3>1. loop' = loop /\ loop # "reading" /\ scanned' = scanned /\ cursor' = cursor + 1
      BY <2>1 DEF CheckNext, AtWaiter
    <3>2. d = scanned => j < cursor + 1
      BY <3>1 DEF Passed
    <3> QED BY <1>2, <2>0, <2>1, <3>2 DEF Passed
  <2>2. CASE CheckEnd
    <3>1. cursor > Len(waiters[scanned])
      BY <2>2 DEF CheckEnd
    <3>2. DOMAIN waiters[scanned] = 1 .. Len(waiters[scanned]) /\ Len(waiters[scanned]) \in Nat
      BY <1>2
    <3>3. d = scanned => j < cursor
      BY <1>2, <2>0, <3>1, <3>2
    <3> QED BY <3>3 DEF Passed
  <2> QED BY <2>1, <2>2
<1>7. Walked'
  <2> SUFFICES ASSUME NEW d \in Clients, NEW j \in DOMAIN waiters[d], Fresh(d, j), Passed(d, j)'
               PROVE  FirstMatch(waiters[d][j].cmds, Deque(d))' = {}
    BY <1>1 DEF Walked, Fresh, sessionVars
  <2>1. CASE Passed(d, j)
    BY <1>1, <2>1 DEF Walked, FirstMatch, Deque, Cmd, sessionVars
  <2>2. CASE CheckNext /\ d = scanned /\ j = cursor
    <3>1. FirstMatch(waiters[d][j].cmds, Deque(d)) = {}
      BY <2>2 DEF CheckNext, Current
    <3> QED BY <1>1, <3>1 DEF FirstMatch, Deque, Cmd, sessionVars
  <2> QED BY <1>6, <2>1, <2>2
<1> QED BY <1>3, <1>4, <1>5, <1>7

-----------------------------------------------------------------------------
LEMMA NextInv == IInv /\ [Next]_vars => IInv'
<1> SUFFICES ASSUME IInv, [Next]_vars PROVE IInv'
  OBVIOUS
<1>0. TypeOK /\ StreamStatus
  BY DEF IInv
<1>1. CASE StartConnect
  <2>1. /\ status[0] = "unborn" /\ status' = [status EXCEPT ![0] = "starting"]
        /\ UNCHANGED <<sessionVars, loopVars, given>> /\ "starting" \in Status \ {"waiting"}
    BY <1>1 DEF StartConnect, Status
  <2> QED BY <2>1, StatusOnly, Zero
<1>2. CASE ConnectWait
  <2>1. PICK cmds \in ControlWaits : CoWait(0, cmds)
    BY <1>2 DEF ConnectWait, ConnectWaitFor
  <2>2. /\ status[0] \in {"starting", "running"} /\ UNCHANGED <<received, contexts, loopVars>>
        /\ cmds \in SUBSET Wanted(0)
    BY <1>2, WaitsAssumption DEF ConnectWait, ConnectWaitFor, Wanted
  <2> QED BY <2>1, <2>2, WaitedOn, Zero
<1>3. ASSUME NEW s \in Streams, Handler(s) PROVE IInv'
  <2>1. CASE Open(s)
    BY <2>1, Opened
  <2>2. CASE WaitAgain(s)
    <3>1. PICK cmds \in DataWaits : CoWait(s, cmds)
      BY <2>2 DEF WaitAgain
    <3>2. /\ status[s] = "running" /\ UNCHANGED <<received, contexts, loopVars>>
          /\ cmds \in SUBSET Wanted(s) /\ s # 0 /\ s \in Clients
      BY <2>2, WaitsAssumption, Zero DEF WaitAgain, Wanted
    <3>3. s \in contexts
      BY <1>0, <3>2, OwnQueue
    <3> QED BY <3>1, <3>2, <3>3, WaitedOn
  <2>3. CASE Remove(s)
    BY <2>3, Removed
  <2>4. CASE TimeOut(s)
    <3>1. /\ status[s] = "overdue" /\ status' = [status EXCEPT ![s] = "timedout"]
          /\ UNCHANGED <<sessionVars, loopVars, given>> /\ "timedout" \in Status \ {"waiting"}
      BY <2>4 DEF TimeOut, Status
    <3>2. s \in contexts /\ s \in Clients
      BY <1>0, <3>1, OwnQueue, Zero
    <3> QED BY <3>1, <3>2, StatusOnly
  <2> QED BY <1>3, <2>1, <2>2, <2>3, <2>4 DEF Handler
<1>4. ASSUME NEW c \in Clients, Finish(c) PROVE IInv'
  <2>1. /\ status[c] # "waiting" /\ status' = [status EXCEPT ![c] = "done"]
        /\ UNCHANGED <<sessionVars, loopVars, given>> /\ "done" \in Status \ {"waiting"}
    BY <1>4 DEF Finish, Status
  <2> QED BY <2>1, StatusOnly
<1>5. ASSUME NEW c \in Clients, Expire(c) PROVE IInv'
  BY <1>5, Expired
<1>6. CASE Receive
  <2>1. PICK m \in FromDevice : /\ received' = Append(received, m)
                                /\ ReceiveDefault(m) \/ ReceiveKnown(m) \/ ReceiveUnknown(m)
    BY <1>6 DEF Receive
  <2> QED BY <1>6, <2>1, Received DEF Receive
<1>7. CASE CheckWaiters
  BY <1>7, ExpiredErased, Matched, Advanced DEF CheckWaiters
<1>8. CASE UNCHANGED vars
  BY <1>8 DEF vars, sessionVars, loopVars, IInv, TypeOK, ContextsListed, StreamStatus, OneFresh, Fresh,
     WaitSets, QueuesHold, GivenRight, Cmd, Wanted, Walked, Passed, FirstMatch, Deque
<1> QED BY <1>1, <1>2, <1>3, <1>4, <1>5, <1>6, <1>7, <1>8 DEF Next

\* The invariant holds of every client that keeps to Next, whatever the fairness.
LEMMA SafetyInv == Init /\ [][Next]_vars => []IInv
BY InitInv, NextInv, PTL

LEMMA Consequences ==
  ASSUME IInv
  PROVE  TypeOK /\ NoMissedMatch /\ RightStream /\ ReadLoopSurvives
<1> USE DEF IInv
<1>1. NoMissedMatch
  BY DEF Walked, Fresh, Passed, NoMissedMatch
<1>2. RightStream
  <2> SUFFICES ASSUME NEW c \in Clients, NEW n \in RangeOf(given[c])
               PROVE  IF c = 0 THEN Cmd(n) \in Control ELSE Cmd(n) \in Data /\ received[n].arg1 = c
    BY DEF RightStream
  <2>1. PICK i \in DOMAIN given[c] : n = given[c][i]
    BY DEF RangeOf
  <2> QED BY <2>1 DEF GivenRight, Wanted
<1>3. ReadLoopSurvives
  BY DEF ContextsListed, ReadLoopSurvives
<1> QED BY <1>1, <1>2, <1>3

(* For any streams, commands and number of messages, the variables keep    *)
(* their types.                                                            *)
THEOREM TypeCorrect == Spec => []TypeOK
<1>1. Spec => []IInv
  BY SafetyInv, PTL DEF Spec
<1>2. IInv => TypeOK
  BY DEF IInv
<1> QED BY <1>1, <1>2, PTL

(* Between two messages nobody waits for a message that is there, although *)
(* callbacks wait again in the list checkWaiters goes through.             *)
THEOREM NothingMissed == Spec => []NoMissedMatch
<1>1. Spec => []IInv
  BY SafetyInv, PTL DEF Spec
<1>2. IInv => NoMissedMatch
  BY Consequences
<1> QED BY <1>1, <1>2, PTL

(* findMessageDeque and the branches of dispatchToContext never give a     *)
(* message to another stream's handler or to the handshake.                *)
THEOREM StreamsApart == Spec => []RightStream
<1>1. Spec => []IInv
  BY SafetyInv, PTL DEF Spec
<1>2. IInv => RightStream
  BY Consequences
<1> QED BY <1>1, <1>2, PTL

(* The exception of findWaiters never ends the read loop.                  *)
THEOREM LoopSurvives == Spec => []ReadLoopSurvives
<1>1. Spec => []IInv
  BY SafetyInv, PTL DEF Spec
<1>2. IInv => ReadLoopSurvives
  BY Consequences
<1> QED BY <1>1, <1>2, PTL

LEMMA HandsToOne ==
  ASSUME TypeOK, NEW c \in Clients, NEW i, HandOver(c, i), NEW d \in Clients, d # c
  PROVE  given'[d] = given[d]
  BY DEF HandOver, TypeOK

(* No step of checkWaiters, of a client or of time hands a message to a    *)
(* client whose wait has expired or that has returned.                     *)
LEMMA OnlyWhileWaiting ==
  ASSUME IInv, [Next]_vars
  PROVE  \A c \in Clients : status[c] \in {"overdue", "timedout", "done"} => given'[c] = given[c]
<1> SUFFICES ASSUME NEW c \in Clients, status[c] \in {"overdue", "timedout", "done"}
             PROVE  given'[c] = given[c]
  OBVIOUS
<1>0. TypeOK /\ OneFresh
  BY DEF IInv
<1>1. ASSUME NEW d \in Clients, NEW cmds, CoWait(d, cmds), status[d] \in {"starting", "running"}
      PROVE  given'[c] = given[c]
  BY <1>0, <1>1, HandsToOne DEF CoWait
<1>2. CASE ConnectWait
  BY <1>1, <1>2, Zero DEF ConnectWait, ConnectWaitFor
<1>3. ASSUME NEW s \in Streams, WaitAgain(s) PROVE given'[c] = given[c]
  BY <1>1, <1>3, Zero DEF WaitAgain
<1>4. CASE CheckMatch
  <2>1. PICK d \in Clients : d = scanned
    BY <1>0 DEF TypeOK
  <2>2. cursor \in DOMAIN waiters[d]
    BY <1>0, <1>4, <2>1, WaiterErased DEF CheckMatch
  <2>3. status[d] = "waiting"
    BY <1>0, <1>4, <2>1, <2>2 DEF OneFresh, Fresh, Current, CheckMatch
  <2>4. \E i : HandOver(d, i)
    BY <1>4, <2>1 DEF CheckMatch
  <2> QED BY <1>0, <2>3, <2>4, HandsToOne
<1>5. CASE StartConnect
  BY <1>5 DEF StartConnect
<1>6. ASSUME NEW s \in Streams, Open(s) \/ Remove(s) \/ TimeOut(s) PROVE given'[c] = given[c]
  BY <1>6 DEF Open, Remove, TimeOut
<1>7. ASSUME NEW d \in Clients, Finish(d) \/ Expire(d) PROVE given'[c] = given[c]
  BY <1>7 DEF Finish, Expire
<1>8. CASE Receive \/ CheckExpired \/ CheckNext \/ CheckEnd \/ UNCHANGED vars
  BY <1>8 DEF Receive, CheckExpired, CheckNext, CheckEnd, vars
<1> QED BY <1>2, <1>3, <1>4, <1>5, <1>6, <1>7, <1>8 DEF Next, Handler, CheckWaiters

(* An answer that comes after the timeout does not resume the handler.     *)
THEOREM NoLateResumption == Spec => ResumedOnce
<1>1. Spec => []IInv /\ [][Next]_vars
  BY SafetyInv, PTL DEF Spec
<1>2. IInv /\ [Next]_vars =>
        [\A c \in Clients : status[c] \in {"overdue", "timedout", "done"} => given'[c] = given[c]]_vars
  BY OnlyWhileWaiting
<1> QED BY <1>1, <1>2, PTL DEF ResumedOnce

-----------------------------------------------------------------------------
(***************************************************************************)
(* The other half of NoMissedMatch: who waits is in the list, so that      *)
(* checkWaiters will look at its wait.  A wait is added when it begins,    *)
(* and CheckExpired erases another; the erasures of CheckMatch and Expire  *)
(* end it.                                                                 *)
(***************************************************************************)
WaiterThere(c, cmds) == \E i \in DOMAIN waiters[c] : Fresh(c, i) /\ waiters[c][i].cmds = cmds

WaitsOf(c) == IF c = 0 THEN ControlWaits ELSE DataWaits
NoWaitForgotten ==
  \A c \in Clients : status[c] = "waiting" => \E cmds \in WaitsOf(c) : WaiterThere(c, cmds)

\* addWaiter puts it there, and leaves the others.
LEMMA AddedThere ==
  ASSUME TypeOK, NEW c \in Clients, NEW cmds \in SUBSET (Control \cup Data), AddWaiter(c, cmds)
  PROVE  /\ WaiterThere(c, cmds)'
         /\ \A d \in Clients : d # c => waiters'[d] = waiters[d] /\ status'[d] = status[d]
<1> DEFINE w == [cmds |-> cmds, late |-> FALSE]
<1>1. w \in Waiter /\ w.cmds = cmds /\ ~w.late
  BY DEF Waiter
<1>2. waiters' = [waiters EXCEPT ![c] = Append(waiters[c], w)]
  BY DEF AddWaiter
<1> HIDE DEF w
<1>3. waiters[c] \in Seq(Waiter) /\ waiters'[c] = Append(waiters[c], w)
  BY <1>2 DEF TypeOK
<1>4. Len(waiters[c]) + 1 \in DOMAIN waiters'[c] /\ waiters'[c][Len(waiters[c]) + 1] = w
  <2>1. Len(waiters[c]) \in Nat
    BY <1>3
  <2> QED BY <1>1, <1>3, <2>1, AppendSeq
<1>5. WaiterThere(c, cmds)'
  BY <1>1, <1>4 DEF WaiterThere, Fresh
<1> QED BY <1>2, <1>5 DEF TypeOK, AddWaiter

\* What CoWait does for others than c.
LEMMA CoWaitOthers ==
  ASSUME TypeOK, NEW c \in Clients, NEW cmds \in SUBSET (Control \cup Data), CoWait(c, cmds)
  PROVE  /\ \A d \in Clients : d # c => waiters'[d] = waiters[d] /\ status'[d] = status[d]
         /\ status'[c] = "waiting" => WaiterThere(c, cmds)'
<1>1. CASE AddWaiter(c, cmds)
  BY <1>1, AddedThere
<1>2. CASE (\E i : HandOver(c, i)) /\ UNCHANGED waiters
  BY <1>2 DEF HandOver, TypeOK
<1> QED BY <1>1, <1>2 DEF CoWait

\* A wait that goes on stays in the list, and for the same commands.
LEMMA WaiterStays ==
  ASSUME IInv, [Next]_vars, NEW c \in Clients, status[c] = "waiting", status'[c] = "waiting",
         NEW cmds, WaiterThere(c, cmds)
  PROVE  WaiterThere(c, cmds)'
<1>0. TypeOK
  BY DEF IInv
<1>1. CASE waiters'[c] = waiters[c]
  BY <1>1 DEF WaiterThere, Fresh
<1>2. CASE ConnectWait
  <2>1. PICK w \in ControlWaits : CoWait(0, w)
    BY <1>2 DEF ConnectWait, ConnectWaitFor
  <2>2. status[0] # "waiting" /\ w \in SUBSET (Control \cup Data)
    BY <1>2, WaitsAssumption DEF ConnectWait, ConnectWaitFor
  <2> QED BY <1>0, <1>1, <2>1, <2>2, CoWaitOthers, Zero
<1>3. ASSUME NEW s \in Streams, Handler(s) PROVE waiters'[c] = waiters[c]
  <2>1. CASE Open(s)
    <3>1. PICK w \in DataWaits : AddWaiter(s, w)
      BY <2>1 DEF Open
    <3>2. status[s] # "waiting" /\ w \in SUBSET (Control \cup Data)
      BY <2>1, WaitsAssumption DEF Open
    <3> QED BY <1>0, <3>1, <3>2, AddedThere, Zero
  <2>2. CASE WaitAgain(s)
    <3>1. PICK w \in DataWaits : CoWait(s, w)
      BY <2>2 DEF WaitAgain
    <3>2. status[s] # "waiting" /\ w \in SUBSET (Control \cup Data)
      BY <2>2, WaitsAssumption DEF WaitAgain
    <3> QED BY <1>0, <3>1, <3>2, CoWaitOthers, Zero
  <2> QED BY <1>3, <2>1, <2>2 DEF Handler, Remove, TimeOut, sessionVars
<1>4. ASSUME NEW d \in Clients, Expire(d) PROVE waiters'[c] = waiters[c]
  BY <1>0, <1>4 DEF Expire, TypeOK
<1>5. CASE CheckExpired
  <2>1. /\ cursor \in DOMAIN waiters[scanned] /\ Current.late
        /\ waiters' = [waiters EXCEPT ![scanned] = Without(waiters[scanned], cursor)]
    BY <1>0, <1>5, WaiterErased DEF CheckExpired, EraseCurrent
  <2>2. PICK i \in DOMAIN waiters[c] : Fresh(c, i) /\ waiters[c][i].cmds = cmds
    BY DEF WaiterThere
  <2>3. CASE c = scanned
    <3>1. i # cursor /\ waiters[c] \in Seq(Waiter) /\ waiters'[c] = Without(waiters[c], cursor)
      BY <1>0, <2>1, <2>2, <2>3 DEF Fresh, Current, TypeOK
    <3>2. PICK j \in DOMAIN waiters'[c] : waiters'[c][j] = waiters[c][i]
      BY <2>1, <2>2, <2>3, <3>1, WithoutKeeps
    <3> QED BY <2>2, <3>2 DEF WaiterThere, Fresh
  <2>4. CASE c # scanned
    BY <1>0, <1>1, <2>1, <2>4 DEF TypeOK
  <2> QED BY <2>3, <2>4
<1>6. CASE CheckMatch
  <2>1. c # scanned
    BY <1>0, <1>6 DEF CheckMatch, HandOver, TypeOK
  <2> QED BY <1>0, <1>1, <1>6, <2>1 DEF CheckMatch, EraseCurrent, TypeOK
<1>7. CASE \/ StartConnect \/ Receive \/ CheckNext \/ CheckEnd \/ UNCHANGED vars
           \/ \E d \in Clients : Finish(d)
  BY <1>1, <1>7 DEF StartConnect, Receive, CheckNext, CheckEnd, Finish, vars, sessionVars
<1> QED BY <1>1, <1>2, <1>3, <1>4, <1>5, <1>6, <1>7 DEF Next, CheckWaiters

\* Whoever begins to wait is put there.
LEMMA WaiterPlaced ==
  ASSUME IInv, [Next]_vars, NEW c \in Clients, status[c] # "waiting", status'[c] = "waiting"
  PROVE  \E cmds \in WaitsOf(c) : WaiterThere(c, cmds)'
<1> USE DEF WaitsOf
<1>0. TypeOK
  BY DEF IInv
<1>1. CASE ConnectWait
  <2>1. PICK w \in ControlWaits : CoWait(0, w)
    BY <1>1 DEF ConnectWait, ConnectWaitFor
  <2>2. w \in SUBSET (Control \cup Data)
    BY WaitsAssumption
  <2> QED BY <1>0, <2>1, <2>2, CoWaitOthers, Zero
<1>2. ASSUME NEW s \in Streams, Open(s) PROVE \E cmds \in WaitsOf(c) : WaiterThere(c, cmds)'
  <2>1. PICK w \in DataWaits : AddWaiter(s, w)
    BY <1>2 DEF Open
  <2>2. w \in SUBSET (Control \cup Data)
    BY WaitsAssumption
  <2> QED BY <1>0, <2>1, <2>2, AddedThere, Zero
<1>3. ASSUME NEW s \in Streams, WaitAgain(s) PROVE \E cmds \in WaitsOf(c) : WaiterThere(c, cmds)'
  <2>1. PICK w \in DataWaits : CoWait(s, w)
    BY <1>3 DEF WaitAgain
  <2>2. w \in SUBSET (Control \cup Data)
    BY WaitsAssumption
  <2> QED BY <1>0, <2>1, <2>2, CoWaitOthers, Zero
<1>4. ~(\E s \in Streams : Remove(s) \/ TimeOut(s)) /\ ~ \E d \in Clients : Finish(d) \/ Expire(d)
  BY <1>0, Zero DEF Remove, TimeOut, Finish, Expire, TypeOK
<1>5. ~StartConnect /\ ~Receive /\ ~CheckWaiters /\ ~UNCHANGED vars
  BY <1>0, Zero DEF StartConnect, Receive, CheckWaiters, CheckExpired, CheckMatch, CheckNext,
     CheckEnd, HandOver, TypeOK, vars
<1> QED BY <1>1, <1>2, <1>3, <1>4, <1>5 DEF Next, Handler

LEMMA WaitsKept == IInv /\ NoWaitForgotten /\ [Next]_vars => NoWaitForgotten'
<1> SUFFICES ASSUME IInv, NoWaitForgotten, [Next]_vars, NEW c \in Clients, status'[c] = "waiting"
             PROVE  \E cmds \in WaitsOf(c) : WaiterThere(c, cmds)'
  BY DEF NoWaitForgotten, WaitsOf
<1>1. CASE status[c] = "waiting"
  BY <1>1, WaiterStays DEF NoWaitForgotten
<1>2. CASE status[c] # "waiting"
  BY <1>2, WaiterPlaced
<1> QED BY <1>1, <1>2

\* For every client that keeps to Next, whatever the fairness.
LEMMA SafetyWaits == Init /\ [][Next]_vars => [](IInv /\ NoWaitForgotten)
<1>1. Init => NoWaitForgotten
  BY DEF Init, NoWaitForgotten
<1> QED BY <1>1, WaitsKept, SafetyInv, PTL

(* Whoever waits and has not run out of time is in the list checkWaiters   *)
(* goes through, whatever was added to and erased from it in the middle of *)
(* the loop.                                                               *)
THEOREM NobodyForgotten == Spec => []NoWaitForgotten
BY SafetyWaits, PTL DEF Spec

\* checkWaiters is on its way to a wait of c, whose message is there.
AnswerFound(c) ==
  /\ loop = "scanning" /\ scanned = c
  /\ \E i \in DOMAIN waiters[c] :
       Fresh(c, i) /\ cursor <= i /\ FirstMatch(waiters[c][i].cmds, Deque(c)) # {}

\* It always is when there is such a wait: both halves together.
LEMMA ScanFinds ==
  ASSUME IInv, NEW c \in Clients, NEW cmds, WaiterThere(c, cmds), FirstMatch(cmds, Deque(c)) # {}
  PROVE  AnswerFound(c)
<1>1. PICK k \in DOMAIN waiters[c] : Fresh(c, k) /\ waiters[c][k].cmds = cmds
  BY DEF WaiterThere
<1>2. ~Passed(c, k)
  BY <1>1 DEF IInv, Walked
<1>3. loop \in {"reading", "scanning"} /\ cursor \in Nat /\ waiters[c] \in Seq(Waiter)
  BY DEF IInv, TypeOK, ContextsListed
<1>4. k \in Nat
  BY <1>1, <1>3
<1> QED BY <1>1, <1>2, <1>3, <1>4 DEF Passed, AnswerFound

-----------------------------------------------------------------------------
\* What the steps of the session do to client 0 and its queue.

\* A client is handed one message at a time.
LEMMA GivenGrows ==
  ASSUME TypeOK, [Next]_vars, NEW c \in Clients
  PROVE  given'[c] = given[c] \/ (Len(given'[c]) = Len(given[c]) + 1 /\ Len(given[c]) \in Nat)
<1>1. ASSUME NEW d \in Clients, NEW i \in DOMAIN Deque(d), HandOver(d, i)
      PROVE  given'[c] = given[c] \/ (Len(given'[c]) = Len(given[c]) + 1 /\ Len(given[c]) \in Nat)
  <2>1. PICK n \in Nat : n = Deque(d)[i]
    BY DequeType
  <2>2. given' = [given EXCEPT ![d] = Append(given[d], n)] /\ given \in [Clients -> Seq(Nat)]
    BY <1>1, <2>1 DEF HandOver, TypeOK
  <2>3. CASE c = d
    <3>1. given[c] \in Seq(Nat) /\ given'[c] = Append(given[c], n)
      BY <2>2, <2>3
    <3> QED BY <3>1, AppendSeq
  <2> QED BY <2>2, <2>3
<1>2. ASSUME NEW d \in Clients, NEW cmds, CoWait(d, cmds)
      PROVE  given'[c] = given[c] \/ (Len(given'[c]) = Len(given[c]) + 1 /\ Len(given[c]) \in Nat)
  BY <1>1, <1>2 DEF CoWait, FirstMatch
<1>3. CASE ConnectWait
  BY <1>2, <1>3, Zero DEF ConnectWait, ConnectWaitFor
<1>4. ASSUME NEW s \in Streams, WaitAgain(s)
      PROVE  given'[c] = given[c] \/ (Len(given'[c]) = Len(given[c]) + 1 /\ Len(given[c]) \in Nat)
  BY <1>2, <1>4, Zero DEF WaitAgain
<1>5. CASE CheckMatch
  <2>1. scanned \in Clients /\ \E i \in DOMAIN Deque(scanned) : HandOver(scanned, i)
    BY <1>5 DEF CheckMatch, TypeOK, FirstMatch
  <2> QED BY <1>1, <2>1
<1>6. CASE \/ StartConnect \/ Receive \/ CheckExpired \/ CheckNext \/ CheckEnd \/ UNCHANGED vars
           \/ \E s \in Streams : Open(s) \/ Remove(s) \/ TimeOut(s)
           \/ \E d \in Clients : Finish(d) \/ Expire(d)
  BY <1>6 DEF StartConnect, Receive, CheckExpired, CheckNext, CheckEnd, Open, Remove, TimeOut,
     Finish, Expire, vars
<1> QED BY <1>3, <1>4, <1>5, <1>6 DEF Next, Handler, CheckWaiters

\* What is in pendingMessages stays there until client 0 is handed something.
LEMMA PendingGrows ==
  ASSUME IInv, [Next]_vars, given'[0] = given[0]
  PROVE  \A i \in DOMAIN pending : /\ i \in DOMAIN pending' /\ pending'[i] = pending[i]
                                   /\ received'[pending[i]] = received[pending[i]]
<1>0. TypeOK /\ OneFresh /\ StreamStatus /\ 0 \in Clients /\ QueuesHold
  BY Zero DEF IInv
<1>1. ASSUME NEW i \in DOMAIN Deque(0) PROVE ~HandOver(0, i)
  <2> SUFFICES ASSUME HandOver(0, i) PROVE FALSE
    OBVIOUS
  <2>1. PICK n \in Nat : n = Deque(0)[i]
    BY <1>0, DequeType
  <2>2. given[0] \in Seq(Nat) /\ given'[0] = Append(given[0], n)
    BY <1>0, <2>1 DEF HandOver, TypeOK
  <2>3. Len(given'[0]) = Len(given[0]) + 1 /\ Len(given[0]) \in Nat
    BY <2>2, AppendSeq
  <2> QED BY <2>3
<1>2. ASSUME NEW s \in contexts, NEW i, HandOver(s, i) PROVE pending' = pending
  BY <1>2 DEF HandOver
<1>3. CASE pending' = pending /\ received' = received
  BY <1>3
<1>4. CASE ConnectWait
  BY <1>1, <1>3, <1>4 DEF ConnectWait, ConnectWaitFor, CoWait, FirstMatch
<1>5. ASSUME NEW s \in Streams, WaitAgain(s) PROVE pending' = pending /\ received' = received
  <2>1. s \in contexts
    BY <1>0, <1>5, OwnQueue DEF WaitAgain
  <2> QED BY <1>2, <1>5, <2>1 DEF WaitAgain, CoWait
<1>6. CASE CheckMatch
  <2>1. scanned \in Clients /\ cursor \in DOMAIN waiters[scanned]
    BY <1>0, <1>6, WaiterErased DEF CheckMatch, TypeOK
  <2>2. status[scanned] = "waiting"
    BY <1>0, <1>6, <2>1 DEF OneFresh, Fresh, Current, CheckMatch
  <2>3. scanned # 0
    BY <1>1, <1>6 DEF CheckMatch, FirstMatch
  <2>4. scanned \in contexts
    BY <1>0, <2>1, <2>2, <2>3, OwnQueue, Zero
  <2> QED BY <1>2, <1>3, <1>6, <2>4 DEF CheckMatch
<1>7. CASE Receive
  <2>1. PICK m \in FromDevice : /\ received' = Append(received, m)
                                /\ ReceiveDefault(m) \/ ReceiveKnown(m) \/ ReceiveUnknown(m)
    BY <1>7 DEF Receive
  <2>2. Len(received) \in Nat /\ \A n \in DOMAIN received : received'[n] = received[n]
    BY <1>0, <2>1, MessageReceived
  <2>3. \A i \in DOMAIN pending : pending[i] \in DOMAIN received
    BY <1>0 DEF QueuesHold
  <2>4. pending' = pending \/ pending' = Append(pending, Len(received) + 1)
    BY <2>1 DEF ReceiveDefault, ReceiveKnown, ReceiveUnknown
  <2>5. pending \in Seq(Nat) /\ Len(received) + 1 \in Nat
    BY <1>0, <2>2 DEF TypeOK
  <2>6. \A i \in DOMAIN pending : i \in DOMAIN pending' /\ pending'[i] = pending[i]
    <3>1. CASE pending' = Append(pending, Len(received) + 1)
      BY <2>5, <3>1, Enqueued
    <3> QED BY <2>4, <3>1
  <2> QED BY <2>2, <2>3, <2>6
<1>8. CASE \/ StartConnect \/ CheckExpired \/ CheckNext \/ CheckEnd \/ UNCHANGED vars
           \/ \E s \in Streams : Open(s) \/ Remove(s) \/ TimeOut(s)
           \/ \E d \in Clients : Finish(d) \/ Expire(d)
  BY <1>3, <1>8 DEF StartConnect, CheckExpired, CheckNext, CheckEnd, Open, Remove, TimeOut,
     Finish, Expire, vars, sessionVars
<1> QED BY <1>4, <1>5, <1>3, <1>6, <1>7, <1>8 DEF Next, Handler, CheckWaiters

-----------------------------------------------------------------------------
(***************************************************************************)
(* The ledger: where every message received is.  A message is bound for a  *)
(* stream that was opened, or for the handshake (Known); pendingMessages   *)
(* holds nothing for a stream that has a context (PendingApart); every     *)
(* queue is in the order of arrival, and what was handed to a client came  *)
(* before what it can still get of the same command (GivenFirst), and is   *)
(* not in pendingMessages either (GivenGone); and nothing is lost (Held).  *)
(***************************************************************************)
Sorted(q) == \A i, j \in DOMAIN q : i < j => q[i] < q[j]

Known == \A n \in DOMAIN received : received[n] \in FromDevice

Emptied == \A s \in Streams : s \notin contexts => queue[s] = <<>>

PendingApart ==
  \A i \in DOMAIN pending : Cmd(pending[i]) \in Data => received[pending[i]].arg1 \notin contexts

QueuesSorted == Sorted(pending) /\ \A s \in Streams : Sorted(queue[s])

GivenInOrder ==
  \A c \in Clients : \A i, j \in DOMAIN given[c] :
    i < j /\ Cmd(given[c][i]) = Cmd(given[c][j]) => given[c][i] < given[c][j]

GivenFirst ==
  \A c \in contexts \cup {0} : \A i \in DOMAIN given[c], j \in DOMAIN Deque(c) :
    Cmd(given[c][i]) = Cmd(Deque(c)[j]) => given[c][i] < Deque(c)[j]

GivenGone ==
  \A s \in Streams : \A i \in DOMAIN given[s], j \in DOMAIN pending : given[s][i] # pending[j]

Somewhere(n) ==
  \/ \E i \in DOMAIN pending : pending[i] = n
  \/ \E s \in Streams : \E i \in DOMAIN queue[s] : queue[s][i] = n
  \/ \E c \in Clients : \E i \in DOMAIN given[c] : given[c][i] = n

Held ==
  \A n \in DOMAIN received :
    Somewhere(n) \/ (Cmd(n) \in Data /\ received[n].arg1 \in Streams \ contexts)

Ledger == /\ Known /\ Emptied /\ PendingApart /\ QueuesSorted
          /\ GivenInOrder /\ GivenFirst /\ GivenGone /\ Held

\* A stream that was opened stays opened.
StatusGrows == \A s \in Streams : status[s] # "unborn" => status'[s] # "unborn"

LEMMA KnownGrows ==
  ASSUME Known, StatusGrows, received' = received
  PROVE  Known'
<1> SUFFICES ASSUME NEW n \in DOMAIN received PROVE received[n] \in FromDevice'
  BY DEF Known
<1>1. received[n] \in FromDevice
  BY DEF Known
<1>2. {s \in Streams : status[s] # "unborn"} \subseteq {s \in Streams : status'[s] # "unborn"}
  BY DEF StatusGrows
<1> HIDE DEF Known
<1>3. CASE received[n] \in [cmd : Data, arg1 : {s \in Streams : status[s] # "unborn"}]
  BY <1>2, <1>3 DEF FromDevice
<1>4. CASE received[n] \in [cmd : Control \ {Connect}, arg1 : {0}] \cup [cmd : {Connect}, arg1 : {DeviceMaxData}]
  BY <1>4 DEF FromDevice
<1> QED BY <1>1, <1>3, <1>4 DEF FromDevice

\* A message of a stream is known by its command, and its stream was opened.
LEMMA DataKnown ==
  ASSUME Known, NEW n \in DOMAIN received, Cmd(n) \in Data
  PROVE  received[n].arg1 \in Streams /\ status[received[n].arg1] # "unborn"
<1>1. received[n] \in FromDevice
  BY DEF Known
<1>2. Connect \in Control /\ Control \cap Data = {}
  BY CommandsAssumption
<1> QED BY <1>1, <1>2 DEF FromDevice, Cmd

\* Nothing moves: a step of the clock, the iterator, or of a client alone.
LEMMA LedgerQuiet ==
  ASSUME Ledger, StatusGrows, UNCHANGED <<received, contexts, queue, pending, given>>
  PROVE  Ledger'
<1> USE DEF Ledger
<1>1. Known'
  BY KnownGrows
<1>2. Emptied' /\ PendingApart' /\ QueuesSorted'
  BY DEF Emptied, PendingApart, QueuesSorted, Sorted, Cmd
<1>3. GivenInOrder' /\ GivenFirst' /\ GivenGone'
  BY DEF GivenInOrder, GivenFirst, GivenGone, Cmd, Deque
<1>4. Held'
  BY DEF Held, Somewhere, Cmd
<1> QED BY <1>1, <1>2, <1>3, <1>4

LEMMA WithoutSorted ==
  ASSUME NEW q \in Seq(Nat), NEW i \in DOMAIN q, Sorted(q)
  PROVE  Sorted(Without(q, i))
<1> SUFFICES ASSUME NEW j \in DOMAIN Without(q, i), NEW k \in DOMAIN Without(q, i), j < k
             PROVE  Without(q, i)[j] < Without(q, i)[k]
  BY DEF Sorted
<1>1. /\ Without(q, i) \in Seq(Nat)
      /\ Shift(i, j) \in DOMAIN q /\ Without(q, i)[j] = q[Shift(i, j)]
      /\ Shift(i, k) \in DOMAIN q /\ Without(q, i)[k] = q[Shift(i, k)]
  BY WithoutSeq
<1>2. j \in Nat /\ k \in Nat /\ i \in Nat
  BY <1>1
<1>3. Shift(i, j) < Shift(i, k)
  BY <1>2 DEF Shift
<1> QED BY <1>1, <1>3 DEF Sorted

LEMMA AppendSorted ==
  ASSUME NEW q \in Seq(Nat), NEW n \in Nat, Sorted(q), \A i \in DOMAIN q : q[i] < n
  PROVE  Sorted(Append(q, n))
<1>1. Len(q) \in Nat /\ DOMAIN q = 1 .. Len(q)
  OBVIOUS
<1>2. /\ DOMAIN Append(q, n) = 1 .. Len(q) + 1
      /\ Append(q, n)[Len(q) + 1] = n
      /\ \A j \in 1 .. Len(q) : Append(q, n)[j] = q[j]
  BY AppendSeq
<1> SUFFICES ASSUME NEW j \in 1 .. Len(q) + 1, NEW k \in 1 .. Len(q) + 1, j < k
             PROVE  Append(q, n)[j] < Append(q, n)[k]
  BY <1>2 DEF Sorted
<1>3. j \in 1 .. Len(q) /\ Append(q, n)[j] = q[j]
  BY <1>1, <1>2
<1>4. CASE k = Len(q) + 1
  BY <1>1, <1>2, <1>3, <1>4
<1>5. CASE k # Len(q) + 1
  <2>1. k \in 1 .. Len(q) /\ Append(q, n)[k] = q[k]
    BY <1>1, <1>2, <1>5
  <2> QED BY <1>1, <1>3, <2>1 DEF Sorted
<1> QED BY <1>4, <1>5

\* A message goes from the queue of c to c: it was the oldest c could get.
LEMMA LedgerHandOver ==
  ASSUME TypeOK, QueuesHold, GivenRight, Ledger, StatusGrows,
         NEW c \in Clients, c = 0 \/ c \in contexts, NEW cmds,
         NEW i \in FirstMatch(cmds, Deque(c)), HandOver(c, i), UNCHANGED <<received, contexts>>
  PROVE  Ledger'
<1> USE DEF Ledger
<1>1. PICK q : q = Deque(c)
  OBVIOUS
<1>2. q \in Seq(Nat) /\ i \in DOMAIN q /\ Cmd(q[i]) \in cmds
  BY <1>1, DequeType DEF FirstMatch
<1>3. PICK n : n = q[i]
  OBVIOUS
<1>4. n \in Nat /\ n \in DOMAIN received
  BY <1>1, <1>2, <1>3, DequeHolds
<1>5. /\ Without(q, i) \in Seq(Nat)
      /\ \A j \in DOMAIN Without(q, i) : /\ Shift(i, j) \in DOMAIN q /\ Shift(i, j) # i
                                         /\ Without(q, i)[j] = q[Shift(i, j)]
  BY <1>2, WithoutSeq
<1>6. /\ c \in contexts => q = queue[c] /\ c \in Streams
      /\ c \notin contexts => q = pending /\ c = 0
  BY <1>1 DEF Deque, TypeOK
<1>7. Sorted(q) /\ Sorted(Without(q, i))
  <2>1. Sorted(q)
    BY <1>6 DEF QueuesSorted
  <2> QED BY <1>2, <2>1, WithoutSorted
<1>8. /\ given'[c] = Append(given[c], n)
      /\ \A d \in Clients : d # c => given'[d] = given[d]
  BY <1>1, <1>3 DEF HandOver, TypeOK
<1>9. /\ \A j \in DOMAIN given'[c] : \/ j \in DOMAIN given[c] /\ given'[c][j] = given[c][j]
                                     \/ j = Len(given[c]) + 1 /\ given'[c][j] = n
      /\ \A j \in DOMAIN given[c] : j \in DOMAIN given'[c] /\ given'[c][j] = given[c][j]
      /\ Len(given[c]) + 1 \in DOMAIN given'[c] /\ given'[c][Len(given[c]) + 1] = n
      /\ DOMAIN given[c] = 1 .. Len(given[c]) /\ Len(given[c]) \in Nat
  <2>1. given[c] \in Seq(Nat)
    BY DEF TypeOK
  <2>2. Len(given[c]) \in Nat /\ DOMAIN given[c] = 1 .. Len(given[c])
    BY <2>1
  <2>3. /\ DOMAIN given'[c] = 1 .. Len(given[c]) + 1
        /\ given'[c][Len(given[c]) + 1] = n
        /\ \A j \in 1 .. Len(given[c]) : given'[c][j] = given[c][j]
    BY <1>4, <1>8, <2>1, AppendSeq
  <2> QED BY <2>2, <2>3
<1>10. \/ /\ c \in contexts /\ pending' = pending /\ queue'[c] = Without(q, i)
          /\ \A s \in Streams : s # c => queue'[s] = queue[s]
       \/ c \notin contexts /\ queue' = queue /\ pending' = Without(q, i)
  BY <1>1, <1>6 DEF HandOver, TypeOK
<1>11. Deque(c)' = Without(q, i)
  BY <1>6, <1>10 DEF Deque
<1>12. \A d \in Clients : d # c /\ (d \in contexts \/ c \in contexts) => Deque(d)' = Deque(d)
  BY <1>1, <1>2, HandedOverQueues
<1>13. Known'
  BY KnownGrows
<1>14. Emptied'
  BY <1>10 DEF Emptied
<1>15. \A j \in DOMAIN pending' : \E k \in DOMAIN pending : pending'[j] = pending[k]
  BY <1>5, <1>6, <1>10
<1>16. PendingApart'
  BY <1>15 DEF PendingApart, Cmd
<1>17. QueuesSorted'
  BY <1>7, <1>10 DEF QueuesSorted, Sorted
\* What was handed to c before came before n, if it is the same command.
<1>18. \A j \in DOMAIN given[c] : Cmd(given[c][j]) = Cmd(n) => given[c][j] < n
  BY <1>1, <1>2, <1>3, Zero DEF GivenFirst
<1>19. GivenInOrder'
  <2> SUFFICES ASSUME NEW d \in Clients, NEW j \in DOMAIN given'[d], NEW k \in DOMAIN given'[d],
                      j < k, Cmd(given'[d][j]) = Cmd(given'[d][k])
               PROVE  given'[d][j] < given'[d][k]
    BY DEF GivenInOrder, Cmd
  <2>1. CASE d # c
    BY <1>8, <2>1 DEF GivenInOrder
  <2>2. CASE d = c
    <3>1. j \in DOMAIN given[c] /\ given'[c][j] = given[c][j]
      BY <1>9, <2>2
    <3>2. CASE k \in DOMAIN given[c] /\ given'[c][k] = given[c][k]
      BY <2>2, <3>1, <3>2 DEF GivenInOrder
    <3>3. CASE given'[c][k] = n
      BY <1>18, <2>2, <3>1, <3>3
    <3> QED BY <1>9, <2>2, <3>2, <3>3
  <2> QED BY <2>1, <2>2
\* And n came before what is left, if that is of its command.
<1>20. \A j \in DOMAIN Without(q, i) : Cmd(Without(q, i)[j]) = Cmd(n) => n < Without(q, i)[j]
  <2> SUFFICES ASSUME NEW j \in DOMAIN Without(q, i), Cmd(Without(q, i)[j]) = Cmd(n)
               PROVE  n < Without(q, i)[j]
    OBVIOUS
  <2>1. PICK k \in DOMAIN q : k # i /\ Without(q, i)[j] = q[k]
    BY <1>5
  <2>2. ~(k < i)
    BY <1>1, <1>2, <1>3, <2>1 DEF FirstMatch
  <2>3. i < k
    BY <1>2, <2>1, <2>2
  <2> QED BY <1>2, <1>3, <1>7, <2>1, <2>3 DEF Sorted
<1>21. GivenFirst'
  <2> SUFFICES ASSUME NEW d \in contexts \cup {0}, NEW j \in DOMAIN given'[d],
                      NEW k \in DOMAIN Deque(d)', Cmd(given'[d][j]) = Cmd(Deque(d)'[k])
               PROVE  given'[d][j] < Deque(d)'[k]
    BY DEF GivenFirst, Cmd
  <2>0. d \in Clients
    BY Zero DEF TypeOK
  <2>1. CASE d # c
    <3>1. Deque(d)' = Deque(d)
      BY <1>6, <1>12, <2>0, <2>1
    <3> QED BY <1>8, <2>0, <2>1, <3>1 DEF GivenFirst
  <2>2. CASE d = c
    <3>1. PICK l \in DOMAIN q : Without(q, i)[k] = q[l]
      BY <1>5, <1>11, <2>2
    <3>2. CASE j \in DOMAIN given[c] /\ given'[c][j] = given[c][j]
      BY <1>1, <1>11, <2>2, <3>1, <3>2 DEF GivenFirst
    <3>3. CASE given'[c][j] = n
      BY <1>11, <1>20, <2>2, <3>3
    <3> QED BY <1>9, <2>2, <3>2, <3>3
  <2> QED BY <2>1, <2>2
<1>22. GivenGone'
  <2> SUFFICES ASSUME NEW s \in Streams, NEW j \in DOMAIN given'[s], NEW k \in DOMAIN pending'
               PROVE  given'[s][j] # pending'[k]
    BY DEF GivenGone
  <2>1. PICK l \in DOMAIN pending : pending'[k] = pending[l]
    BY <1>15
  <2>2. CASE j \in DOMAIN given[s] /\ given'[s][j] = given[s][j]
    BY <2>1, <2>2 DEF GivenGone
  <2>3. CASE s = c /\ given'[c][j] = n
    <3>1. c \in contexts /\ q = queue[c]
      BY <1>6, <2>3, Zero
    <3>2. Cmd(n) \in Data /\ received[n].arg1 \in contexts
      BY <1>2, <1>3, <2>3, <3>1 DEF QueuesHold
    <3> QED BY <2>1, <2>3, <3>2 DEF PendingApart
  <2> QED BY <1>8, <1>9, <2>2, <2>3, Zero
<1>23. Held'
  <2> SUFFICES ASSUME NEW m \in DOMAIN received, Somewhere(m) PROVE Somewhere(m)'
    BY DEF Held, Cmd
  <2>1. CASE m = n
    BY <1>9, <2>1 DEF Somewhere
  <2>2. CASE m # n
    <3>1. \A k \in DOMAIN q : q[k] = m => \E j \in DOMAIN Without(q, i) : Without(q, i)[j] = m
      BY <1>2, <1>3, <2>2, WithoutKeeps
    <3>2. CASE \E k \in DOMAIN pending : pending[k] = m
      BY <1>6, <1>10, <3>1, <3>2 DEF Somewhere
    <3>3. ASSUME NEW s \in Streams, NEW k \in DOMAIN queue[s], queue[s][k] = m PROVE Somewhere(m)'
      BY <1>6, <1>10, <3>1, <3>3 DEF Somewhere
    <3>4. ASSUME NEW d \in Clients, NEW k \in DOMAIN given[d], given[d][k] = m PROVE Somewhere(m)'
      BY <1>8, <1>9, <3>4 DEF Somewhere
    <3> QED BY <3>2, <3>3, <3>4 DEF Somewhere
  <2> QED BY <2>1, <2>2
<1> QED BY <1>13, <1>14, <1>16, <1>17, <1>19, <1>21, <1>22, <1>23

LEMMA EmptyOnly == ASSUME NEW q \in Seq(Nat), DOMAIN q = {} PROVE q = <<>>
<1>1. Len(q) \in Nat /\ DOMAIN q = 1 .. Len(q)
  OBVIOUS
<1>2. Len(q) = 0
  BY <1>1
<1> QED BY <1>1, <1>2

\* A stream gets its context before the device can know of it.
LEMMA LedgerOpen ==
  ASSUME IInv, Ledger, NEW s \in Streams, Open(s)
  PROVE  Ledger'
<1> USE DEF Ledger, IInv
<1>1. /\ contexts' = contexts \cup {s} /\ queue' = [queue EXCEPT ![s] = <<>>]
      /\ UNCHANGED <<received, pending, given>> /\ status[s] = "unborn"
  BY DEF Open
<1>2. /\ queue'[s] = <<>>
      /\ \A t \in Streams : t # s => queue'[t] = queue[t]
  BY <1>1 DEF TypeOK
<1>3. \A n \in DOMAIN received : Cmd(n) \in Data => received[n].arg1 # s
  BY <1>1, DataKnown
<1>4. queue[s] = <<>>
  <2>1. queue[s] \in Seq(Nat)
    BY DEF TypeOK
  <2>2. DOMAIN queue[s] = {}
    BY <1>3 DEF QueuesHold
  <2> QED BY <2>1, <2>2, EmptyOnly
<1>5. queue' = queue
  BY <1>1, <1>4 DEF TypeOK
<1>6. Known'
  <2>1. StatusGrows
    <3>1. PICK cmds \in DataWaits : AddWaiter(s, cmds)
      BY DEF Open
    <3> QED BY <3>1 DEF AddWaiter, StatusGrows, TypeOK
  <2> QED BY <1>1, <2>1, KnownGrows
<1>7. Emptied' /\ QueuesSorted'
  BY <1>1, <1>5 DEF Emptied, QueuesSorted, Sorted
<1>8. PendingApart'
  BY <1>1, <1>3 DEF PendingApart, QueuesHold, Cmd
<1>9. GivenInOrder' /\ GivenGone'
  BY <1>1 DEF GivenInOrder, GivenGone, Cmd
<1>10. GivenFirst'
  <2> SUFFICES ASSUME NEW c \in contexts \cup {0, s}, NEW i \in DOMAIN given[c],
                      NEW j \in DOMAIN Deque(c)', Cmd(given[c][i]) = Cmd(Deque(c)'[j])
               PROVE  given[c][i] < Deque(c)'[j]
    BY <1>1 DEF GivenFirst, Cmd
  <2>1. c # s
    BY <1>1, <1>2, EmptySeq DEF Deque
  <2>2. Deque(c)' = Deque(c)
    BY <1>1, <1>5, <2>1 DEF Deque
  <2> QED BY <2>1, <2>2 DEF GivenFirst
<1>11. Held'
  BY <1>1, <1>3, <1>5 DEF Held, Somewhere, Cmd
<1> QED BY <1>6, <1>7, <1>8, <1>9, <1>10, <1>11

\* What a removed context still held goes with it.
LEMMA LedgerRemove ==
  ASSUME IInv, Ledger, NEW s \in Streams, Remove(s)
  PROVE  Ledger'
<1> USE DEF Ledger, IInv
<1>1. /\ contexts' = contexts \ {s} /\ queue' = [queue EXCEPT ![s] = <<>>]
      /\ status' = [status EXCEPT ![s] = "done"]
      /\ UNCHANGED <<received, pending, given>>
  BY DEF Remove
<1>2. /\ queue'[s] = <<>>
      /\ \A t \in Streams : t # s => queue'[t] = queue[t]
  BY <1>1 DEF TypeOK
<1>3. Known'
  <2>1. StatusGrows
    BY <1>1 DEF StatusGrows, TypeOK
  <2> QED BY <1>1, <2>1, KnownGrows
<1>4. Emptied' /\ PendingApart' /\ QueuesSorted'
  BY <1>1, <1>2, EmptySeq DEF Emptied, PendingApart, QueuesSorted, Sorted, Cmd
<1>5. GivenInOrder' /\ GivenGone'
  BY <1>1 DEF GivenInOrder, GivenGone, Cmd
<1>6. GivenFirst'
  <2>1. \A c \in (contexts \ {s}) \cup {0} : Deque(c)' = Deque(c)
    BY <1>1, <1>2, Zero DEF Deque, TypeOK
  <2> QED BY <1>1, <2>1 DEF GivenFirst, Cmd
<1>7. Held'
  <2> SUFFICES ASSUME NEW n \in DOMAIN received
               PROVE  Somewhere(n)' \/ (Cmd(n) \in Data /\ received[n].arg1 \in Streams \ contexts')
    BY <1>1 DEF Held, Cmd
  <2>1. CASE \E i \in DOMAIN queue[s] : queue[s][i] = n
    <3>1. Cmd(n) \in Data /\ received[n].arg1 = s
      BY <2>1 DEF QueuesHold
    <3> QED BY <1>1, <3>1
  <2>2. CASE ~\E i \in DOMAIN queue[s] : queue[s][i] = n
    BY <1>1, <1>2, <2>2 DEF Held, Somewhere
  <2> QED BY <2>1, <2>2
<1> QED BY <1>3, <1>4, <1>5, <1>6, <1>7

\* The message that arrives is the last, and goes to the end of one queue.
LEMMA LedgerReceive ==
  ASSUME IInv, Ledger, NEW m \in FromDevice, received' = Append(received, m),
         ReceiveDefault(m) \/ ReceiveKnown(m) \/ ReceiveUnknown(m),
         UNCHANGED <<contexts, waiters, status, given>>
  PROVE  Ledger'
<1> USE DEF Ledger, IInv
<1>1. PICK n : n = Len(received) + 1
  OBVIOUS
<1>2. /\ n \in Nat /\ n \in DOMAIN received' /\ received'[n] = m
      /\ \A k \in DOMAIN received : k \in DOMAIN received' /\ received'[k] = received[k]
      /\ ~ToDefault(m) => m.cmd \in Data /\ m.arg1 \in Streams
  BY <1>1, MessageReceived
<1>3. /\ \A k \in DOMAIN received : k \in Nat /\ k < n
      /\ \A k \in DOMAIN received' : k \in DOMAIN received \/ k = n
  <2>1. received \in Seq(Message) /\ m \in Message
    BY MessageReceived DEF TypeOK
  <2>2. Len(received) \in Nat /\ DOMAIN received = 1 .. Len(received)
    BY <2>1
  <2>3. DOMAIN Append(received, m) = 1 .. Len(received) + 1
    BY <2>1, AppendSeq
  <2> QED BY <1>1, <2>2, <2>3
<1>4. \A k \in DOMAIN received : Cmd(k)' = Cmd(k)
  BY <1>2 DEF Cmd
<1>5. /\ pending \in Seq(Nat) /\ \A i \in DOMAIN pending : pending[i] \in DOMAIN received
      /\ \A s \in Streams : /\ queue[s] \in Seq(Nat)
                            /\ \A i \in DOMAIN queue[s] : queue[s][i] \in DOMAIN received
      /\ \A c \in Clients : \A i \in DOMAIN given[c] : given[c][i] \in DOMAIN received
  BY DEF TypeOK, QueuesHold, GivenRight
<1>6. PICK c \in Clients :
        /\ c \in contexts \/ c = 0
        /\ c = 0 => /\ pending' = Append(pending, n) /\ queue' = queue
                    /\ m.cmd \in Data => m.arg1 \notin contexts
        /\ c # 0 => pending' = pending /\ queue' = [queue EXCEPT ![c] = Append(queue[c], n)]
  <2>1. CASE ReceiveDefault(m)
    <3>1. pending' = Append(pending, n) /\ queue' = queue
      BY <1>1, <2>1 DEF ReceiveDefault
    <3>2. m.cmd \in Data => m.arg1 \notin contexts
      BY <2>1, Zero, CommandsAssumption DEF ReceiveDefault, ToDefault, TypeOK
    <3> QED BY <3>1, <3>2, Zero
  <2>2. CASE ReceiveKnown(m)
    <3>1. /\ m.arg1 \in contexts /\ m.arg1 \in Streams /\ pending' = pending
          /\ queue' = [queue EXCEPT ![m.arg1] = Append(queue[m.arg1], n)]
      BY <1>1, <2>2 DEF ReceiveKnown, TypeOK
    <3> QED BY <3>1, Zero
  <2>3. CASE ReceiveUnknown(m)
    BY <1>1, <2>3, Zero DEF ReceiveUnknown, loopVars
  <2> QED BY <2>1, <2>2, <2>3
<1>7. c # 0 => /\ queue'[c] = Append(queue[c], n) /\ c \in Streams
               /\ \A s \in Streams : s # c => queue'[s] = queue[s]
  BY <1>6, Zero DEF TypeOK
<1>8. /\ Deque(c)' = Append(Deque(c), n) /\ Deque(c) \in Seq(Nat)
      /\ \A i \in DOMAIN Deque(c) : Deque(c)[i] \in DOMAIN received
      /\ \A d \in contexts \cup {0} : d # c => Deque(d)' = Deque(d)
  <2>1. \A d \in contexts : d # 0 /\ d \in Streams
    BY Zero DEF TypeOK
  <2> QED BY <1>5, <1>6, <1>7, <2>1 DEF Deque
<1>9. \A q \in Seq(Nat) :
        /\ \A j \in DOMAIN Append(q, n) : \/ j \in DOMAIN q /\ Append(q, n)[j] = q[j]
                                          \/ Append(q, n)[j] = n
        /\ \A j \in DOMAIN q : j \in DOMAIN Append(q, n) /\ Append(q, n)[j] = q[j]
        /\ \E j \in DOMAIN Append(q, n) : Append(q, n)[j] = n
  <2> SUFFICES ASSUME NEW q \in Seq(Nat)
               PROVE  /\ \A j \in DOMAIN Append(q, n) : \/ j \in DOMAIN q /\ Append(q, n)[j] = q[j]
                                                        \/ Append(q, n)[j] = n
                      /\ \A j \in DOMAIN q : j \in DOMAIN Append(q, n) /\ Append(q, n)[j] = q[j]
                      /\ \E j \in DOMAIN Append(q, n) : Append(q, n)[j] = n
    OBVIOUS
  <2>1. Len(q) + 1 \in DOMAIN Append(q, n) /\ Append(q, n)[Len(q) + 1] = n
    BY <1>2, AppendSeq
  <2> QED BY <1>2, <2>1, Enqueued
<1>10. Known'
  <2> SUFFICES ASSUME NEW k \in DOMAIN received' PROVE received'[k] \in FromDevice
    BY DEF Known, FromDevice
  <2> QED BY <1>2, <1>3 DEF Known
<1>11. Emptied'
  BY <1>6, <1>7, Zero DEF Emptied
<1>12. PendingApart'
  <2> SUFFICES ASSUME NEW i \in DOMAIN pending', received'[pending'[i]].cmd \in Data
               PROVE  received'[pending'[i]].arg1 \notin contexts
    BY DEF PendingApart, Cmd
  <2>1. CASE i \in DOMAIN pending /\ pending'[i] = pending[i]
    BY <1>2, <1>5, <2>1 DEF PendingApart, Cmd
  <2>2. CASE c = 0 /\ pending'[i] = n
    <3>1. pending'[i] = n /\ received'[n] = m
      BY <1>2, <2>2
    <3>2. m.cmd \in Data => m.arg1 \notin contexts
      BY <1>6, <2>2
    <3> QED BY <3>1, <3>2
  <2>3. pending' = pending \/ (c = 0 /\ pending' = Append(pending, n))
    BY <1>6
  <2>4. \/ i \in DOMAIN pending /\ pending'[i] = pending[i]
        \/ c = 0 /\ pending'[i] = n
    BY <1>5, <1>9, <2>3
  <2> QED BY <2>1, <2>2, <2>4
<1>13. QueuesSorted'
  BY <1>2, <1>3, <1>5, <1>6, <1>7, AppendSorted DEF QueuesSorted
<1>14. GivenInOrder'
  BY <1>4, <1>5 DEF GivenInOrder
<1>15. GivenFirst'
  <2> SUFFICES ASSUME NEW d \in contexts \cup {0}, NEW i \in DOMAIN given[d],
                      NEW j \in DOMAIN Deque(d)',
                      received'[given[d][i]].cmd = received'[Deque(d)'[j]].cmd
               PROVE  given[d][i] < Deque(d)'[j]
    BY DEF GivenFirst, Cmd
  <2>0. d \in Clients
    BY Zero DEF TypeOK
  <2>1. CASE d = c /\ Deque(d)'[j] = n
    BY <1>3, <1>5, <2>0, <2>1
  <2>2. CASE j \in DOMAIN Deque(d) /\ Deque(d)'[j] = Deque(d)[j]
    <3>1. Deque(d)[j] \in DOMAIN received
      BY <2>0, <2>2, DequeHolds
    <3>2. given[d][i] \in DOMAIN received
      BY <1>5, <2>0
    <3>3. received'[given[d][i]] = received[given[d][i]] /\ received'[Deque(d)[j]] = received[Deque(d)[j]]
      BY <1>2, <3>1, <3>2
    <3>4. Cmd(given[d][i]) = Cmd(Deque(d)[j])
      BY <2>2, <3>3 DEF Cmd
    <3> QED BY <2>2, <3>4 DEF GivenFirst
  <2>3. CASE d # c
    BY <1>8, <2>2, <2>3
  <2>4. CASE d = c
    <3>1. Deque(d)' = Append(Deque(d), n) /\ Deque(d) \in Seq(Nat)
      BY <1>8, <2>4
    <3> QED BY <1>9, <2>1, <2>2, <2>4, <3>1
  <2> QED BY <2>3, <2>4
<1>16. GivenGone'
  <2> SUFFICES ASSUME NEW s \in Streams, NEW i \in DOMAIN given[s], NEW j \in DOMAIN pending'
               PROVE  given[s][i] # pending'[j]
    BY DEF GivenGone
  <2>1. given[s][i] < n /\ given[s][i] \in Nat
    BY <1>3, <1>5, Zero
  <2>2. pending'[j] = n \/ (j \in DOMAIN pending /\ pending'[j] = pending[j])
    BY <1>5, <1>6, <1>9
  <2> QED BY <1>2, <2>1, <2>2 DEF GivenGone
<1>17. Held'
  <2> SUFFICES ASSUME NEW k \in DOMAIN received'
               PROVE  Somewhere(k)' \/ (received'[k].cmd \in Data /\ received'[k].arg1 \in Streams \ contexts)
    BY DEF Held, Cmd
  <2>1. CASE k = n
    <3>1. CASE c = 0
      BY <1>5, <1>6, <1>9, <2>1, <3>1 DEF Somewhere
    <3>2. CASE c # 0
      BY <1>5, <1>7, <1>9, <2>1, <3>2 DEF Somewhere
    <3> QED BY <3>1, <3>2
  <2>2. CASE k \in DOMAIN received
    <3>1. CASE Somewhere(k)
      <4>1. CASE \E i \in DOMAIN pending : pending[i] = k
        <5>1. PICK i \in DOMAIN pending : pending[i] = k
          BY <4>1
        <5>2. \/ pending' = pending
              \/ pending' = Append(pending, n)
          BY <1>6
        <5>3. i \in DOMAIN pending' /\ pending'[i] = pending[i]
          BY <1>5, <1>9, <5>2
        <5> QED BY <5>1, <5>3 DEF Somewhere
      <4>2. ASSUME NEW s \in Streams, NEW i \in DOMAIN queue[s], queue[s][i] = k
            PROVE  Somewhere(k)'
        <5>1. i \in DOMAIN queue'[s] /\ queue'[s][i] = queue[s][i]
          <6>1. queue'[s] = queue[s] \/ queue'[s] = Append(queue[s], n)
            BY <1>6, <1>7
          <6> QED BY <1>5, <1>9, <6>1
        <5> QED BY <4>2, <5>1 DEF Somewhere
      <4>3. CASE \E d \in Clients : \E i \in DOMAIN given[d] : given[d][i] = k
        BY <4>3 DEF Somewhere
      <4> QED BY <3>1, <4>1, <4>2, <4>3 DEF Somewhere
    <3>2. CASE Cmd(k) \in Data /\ received[k].arg1 \in Streams \ contexts
      BY <1>2, <2>2, <3>2 DEF Cmd
    <3> QED BY <2>2, <3>1, <3>2 DEF Held
  <2> QED BY <1>3, <2>1, <2>2
<1> QED BY <1>10, <1>11, <1>12, <1>13, <1>14, <1>15, <1>16, <1>17

LEMMA LedgerInit == Init => Ledger
<1> SUFFICES ASSUME Init PROVE Ledger
  OBVIOUS
<1>1. /\ received = <<>> /\ pending = <<>> /\ contexts = {}
      /\ \A s \in Streams : queue[s] = <<>>
      /\ \A c \in Clients : given[c] = <<>>
  BY DEF Init
<1>2. Known /\ Emptied /\ PendingApart /\ QueuesSorted /\ Held
  BY <1>1, EmptySeq DEF Known, Emptied, PendingApart, QueuesSorted, Sorted, Held
<1>3. GivenInOrder /\ GivenFirst /\ GivenGone
  BY <1>1, EmptySeq, Zero DEF GivenInOrder, GivenFirst, GivenGone
<1> QED BY <1>2, <1>3 DEF Ledger

LEMMA LedgerCoWait ==
  ASSUME IInv, Ledger, NEW c \in Clients, c = 0 \/ c \in contexts, status[c] # "unborn", NEW cmds,
         CoWait(c, cmds), UNCHANGED <<received, contexts>>
  PROVE  Ledger'
<1>0. TypeOK /\ QueuesHold /\ GivenRight
  BY DEF IInv
<1>1. CASE \E i \in FirstMatch(cmds, Deque(c)) : HandOver(c, i)
  <2>1. PICK i \in FirstMatch(cmds, Deque(c)) : HandOver(c, i)
    BY <1>1
  <2>2. StatusGrows
    BY <1>0, <2>1, Zero DEF HandOver, StatusGrows, TypeOK
  <2> QED BY <1>0, <2>1, <2>2, LedgerHandOver
<1>2. CASE AddWaiter(c, cmds) /\ UNCHANGED <<given, queue, pending>>
  <2>1. StatusGrows
    BY <1>0, <1>2, Zero DEF AddWaiter, StatusGrows, TypeOK
  <2> QED BY <1>2, <2>1, LedgerQuiet
<1> QED BY <1>1, <1>2 DEF CoWait

LEMMA LedgerNext == IInv /\ Ledger /\ [Next]_vars => Ledger'
<1> SUFFICES ASSUME IInv, Ledger, [Next]_vars PROVE Ledger'
  OBVIOUS
<1>0. TypeOK /\ StreamStatus /\ OneFresh
  BY DEF IInv
<1>1. CASE StartConnect
  <2>1. StatusGrows
    BY <1>0, <1>1, Zero DEF StartConnect, StatusGrows, TypeOK
  <2> QED BY <1>1, <2>1, LedgerQuiet DEF StartConnect, sessionVars
<1>2. CASE ConnectWait
  <2>1. PICK cmds \in ControlWaits : CoWait(0, cmds)
    BY <1>2 DEF ConnectWait, ConnectWaitFor
  <2>2. status[0] # "unborn" /\ UNCHANGED <<received, contexts>>
    BY <1>2 DEF ConnectWait, ConnectWaitFor
  <2> QED BY <2>1, <2>2, LedgerCoWait, Zero
<1>3. ASSUME NEW s \in Streams, WaitAgain(s) PROVE Ledger'
  <2>1. PICK cmds \in DataWaits : CoWait(s, cmds)
    BY <1>3 DEF WaitAgain
  <2>2. status[s] = "running" /\ UNCHANGED <<received, contexts>>
    BY <1>3 DEF WaitAgain
  <2>3. s \in contexts
    BY <1>0, <2>2, OwnQueue
  <2> QED BY <2>1, <2>2, <2>3, LedgerCoWait, Zero
<1>4. ASSUME NEW c \in Clients, Finish(c) \/ Expire(c) \/ TimeOut(c) PROVE Ledger'
  <2>1. StatusGrows
    BY <1>0, <1>4, Zero DEF Finish, Expire, TimeOut, StatusGrows, TypeOK
  <2> QED BY <1>4, <2>1, LedgerQuiet DEF Finish, Expire, TimeOut, sessionVars
<1>5. CASE Receive
  <2>1. PICK m \in FromDevice : /\ received' = Append(received, m)
                                /\ ReceiveDefault(m) \/ ReceiveKnown(m) \/ ReceiveUnknown(m)
    BY <1>5 DEF Receive
  <2> QED BY <1>5, <2>1, LedgerReceive DEF Receive
<1>6. CASE CheckMatch
  <2>1. PICK c \in Clients : c = scanned
    BY <1>0 DEF TypeOK
  <2>2. cursor \in DOMAIN waiters[c]
    BY <1>0, <1>6, <2>1, WaiterErased DEF CheckMatch
  <2>3. status[c] = "waiting"
    BY <1>0, <1>6, <2>1, <2>2 DEF OneFresh, Fresh, Current, CheckMatch
  <2>4. c = 0 \/ c \in contexts
    BY <1>0, <2>3, OwnQueue, Zero
  <2>5. PICK cmds : cmds = Current.cmds
    OBVIOUS
  <2>6. PICK i \in FirstMatch(cmds, Deque(c)) : HandOver(c, i)
    BY <1>6, <2>1, <2>5 DEF CheckMatch
  <2>7. UNCHANGED <<received, contexts>>
    BY <1>6 DEF CheckMatch
  <2>8. StatusGrows
    BY <1>0, <2>3, <2>6, Zero DEF HandOver, StatusGrows, TypeOK
  <2>9. TypeOK /\ QueuesHold /\ GivenRight
    BY DEF IInv
  <2> QED BY <2>4, <2>6, <2>7, <2>8, <2>9, LedgerHandOver
<1>7. CASE CheckExpired \/ CheckNext \/ CheckEnd \/ UNCHANGED vars
  <2>1. UNCHANGED <<received, contexts, queue, pending, given, status>>
    BY <1>7 DEF CheckExpired, CheckNext, CheckEnd, vars, sessionVars
  <2> QED BY <2>1, LedgerQuiet DEF StatusGrows
<1> QED BY <1>1, <1>2, <1>3, <1>4, <1>5, <1>6, <1>7, LedgerOpen, LedgerRemove, Zero
        DEF Next, Handler, CheckWaiters

LEMMA SafetyLedger == Init /\ [][Next]_vars => [](IInv /\ Ledger)
<1>1. Init => IInv /\ Ledger
  BY InitInv, LedgerInit
<1>2. (IInv /\ Ledger) /\ [Next]_vars => (IInv /\ Ledger)'
  BY NextInv, LedgerNext
<1> QED BY <1>1, <1>2, PTL

\* The parts of OrderKept, put together.
LEMMA InOrderConsequence == ASSUME IInv, Ledger PROVE OrderKept
<1> USE DEF IInv, Ledger
<1> SUFFICES ASSUME NEW c \in Clients, NEW p,
                    p = IF c \in contexts \cup {0} THEN Deque(c) ELSE <<>>,
                    NEW i \in DOMAIN (given[c] \o p), NEW j \in DOMAIN (given[c] \o p), i < j,
                    Cmd((given[c] \o p)[i]) = Cmd((given[c] \o p)[j])
             PROVE  (given[c] \o p)[i] < (given[c] \o p)[j]
  BY DEF OrderKept
<1>1. PICK g \in Seq(Nat) : g = given[c]
  BY DEF TypeOK
<1>2. p \in Seq(Nat) /\ Sorted(p)
  <2>1. CASE c \in contexts
    BY <2>1 DEF TypeOK, Deque, QueuesSorted
  <2>2. CASE c \notin contexts /\ c = 0
    BY <2>2 DEF TypeOK, Deque, QueuesSorted
  <2>3. CASE c \notin contexts \cup {0}
    BY <2>3, EmptySeq DEF Sorted
  <2> QED BY <2>1, <2>2, <2>3
<1>3. /\ Len(g \o p) = Len(g) + Len(p) /\ DOMAIN (g \o p) = 1 .. Len(g) + Len(p)
      /\ \A n \in 1 .. Len(g) : (g \o p)[n] = g[n]
      /\ \A n \in Len(g) + 1 .. Len(g) + Len(p) : (g \o p)[n] = p[n - Len(g)]
      /\ Len(g) \in Nat /\ Len(p) \in Nat /\ DOMAIN g = 1 .. Len(g) /\ DOMAIN p = 1 .. Len(p)
  <2>1. Len(g) \in Nat /\ Len(p) \in Nat /\ DOMAIN g = 1 .. Len(g) /\ DOMAIN p = 1 .. Len(p)
    BY <1>1, <1>2
  <2>2. /\ g \o p \in Seq(Nat) /\ Len(g \o p) = Len(g) + Len(p)
        /\ \A n \in 1 .. Len(g) : (g \o p)[n] = g[n]
        /\ \A n \in Len(g) + 1 .. Len(g) + Len(p) : (g \o p)[n] = p[n - Len(g)]
    <3>1. g \in Seq(Nat) /\ p \in Seq(Nat)
      BY <1>1, <1>2
    <3> QED BY <3>1, Glue
  <2>3. DOMAIN (g \o p) = 1 .. Len(g \o p)
    BY <2>2
  <2> QED BY <2>1, <2>2, <2>3
<1>7. i \in 1 .. Len(g) + Len(p) /\ j \in 1 .. Len(g) + Len(p)
  BY <1>1, <1>3
<1>4. CASE j \in 1 .. Len(g)
  <2>1. i \in DOMAIN given[c] /\ j \in DOMAIN given[c]
    BY <1>1, <1>3, <1>4
  <2> QED BY <1>1, <1>3, <2>1 DEF GivenInOrder
<1>5. CASE i \in 1 .. Len(g) /\ j \notin 1 .. Len(g)
  <2>1. j - Len(g) \in DOMAIN p /\ (g \o p)[j] = p[j - Len(g)]
    <3>1. j \in Len(g) + 1 .. Len(g) + Len(p) /\ j - Len(g) \in 1 .. Len(p)
      BY <1>3, <1>5, <1>7
    <3> QED BY <1>3, <3>1
  <2>2. c \in contexts \cup {0} /\ p = Deque(c)
    BY <2>1, EmptySeq
  <2> QED BY <1>1, <1>3, <1>5, <2>1, <2>2 DEF GivenFirst
<1>6. CASE i \notin 1 .. Len(g)
  <2>1. /\ i - Len(g) \in DOMAIN p /\ (g \o p)[i] = p[i - Len(g)]
        /\ j - Len(g) \in DOMAIN p /\ (g \o p)[j] = p[j - Len(g)]
        /\ i - Len(g) < j - Len(g)
    <3>1. /\ i \in Len(g) + 1 .. Len(g) + Len(p) /\ i - Len(g) \in 1 .. Len(p)
          /\ j \in Len(g) + 1 .. Len(g) + Len(p) /\ j - Len(g) \in 1 .. Len(p)
      BY <1>3, <1>6, <1>7
    <3> QED BY <1>3, <1>7, <3>1
  <2> QED BY <1>1, <1>2, <2>1 DEF Sorted
<1> QED BY <1>1, <1>3, <1>4, <1>5, <1>6

\* What two clients were handed differs, and so does what one was twice.
LEMMA GivenOnce ==
  ASSUME IInv, Ledger, NEW c \in Clients, NEW d \in Clients,
         NEW i \in DOMAIN given[c], NEW j \in DOMAIN given[d], given[c][i] = given[d][j]
  PROVE  c = d /\ i = j
<1> USE DEF IInv, Ledger
<1>1. c = d
  BY CommandsAssumption DEF GivenRight, Wanted
<1>2. i \in Nat /\ j \in Nat /\ given[c][i] \in Nat
  <2>1. given[c] \in Seq(Nat) /\ given[d] \in Seq(Nat)
    BY DEF TypeOK
  <2> QED BY <2>1
<1>3. ~(i < j) /\ ~(j < i)
  BY <1>1, <1>2 DEF GivenInOrder
<1> QED BY <1>1, <1>2, <1>3

LEMMA SortedOnce ==
  ASSUME NEW q \in Seq(Nat), Sorted(q), NEW i \in DOMAIN q, NEW j \in DOMAIN q, q[i] = q[j]
  PROVE  i = j
<1>1. i \in Nat /\ j \in Nat /\ q[i] \in Nat
  OBVIOUS
<1> QED BY <1>1 DEF Sorted

LEMMA QueuedOnce ==
  ASSUME IInv, Ledger
  PROVE  /\ \A i, j \in DOMAIN pending : pending[i] = pending[j] => i = j
         /\ \A s, t \in contexts : \A i \in DOMAIN queue[s], j \in DOMAIN queue[t] :
              queue[s][i] = queue[t][j] => s = t /\ i = j
         /\ \A s \in contexts : \A i \in DOMAIN queue[s], j \in DOMAIN pending :
              queue[s][i] # pending[j]
<1> USE DEF IInv, Ledger
<1>0. contexts \subseteq Streams
  BY DEF TypeOK
<1>1. \A i, j \in DOMAIN pending : pending[i] = pending[j] => i = j
  BY SortedOnce DEF TypeOK, QueuesSorted
<1>2. \A s, t \in contexts : \A i \in DOMAIN queue[s], j \in DOMAIN queue[t] :
        queue[s][i] = queue[t][j] => s = t /\ i = j
  <2> SUFFICES ASSUME NEW s \in contexts, NEW t \in contexts,
                      NEW i \in DOMAIN queue[s], NEW j \in DOMAIN queue[t], queue[s][i] = queue[t][j]
               PROVE  s = t /\ i = j
    OBVIOUS
  <2>1. s = t
    BY <1>0 DEF QueuesHold
  <2>2. queue[s] \in Seq(Nat) /\ Sorted(queue[s])
    BY <1>0 DEF TypeOK, QueuesSorted
  <2> QED BY <2>1, <2>2, SortedOnce
<1>3. \A s \in contexts : \A i \in DOMAIN queue[s], j \in DOMAIN pending :
        queue[s][i] # pending[j]
  BY <1>0 DEF QueuesHold, PendingApart
<1> QED BY <1>1, <1>2, <1>3

LEMMA GivenNotQueued ==
  ASSUME IInv, Ledger, NEW c \in Clients, NEW i \in DOMAIN given[c]
  PROVE  /\ \A j \in DOMAIN pending : given[c][i] # pending[j]
         /\ \A s \in contexts : \A j \in DOMAIN queue[s] : given[c][i] # queue[s][j]
<1> USE DEF IInv, Ledger
<1>0. /\ contexts \subseteq Streams /\ 0 \notin contexts /\ Deque(0) = pending
      /\ given[c][i] \in Nat
  <2>1. given[c] \in Seq(Nat)
    BY DEF TypeOK
  <2> QED BY <2>1, Zero DEF TypeOK, Deque
<1>1. ASSUME NEW j \in DOMAIN pending PROVE given[c][i] # pending[j]
  <2>1. CASE c = 0
    BY <1>0, <2>1 DEF GivenFirst
  <2>2. CASE c # 0
    BY <2>2, Zero DEF GivenGone
  <2> QED BY <2>1, <2>2
<1>2. ASSUME NEW s \in contexts, NEW j \in DOMAIN queue[s] PROVE given[c][i] # queue[s][j]
  <2>1. CASE c = s
    <3>1. Deque(c) = queue[s]
      BY <2>1 DEF Deque
    <3> QED BY <1>0, <2>1, <3>1 DEF GivenFirst
  <2>2. CASE c # s
    BY <1>0, <2>2, CommandsAssumption DEF QueuesHold, GivenRight, Wanted
  <2> QED BY <2>1, <2>2
<1> QED BY <1>1, <1>2

\* A slot is a place in one of the queues.
LEMMA SlotKinds ==
  ASSUME NEW a \in Slots
  PROVE  \/ \E i \in DOMAIN pending : a = <<"pending", 0, i>> /\ Rank(a) = pending[i]
         \/ \E s \in contexts : \E i \in DOMAIN queue[s] : a = <<"queue", s, i>> /\ Rank(a) = queue[s][i]
         \/ \E c \in Clients : \E i \in DOMAIN given[c] : a = <<"given", c, i>> /\ Rank(a) = given[c][i]
<1>1. CASE \E i \in DOMAIN pending : a = <<"pending", 0, i>>
  BY <1>1 DEF Rank
<1>2. CASE \E s \in contexts : \E i \in DOMAIN queue[s] : a = <<"queue", s, i>>
  BY <1>2 DEF Rank
<1>3. CASE \E c \in Clients : \E i \in DOMAIN given[c] : a = <<"given", c, i>>
  BY <1>3 DEF Rank
<1>4. a \in UNION {{<<"queue", s, i>> : i \in DOMAIN queue[s]} : s \in contexts} =>
        \E s \in contexts : \E i \in DOMAIN queue[s] : a = <<"queue", s, i>>
  OBVIOUS
<1>5. a \in UNION {{<<"given", c, i>> : i \in DOMAIN given[c]} : c \in Clients} =>
        \E c \in Clients : \E i \in DOMAIN given[c] : a = <<"given", c, i>>
  OBVIOUS
<1>6. \/ a \in {<<"pending", 0, i>> : i \in DOMAIN pending}
      \/ a \in UNION {{<<"queue", s, i>> : i \in DOMAIN queue[s]} : s \in contexts}
      \/ a \in UNION {{<<"given", c, i>> : i \in DOMAIN given[c]} : c \in Clients}
  BY DEF Slots
<1> QED BY <1>1, <1>2, <1>3, <1>4, <1>5, <1>6

LEMMA OnceConsequence == ASSUME IInv, Ledger PROVE ExactlyOnce
<1>1. ASSUME NEW a \in Slots, NEW b \in Slots, Rank(a) = Rank(b) PROVE a = b
  <2>1. CASE \E i \in DOMAIN pending : a = <<"pending", 0, i>> /\ Rank(a) = pending[i]
    <3>1. PICK i \in DOMAIN pending : a = <<"pending", 0, i>> /\ Rank(a) = pending[i]
      BY <2>1
    <3>2. ~\E s \in contexts : \E j \in DOMAIN queue[s] : b = <<"queue", s, j>> /\ Rank(b) = queue[s][j]
      BY <1>1, <3>1, QueuedOnce
    <3>3. ~\E c \in Clients : \E j \in DOMAIN given[c] : b = <<"given", c, j>> /\ Rank(b) = given[c][j]
      BY <1>1, <3>1, GivenNotQueued
    <3>4. PICK j \in DOMAIN pending : b = <<"pending", 0, j>> /\ Rank(b) = pending[j]
      BY <3>2, <3>3, SlotKinds
    <3> QED BY <1>1, <3>1, <3>4, QueuedOnce
  <2>2. CASE \E s \in contexts : \E i \in DOMAIN queue[s] : a = <<"queue", s, i>> /\ Rank(a) = queue[s][i]
    BY <1>1, <2>2, SlotKinds, QueuedOnce, GivenNotQueued
  <2>3. CASE \E c \in Clients : \E i \in DOMAIN given[c] : a = <<"given", c, i>> /\ Rank(a) = given[c][i]
    BY <1>1, <2>3, SlotKinds, GivenOnce, GivenNotQueued
  <2> QED BY <2>1, <2>2, <2>3, SlotKinds
<1>2. ASSUME NEW n \in DOMAIN received
      PROVE  \/ \E a \in Slots : Rank(a) = n
             \/ Cmd(n) \in Data /\ received[n].arg1 \in Streams \ contexts
  <2>1. CASE \E i \in DOMAIN pending : pending[i] = n
    <3>1. PICK i \in DOMAIN pending : pending[i] = n
      BY <2>1
    <3>2. <<"pending", 0, i>> \in Slots /\ Rank(<<"pending", 0, i>>) = n
      BY <3>1 DEF Slots, Rank
    <3> QED BY <3>2
  <2>2. CASE \E s \in Streams : \E i \in DOMAIN queue[s] : queue[s][i] = n
    <3>0. PICK s \in Streams : \E i \in DOMAIN queue[s] : queue[s][i] = n
      BY <2>2
    <3>1. PICK i \in DOMAIN queue[s] : queue[s][i] = n
      BY <3>0
    <3>2. s \in contexts
      BY <3>1, EmptySeq DEF Ledger, Emptied
    <3>3. <<"queue", s, i>> \in Slots
      <4>1. <<"queue", s, i>> \in {<<"queue", s, k>> : k \in DOMAIN queue[s]}
        BY <3>1
      <4> QED BY <3>2, <4>1 DEF Slots
    <3>4. Rank(<<"queue", s, i>>) = n
      BY <3>1 DEF Rank
    <3> QED BY <3>3, <3>4
  <2>3. CASE \E c \in Clients : \E i \in DOMAIN given[c] : given[c][i] = n
    <3>0. PICK c \in Clients : \E i \in DOMAIN given[c] : given[c][i] = n
      BY <2>3
    <3>1. PICK i \in DOMAIN given[c] : given[c][i] = n
      BY <3>0
    <3>2. <<"given", c, i>> \in Slots
      <4>1. <<"given", c, i>> \in {<<"given", c, k>> : k \in DOMAIN given[c]}
        BY <3>1
      <4> QED BY <3>0, <4>1 DEF Slots
    <3>3. Rank(<<"given", c, i>>) = n
      BY <3>1 DEF Rank
    <3> QED BY <3>2, <3>3
  <2> QED BY <2>1, <2>2, <2>3 DEF Ledger, Held, Somewhere
<1> QED BY <1>1, <1>2 DEF ExactlyOnce

(* No message is lost, doubled or handed to two clients: whatever the      *)
(* order in which streams are opened and removed, waits are placed and     *)
(* expire, and callbacks of checkWaiters take messages out of its queues.  *)
THEOREM NothingLost == Spec => []ExactlyOnce
<1>1. Spec => [](IInv /\ Ledger)
  BY SafetyLedger, PTL DEF Spec
<1>2. IInv /\ Ledger => ExactlyOnce
  BY OnceConsequence
<1> QED BY <1>1, <1>2, PTL

(* findCommandByDeque never hands out a message before an older one of the *)
(* same stream and command.                                                *)
THEOREM InOrder == Spec => []OrderKept
<1>1. Spec => [](IInv /\ Ledger)
  BY SafetyLedger, PTL DEF Spec
<1>2. IInv /\ Ledger => OrderKept
  BY InOrderConsequence
<1> QED BY <1>1, <1>2, PTL
=============================================================================
