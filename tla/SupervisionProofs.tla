--------------------------- MODULE SupervisionProofs ---------------------------
(* Theorems about Supervision, for any number of nodes and any table size. *)
EXTENDS Supervision, SequenceTheorems, FiniteSetTheorems, TLAPS

--------------------------------------------------------------------------------
(* The counters *)

LEMMA CounterFacts ==
    ASSUME NEW a \in Millis, NEW b \in Millis
    PROVE  /\ Later(a) \in Millis
           /\ Minus(a, b) \in Millis
           /\ Minus(a, a) = 0
           /\ Minus(a, b) + 1 < Modulus => Minus(Later(a), b) = Minus(a, b) + 1
BY MonitorAssumption DEF Millis, Later, Minus

--------------------------------------------------------------------------------
(* The table *)

LEMMA EntryFacts ==
    ASSUME NEW t \in Seq(PeerRecord), NEW i \in DOMAIN t
    PROVE  /\ t[i] \in PeerRecord
           /\ t[i].node \in Nodes /\ t[i].lastSeen \in Millis /\ t[i].uptime \in Millis
           /\ t[i].status \in {"ALIVE", "LOST"}
<1>1. t[i] \in PeerRecord BY LenProperties, ElementOfSeq
<1> QED BY <1>1 DEF PeerRecord

LEMMA SlotFacts ==
    ASSUME NEW t \in Seq(PeerRecord), OneSlot(t), NEW i \in DOMAIN t
    PROVE  /\ Known(t, t[i].node)
           /\ Slot(t, t[i].node) = i
           /\ StatusIn(t, t[i].node) = t[i].status
<1>1. Known(t, t[i].node) BY DEF Known
<1>2. \A k \in DOMAIN t :
          (t[k].node = t[i].node /\ \A j \in DOMAIN t : j < k => t[j].node # t[i].node) <=> k = i
  BY LenProperties DEF OneSlot
<1>3. Slot(t, t[i].node) = i BY <1>2 DEF Slot
<1> QED BY <1>1, <1>3 DEF StatusIn

\* A heartbeat of n turns table t into h: it touches the slot of its sender only,
\* and makes one if there is none and there is room.
Hears(t, n, up, tm, h) ==
    /\ h \in Seq(PeerRecord) /\ Len(h) <= MaxNodes /\ OneSlot(h)
    /\ \A i \in DOMAIN h : \/ Accepted(t, n) /\ h[i] = Peer(n, up, tm)
                           \/ i \in DOMAIN t /\ h[i] = t[i] /\ (Accepted(t, n) => t[i].node # n)
    /\ Accepted(t, n) => \E i \in DOMAIN h : h[i] = Peer(n, up, tm)
    /\ \A i \in DOMAIN t : t[i].node = n \/ (i \in DOMAIN h /\ h[i] = t[i])
    /\ ~Accepted(t, n) => h = t

LEMMA HeardFacts ==
    ASSUME NEW t \in Seq(PeerRecord), OneSlot(t), Len(t) <= MaxNodes,
           NEW n \in Nodes, NEW up \in Millis, NEW tm \in Millis
    PROVE  Hears(t, n, up, tm, Heard(t, n, up, tm))
<1> DEFINE h == Heard(t, n, up, tm)
<1> USE DEF Hears
<1>1. Len(t) \in Nat /\ DOMAIN t = 1..Len(t) BY LenProperties
<1>2. Peer(n, up, tm) \in PeerRecord /\ Peer(n, up, tm).node = n
  BY DEF Peer, PeerRecord
<1>3. CASE ~Accepted(t, n) BY <1>3 DEF Heard
<1>4. CASE Accepted(t, n) /\ Known(t, n)
  <2>1. PICK k \in DOMAIN t : t[k].node = n BY <1>4 DEF Known
  <2>2. Slot(t, n) = k BY <2>1, SlotFacts
  <2>3. h = [t EXCEPT ![k] = Peer(n, up, tm)] BY <1>4, <2>2 DEF Heard
  <2>4. /\ h \in Seq(PeerRecord) /\ Len(h) = Len(t)
        /\ \A j \in 1..Len(t) : h[j] = IF j = k THEN Peer(n, up, tm) ELSE t[j]
    BY <1>1, <1>2, <2>1, <2>3, ExceptSeq
  <2>5. DOMAIN h = 1..Len(t) BY <2>4, LenProperties
  <2>6. OneSlot(h)
    BY <1>1, <1>2, <2>1, <2>4, <2>5 DEF OneSlot
  <2>7. \A j \in DOMAIN t : j # k => t[j].node # n BY <2>1 DEF OneSlot
  <2> QED BY <1>1, <1>4, <2>1, <2>4, <2>5, <2>6, <2>7
<1>5. CASE Accepted(t, n) /\ ~Known(t, n)
  <2>1. Len(t) < MaxNodes /\ Valid(n) BY <1>5 DEF Accepted
  <2>2. h = Append(t, Peer(n, up, tm)) BY <1>5 DEF Heard
  <2>3. /\ h \in Seq(PeerRecord) /\ Len(h) = Len(t) + 1
        /\ \A j \in 1..Len(t) : h[j] = t[j]
        /\ h[Len(t) + 1] = Peer(n, up, tm)
    BY <1>1, <1>2, <2>2
  <2>4. DOMAIN h = 1..(Len(t) + 1) BY <2>3, LenProperties
  <2>5. \A j \in DOMAIN t : t[j].node # n BY <1>5 DEF Known
  <2>6. OneSlot(h)
    BY <1>1, <1>2, <2>1, <2>3, <2>4, <2>5 DEF OneSlot
  <2> QED BY MonitorAssumption, <1>1, <1>5, <2>1, <2>3, <2>4, <2>5, <2>6
<1> QED BY <1>3, <1>4, <1>5

\* Polling changes nothing but the status of the peers that are too old.
LEMMA PolledFacts ==
    ASSUME NEW t \in Seq(PeerRecord), OneSlot(t), NEW tm \in Millis,
           NEW p, p = Polled(t, tm)
    PROVE  /\ p \in Seq(PeerRecord) /\ Len(p) = Len(t) /\ DOMAIN p = DOMAIN t /\ OneSlot(p)
           /\ \A i \in DOMAIN t :
                  /\ p[i].node = t[i].node /\ p[i].lastSeen = t[i].lastSeen
                  /\ p[i].uptime = t[i].uptime
                  /\ p[i].status = IF Expired(t[i], tm) THEN "LOST" ELSE t[i].status
<1>1. Len(t) \in Nat /\ DOMAIN t = 1..Len(t) /\ t \in [1..Len(t) -> PeerRecord]
  BY LenProperties
<1>2. \A i \in DOMAIN t :
          /\ p[i] \in PeerRecord
          /\ p[i].node = t[i].node /\ p[i].lastSeen = t[i].lastSeen
          /\ p[i].uptime = t[i].uptime
          /\ p[i].status = IF Expired(t[i], tm) THEN "LOST" ELSE t[i].status
  <2> TAKE i \in DOMAIN t
  <2>1. t[i] \in PeerRecord BY <1>1
  <2>2. p[i] = IF Expired(t[i], tm) THEN [t[i] EXCEPT !.status = "LOST"] ELSE t[i]
    BY DEF Polled
  <2> QED BY <2>1, <2>2 DEF PeerRecord
<1>3. p \in [1..Len(t) -> PeerRecord] BY <1>1, <1>2 DEF Polled
<1>4. p \in Seq(PeerRecord) /\ Len(p) = Len(t) BY <1>1, <1>3
<1>5. DOMAIN p = DOMAIN t BY DEF Polled
<1>6. OneSlot(p) BY <1>2, <1>5 DEF OneSlot
<1> QED BY <1>2, <1>4, <1>5, <1>6

\* The copy for the display.
LEMMA ViewType ==
    ASSUME NEW t \in Seq(PeerRecord)
    PROVE  View(t) \in Seq([node : Nodes, status : {"ALIVE", "LOST"}])
<1> DEFINE n == IF Len(t) <= ViewPeers THEN Len(t) ELSE ViewPeers
<1>1. Len(t) \in Nat /\ DOMAIN t = 1..Len(t) /\ ViewPeers \in Nat
  BY LenProperties, SupervisionAssumption
<1>2. n \in Nat /\ {j \in DOMAIN t : j <= ViewPeers} = 1..n BY <1>1
<1>3. \A i \in 1..n : [node |-> t[i].node, status |-> t[i].status]
                          \in [node : Nodes, status : {"ALIVE", "LOST"}]
  BY <1>1, <1>2, EntryFacts
<1> HIDE DEF n
<1> DEFINE E == [node : Nodes, status : {"ALIVE", "LOST"}]
<1>4. View(t) \in [1..n -> E] BY <1>2, <1>3 DEF View
<1> HIDE DEF E
<1>5. View(t) \in Seq(E) BY <1>2, <1>4
<1> QED BY <1>5 DEF E

LEMMA AliveCountType ==
    ASSUME NEW t \in Seq(PeerRecord)
    PROVE  AliveCount(t) \in 0..Len(t)
<1>1. Len(t) \in Nat /\ DOMAIN t = 1..Len(t) BY LenProperties
<1>2. IsFiniteSet(1..Len(t)) /\ Cardinality(1..Len(t)) = Len(t) BY <1>1, FS_Interval
<1>3. {i \in DOMAIN t : t[i].status = "ALIVE"} \in SUBSET (1..Len(t)) BY <1>1
<1>4. AliveCount(t) \in Nat /\ AliveCount(t) <= Len(t)
  BY <1>2, <1>3, FS_Subset, FS_CardinalityType DEF AliveCount
<1> QED BY <1>1, <1>4

--------------------------------------------------------------------------------
(* The inductive invariant *)

LEMMA Bounds ==
    /\ Timeout \in Nat /\ PollMax \in Nat \ {0} /\ Modulus \in Nat \ {0} /\ MaxNodes \in Nat
    /\ Long = Timeout + PollMax + 1 /\ Timeout + PollMax < Modulus /\ 0 \in Millis
    /\ Restarting \subseteq Nodes
BY MonitorAssumption, SupervisionAssumption DEF Long, Millis

LEMMA InitIInv == Init => IInv
<1> SUFFICES ASSUME Init PROVE IInv
  OBVIOUS
<1>1. peers \in Seq(PeerRecord) /\ Len(peers) = 0 /\ DOMAIN peers = {}
  BY EmptySeq DEF Init
<1>2. TypeOK BY <1>1, EmptySeq, Bounds DEF Init, TypeOK
<1>3. ViewIsCurrent BY <1>1 DEF Init, ViewIsCurrent, View
<1> QED BY <1>1, <1>2, <1>3 DEF IInv, OneSlotPerNode, OneSlot, AgeExact

LEMMA TickIInv ==
    ASSUME IInv, Tick
    PROVE  IInv'
<1>1. TypeOK /\ peers' = peers /\ now' = Later(now) /\ sinceLoop' = sinceLoop + 1
  BY DEF IInv, Tick
<1>2. sinceLoop \in 0..PollMax /\ sinceLoop < PollMax /\ now \in Millis
  BY DEF IInv, TypeOK, Tick
<1>3. \A n \in Nodes : Later(uptime[n]) \in Millis
  BY <1>1, CounterFacts DEF TypeOK
<1>4. TypeOK'
  <2>1. rx' \subseteq [node : Nodes, uptime : Millis]
    BY <1>3 DEF Tick
  <2>2. uptime' \in [Nodes -> Millis] BY <1>3 DEF Tick
  <2>3. now' \in Millis BY <1>1, <1>2, CounterFacts
  <2>4. silence' \in [Nodes -> 0..Long]
    BY <1>1, Bounds DEF Tick, TypeOK, Older
  <2>5. restarts' \in [Nodes -> SUBSET {"reset", "wrap"}]
    BY <1>1 DEF Tick, TypeOK
  <2>6. sinceLoop' \in 0..PollMax BY <1>1, <1>2, Bounds
  <2> QED BY <1>1, <2>1, <2>2, <2>3, <2>4, <2>5, <2>6 DEF Tick, TypeOK
<1>5. AgeExact'
  <2> SUFFICES ASSUME NEW i \in DOMAIN peers, peers[i].status = "ALIVE"
               PROVE  /\ Minus(now', peers[i].lastSeen) = silence'[peers[i].node]
                      /\ silence'[peers[i].node] <= Timeout + sinceLoop'
    BY <1>1 DEF AgeExact
  <2> DEFINE n == peers[i].node
  <2>1. n \in Nodes /\ peers[i].lastSeen \in Millis
    BY <1>1, EntryFacts DEF TypeOK
  <2>2. silence[n] \in Nat BY <1>1, <2>1, Bounds DEF TypeOK
  <2>3. Minus(now, peers[i].lastSeen) = silence[n] /\ silence[n] <= Timeout + sinceLoop
    BY DEF IInv, AgeExact
  <2>4. silence'[n] = silence[n] + 1
    BY <1>2, <2>1, <2>2, <2>3, Bounds DEF Tick, Older
  <2>5. Minus(now', peers[i].lastSeen) = silence[n] + 1
    BY <1>1, <1>2, <2>1, <2>2, <2>3, Bounds, CounterFacts
  <2> QED BY <1>1, <1>2, <2>2, <2>3, <2>4, <2>5, Bounds
<1>6. OneSlotPerNode' /\ ViewIsCurrent'
  BY <1>1 DEF IInv, OneSlotPerNode, ViewIsCurrent, Tick
<1> QED BY <1>4, <1>5, <1>6 DEF IInv

LEMMA ResetIInv ==
    ASSUME IInv, NEW n \in Restarting, Reset(n)
    PROVE  IInv'
<1>1. n \in Nodes BY Bounds
<1>2. TypeOK' BY <1>1, Bounds DEF IInv, TypeOK, Reset
<1>3. OneSlotPerNode' /\ AgeExact' /\ ViewIsCurrent'
  BY DEF IInv, OneSlotPerNode, AgeExact, ViewIsCurrent, Reset
<1> QED BY <1>2, <1>3 DEF IInv

\* A round that polls a table whose living peers have their true age leaves only
\* peers alive that are within the timeout.
LEMMA PollIInv ==
    ASSUME TypeOK, NEW t \in Seq(PeerRecord), Len(t) <= MaxNodes, OneSlot(t), Poll(t),
           silence' \in [Nodes -> 0..Long],
           \A i \in DOMAIN t : t[i].status = "ALIVE" =>
               Minus(now, t[i].lastSeen) = silence'[t[i].node]
    PROVE  /\ peers' \in Seq(PeerRecord) /\ Len(peers') <= MaxNodes
           /\ alivePeers' \in 0..Len(peers') /\ view' \in Seq([node : Nodes, status : {"ALIVE", "LOST"}])
           /\ now' = now /\ uptime' = uptime /\ sinceLoop' = 0
           /\ OneSlotPerNode' /\ AgeExact' /\ ViewIsCurrent'
<1>1. /\ peers' = Polled(t, now) /\ alivePeers' = AliveCount(Polled(t, now))
      /\ now' = now /\ uptime' = uptime /\ sinceLoop' = 0 /\ now \in Millis
  BY DEF Poll, TypeOK
<1>2. /\ peers' \in Seq(PeerRecord) /\ Len(peers') = Len(t) /\ DOMAIN peers' = DOMAIN t
      /\ OneSlot(peers')
      /\ \A i \in DOMAIN t :
             /\ peers'[i].node = t[i].node /\ peers'[i].lastSeen = t[i].lastSeen
             /\ peers'[i].status = IF Expired(t[i], now) THEN "LOST" ELSE t[i].status
  BY <1>1, PolledFacts
<1>3. alivePeers' \in 0..Len(peers') BY <1>1, <1>2, AliveCountType
<1>4. AgeExact'
  <2> SUFFICES ASSUME NEW i \in DOMAIN peers', peers'[i].status = "ALIVE"
               PROVE  /\ Minus(now', peers'[i].lastSeen) = silence'[peers'[i].node]
                      /\ silence'[peers'[i].node] <= Timeout + sinceLoop'
    BY DEF AgeExact
  <2>1. i \in DOMAIN t /\ t[i].status = "ALIVE" /\ ~Expired(t[i], now) BY <1>2
  <2>2. t[i].lastSeen \in Millis BY <2>1, EntryFacts
  <2>3. Minus(now, t[i].lastSeen) \in Nat
    <3>1. Minus(now, t[i].lastSeen) \in Millis BY <1>1, <2>2, CounterFacts
    <3> QED BY <3>1, Bounds DEF Millis
  <2>4. Minus(now, t[i].lastSeen) <= Timeout
    BY <2>1, <2>3, Bounds DEF Expired
  <2> QED BY <1>1, <1>2, <2>1, <2>4, Bounds
<1>5. view' = View(peers') /\ view' \in Seq([node : Nodes, status : {"ALIVE", "LOST"}])
  BY <1>1, <1>2, ViewType DEF Poll
<1> QED BY <1>1, <1>2, <1>3, <1>4, <1>5 DEF OneSlotPerNode, ViewIsCurrent

LEMMA ReceiveIInv ==
    ASSUME IInv, NEW f \in rx, Receive(f)
    PROVE  IInv'
<1> DEFINE h == Heard(peers, f.node, f.uptime, now)
<1>1. /\ f.node \in Nodes /\ f.uptime \in Millis /\ now \in Millis
      /\ peers \in Seq(PeerRecord) /\ Len(peers) <= MaxNodes /\ OneSlot(peers) /\ TypeOK
  BY DEF IInv, TypeOK, OneSlotPerNode
<1>2. /\ h \in Seq(PeerRecord) /\ Len(h) <= MaxNodes /\ OneSlot(h)
      /\ \A i \in DOMAIN h :
             \/ Accepted(peers, f.node) /\ h[i] = Peer(f.node, f.uptime, now)
             \/ i \in DOMAIN peers /\ h[i] = peers[i]
                /\ (Accepted(peers, f.node) => peers[i].node # f.node)
  <2>1. Hears(peers, f.node, f.uptime, now, h) BY <1>1, HeardFacts
  <2> QED BY <2>1 DEF Hears
<1>3. Poll(h) /\ rx' = rx \ {f}
      /\ events' = HeardEvents(peers, f.node, f.uptime) \union LostEvents(h, now)
  BY DEF Receive
<1>4. IF Accepted(peers, f.node)
      THEN silence' = [silence EXCEPT ![f.node] = 0]
           /\ restarts' = [restarts EXCEPT ![f.node] = {}]
      ELSE silence' = silence /\ restarts' = restarts
  BY DEF Receive
<1>5. silence' \in [Nodes -> 0..Long] /\ restarts' \in [Nodes -> SUBSET {"reset", "wrap"}]
  <2>1. silence \in [Nodes -> 0..Long] /\ restarts \in [Nodes -> SUBSET {"reset", "wrap"}]
        /\ 0 \in 0..Long
    BY <1>1, Bounds DEF TypeOK
  <2> QED BY <1>1, <1>4, <2>1
<1>6. \A i \in DOMAIN h : h[i].status = "ALIVE" => Minus(now, h[i].lastSeen) = silence'[h[i].node]
  <2> TAKE i \in DOMAIN h
  <2>1. CASE Accepted(peers, f.node) /\ h[i] = Peer(f.node, f.uptime, now)
    BY <1>1, <1>4, <2>1, CounterFacts DEF Peer, TypeOK
  <2>2. CASE /\ i \in DOMAIN peers /\ h[i] = peers[i]
             /\ (Accepted(peers, f.node) => peers[i].node # f.node)
    <3>1. peers[i].node \in Nodes BY <1>1, <2>2, EntryFacts
    <3>2. silence'[peers[i].node] = silence[peers[i].node]
      BY <1>1, <1>4, <2>2, <3>1 DEF TypeOK
    <3> QED BY <2>2, <3>2 DEF IInv, AgeExact
  <2> QED BY <1>2, <2>1, <2>2
<1>7. events' \subseteq {"JOINED", "LOST", "REBOOTED"} \X Nodes
  <2>1. HeardEvents(peers, f.node, f.uptime) \subseteq {"JOINED", "LOST", "REBOOTED"} \X Nodes
    BY <1>1 DEF HeardEvents
  <2>2. \A i \in DOMAIN h : h[i].node \in Nodes BY <1>2, EntryFacts
  <2>3. LostEvents(h, now) \subseteq {"JOINED", "LOST", "REBOOTED"} \X Nodes
    BY <2>2 DEF LostEvents
  <2> QED BY <1>3, <2>1, <2>3
<1> HIDE DEF h
<1>8. /\ peers' \in Seq(PeerRecord) /\ Len(peers') <= MaxNodes
      /\ alivePeers' \in 0..Len(peers') /\ view' \in Seq([node : Nodes, status : {"ALIVE", "LOST"}])
      /\ now' = now /\ uptime' = uptime /\ sinceLoop' = 0
      /\ OneSlotPerNode' /\ AgeExact' /\ ViewIsCurrent'
  BY <1>1, <1>2, <1>3, <1>5, <1>6, PollIInv
<1>9. TypeOK' BY <1>1, <1>3, <1>5, <1>7, <1>8, Bounds DEF TypeOK
<1> QED BY <1>8, <1>9 DEF IInv

LEMMA IdleIInv ==
    ASSUME IInv, Idle
    PROVE  IInv'
<1>1. /\ peers \in Seq(PeerRecord) /\ Len(peers) <= MaxNodes /\ OneSlot(peers) /\ TypeOK
      /\ Poll(peers) /\ rx' = rx /\ silence' = silence /\ restarts' = restarts
      /\ events' = LostEvents(peers, now)
  BY DEF IInv, TypeOK, OneSlotPerNode, Idle
<1>2. \A i \in DOMAIN peers : peers[i].status = "ALIVE" =>
          Minus(now, peers[i].lastSeen) = silence'[peers[i].node]
  BY <1>1 DEF IInv, AgeExact
<1>3. silence' \in [Nodes -> 0..Long] BY <1>1 DEF TypeOK
<1>4. /\ peers' \in Seq(PeerRecord) /\ Len(peers') <= MaxNodes
      /\ alivePeers' \in 0..Len(peers') /\ view' \in Seq([node : Nodes, status : {"ALIVE", "LOST"}])
      /\ now' = now /\ uptime' = uptime /\ sinceLoop' = 0
      /\ OneSlotPerNode' /\ AgeExact' /\ ViewIsCurrent'
  BY <1>1, <1>2, <1>3, PollIInv
<1>5. events' \subseteq {"JOINED", "LOST", "REBOOTED"} \X Nodes
  <2>1. \A i \in DOMAIN peers : peers[i].node \in Nodes
    BY <1>1, EntryFacts
  <2> QED BY <1>1, <2>1 DEF LostEvents
<1>6. TypeOK' BY <1>1, <1>4, <1>5, Bounds DEF TypeOK
<1> QED BY <1>4, <1>6 DEF IInv

LEMMA NextIInv == IInv /\ [Next]_vars => IInv'
<1> SUFFICES ASSUME IInv, [Next]_vars PROVE IInv'
  OBVIOUS
<1>1. CASE Tick BY <1>1, TickIInv
<1>2. CASE Idle BY <1>2, IdleIInv
<1>3. ASSUME NEW n \in Restarting, Reset(n) PROVE IInv' BY <1>3, ResetIInv
<1>4. ASSUME NEW f \in rx, Receive(f) PROVE IInv' BY <1>4, ReceiveIInv
<1>5. CASE UNCHANGED vars
  BY <1>5 DEF vars, IInv, TypeOK, OneSlotPerNode, AgeExact, ViewIsCurrent
<1> QED BY <1>1, <1>2, <1>3, <1>4, <1>5 DEF Next

LEMMA Inductive == Spec => []IInv
BY InitIInv, NextIInv, PTL DEF Spec

--------------------------------------------------------------------------------
(* Safety *)

\* Types, and the bound of the table.
THEOREM TypeCorrect == Spec => []TypeOK
BY Inductive, PTL DEF IInv

\* No node ever has two slots, whatever is heard, lost or reset.
THEOREM SlotsUnique == Spec => []OneSlotPerNode
BY Inductive, PTL DEF IInv

\* The age the monitor computes for a living peer is its true silence, across any
\* number of wraps of the counter, and the display shows no node alive that is long silent.
THEOREM AgesTrue == Spec => []AgeIsTrue
<1>1. IInv => AgeIsTrue
  <2> SUFFICES ASSUME IInv, NEW i \in DOMAIN view, view[i].status = "ALIVE"
               PROVE  silence[view[i].node] <= Timeout + PollMax
    BY DEF IInv, AgeIsTrue
  <2>1. /\ i \in DOMAIN peers /\ view[i].node = peers[i].node
        /\ view[i].status = peers[i].status
    BY DEF IInv, ViewIsCurrent, View
  <2>2. peers[i].node \in Nodes /\ silence[peers[i].node] \in Nat
    BY <2>1, EntryFacts, Bounds DEF IInv, TypeOK
  <2>3. silence[peers[i].node] <= Timeout + sinceLoop /\ sinceLoop \in 0 .. PollMax
    BY <2>1 DEF IInv, AgeExact, TypeOK
  <2> QED BY <2>1, <2>2, <2>3, Bounds
<1> QED BY <1>1, Inductive, PTL

--------------------------------------------------------------------------------
(* Uptimes and the events they cause *)

\* The table that a round polls.
LEMMA ReceivedTable ==
    ASSUME IInv, NEW f \in rx, Receive(f)
    PROVE  /\ f.node \in Nodes /\ f.uptime \in Millis /\ now \in Millis
           /\ Hears(peers, f.node, f.uptime, now, Heard(peers, f.node, f.uptime, now))
           /\ peers' = Polled(Heard(peers, f.node, f.uptime, now), now)
<1>1. /\ f.node \in Nodes /\ f.uptime \in Millis /\ now \in Millis
      /\ peers \in Seq(PeerRecord) /\ Len(peers) <= MaxNodes /\ OneSlot(peers)
  BY DEF IInv, TypeOK, OneSlotPerNode
<1>2. peers' = Polled(Heard(peers, f.node, f.uptime, now), now) BY DEF Receive, Poll
<1> QED BY <1>1, <1>2, HeardFacts

LEMMA NextUptimes == IInv /\ UptimesTell /\ [Next]_vars => UptimesTell'
<1> SUFFICES ASSUME IInv, UptimesTell, [Next]_vars PROVE UptimesTell'
  OBVIOUS
<1>1. TypeOK /\ peers \in Seq(PeerRecord) /\ OneSlot(peers)
  BY DEF IInv, TypeOK, OneSlotPerNode
<1>2. \A i \in DOMAIN peers : peers[i].node \in Nodes /\ peers[i].uptime \in Millis
  BY <1>1, EntryFacts
<1>3. CASE Tick
  <2>1. \A f \in rx' : f.uptime = uptime'[f.node] BY <1>3 DEF Tick
  <2>2. ASSUME NEW i \in DOMAIN peers, peers[i].status = "ALIVE", NEW n, n = peers[i].node
        PROVE  /\ restarts'[n] = {} => uptime'[n] = peers[i].uptime + silence'[n]
               /\ restarts'[n] = {"reset"} => uptime'[n] <= silence'[n]
    <3>1. /\ n \in Nodes /\ silence[n] \in Nat /\ uptime[n] \in Nat
          /\ peers[i].uptime \in Nat /\ sinceLoop \in Nat /\ sinceLoop < PollMax
      BY <1>1, <1>2, <1>3, <2>2, Bounds DEF TypeOK, Millis, Tick
    <3>2. silence[n] <= Timeout + sinceLoop BY <2>2 DEF IInv, AgeExact
    <3>3. silence'[n] = silence[n] + 1
      BY <1>1, <1>3, <3>1, <3>2, Bounds DEF Tick, Older, TypeOK
    <3>4. uptime'[n] = Later(uptime[n]) BY <1>3, <3>1 DEF Tick
    <3>5. restarts'[n] = {} \/ restarts'[n] = {"reset"} => restarts'[n] = restarts[n] /\ uptime'[n] # 0
      <4>1. restarts'[n] = IF uptime'[n] = 0 THEN restarts[n] \union {"wrap"} ELSE restarts[n]
        BY <1>3, <3>1 DEF Tick
      <4>2. uptime'[n] = 0 => "wrap" \in restarts'[n] BY <4>1
      <4> QED BY <4>1, <4>2
    <3>6. uptime'[n] # 0 => uptime'[n] = uptime[n] + 1 BY <3>4 DEF Later
    <3> QED BY <2>2, <3>1, <3>3, <3>5, <3>6 DEF UptimesTell
  <2>3. peers' = peers BY <1>3 DEF Tick
  <2> QED BY <2>1, <2>2, <2>3 DEF UptimesTell
<1>4. ASSUME NEW m \in Restarting, Reset(m) PROVE UptimesTell'
  <2>1. /\ m \in Nodes /\ peers' = peers /\ rx' = rx /\ silence' = silence
        /\ uptime' = [uptime EXCEPT ![m] = 0]
        /\ restarts' = [restarts EXCEPT ![m] = @ \union {"reset"}]
        /\ \A f \in rx : f.node # m
    BY <1>4, Bounds DEF Reset
  <2>2. \A f \in rx : f.node \in Nodes BY <1>1 DEF TypeOK
  <2>3. \A f \in rx : f.uptime = uptime'[f.node]
    BY <1>1, <2>1, <2>2 DEF UptimesTell, TypeOK
  <2>4. ASSUME NEW i \in DOMAIN peers, peers[i].status = "ALIVE", NEW n, n = peers[i].node
        PROVE  /\ restarts'[n] = {} => uptime'[n] = peers[i].uptime + silence[n]
               /\ restarts'[n] = {"reset"} => uptime'[n] <= silence[n]
    <3>1. n \in Nodes /\ silence[n] \in Nat BY <1>1, <1>2, <2>4, Bounds DEF TypeOK
    <3>2. CASE n = m
      <4>1. uptime'[n] = 0 /\ "reset" \in restarts'[n]
        BY <1>1, <2>1, <3>1, <3>2 DEF TypeOK
      <4> QED BY <3>1, <4>1
    <3>3. CASE n # m
      <4>1. uptime'[n] = uptime[n] /\ restarts'[n] = restarts[n]
        BY <1>1, <2>1, <3>1, <3>3 DEF TypeOK
      <4> QED BY <2>4, <4>1 DEF UptimesTell
    <3> QED BY <3>2, <3>3
  <2> QED BY <2>1, <2>3, <2>4 DEF UptimesTell
<1>5. ASSUME NEW f \in rx, Receive(f) PROVE UptimesTell'
  <2> DEFINE h == Heard(peers, f.node, f.uptime, now)
  <2>1. /\ f.node \in Nodes /\ f.uptime \in Millis /\ now \in Millis
        /\ h \in Seq(PeerRecord) /\ OneSlot(h) /\ peers' = Polled(h, now)
        /\ \A i \in DOMAIN h :
               \/ Accepted(peers, f.node) /\ h[i] = Peer(f.node, f.uptime, now)
               \/ i \in DOMAIN peers /\ h[i] = peers[i]
                  /\ (Accepted(peers, f.node) => peers[i].node # f.node)
    BY <1>1, <1>5, ReceivedTable DEF Hears
  <2>2. rx' = rx \ {f} /\ uptime' = uptime BY <1>5 DEF Receive, Poll
  <2>3. IF Accepted(peers, f.node)
        THEN silence' = [silence EXCEPT ![f.node] = 0]
             /\ restarts' = [restarts EXCEPT ![f.node] = {}]
        ELSE silence' = silence /\ restarts' = restarts
    BY <1>5 DEF Receive
  <2>4. f.uptime = uptime[f.node] BY DEF UptimesTell
  <2> HIDE DEF h
  <2>5. ASSUME NEW i \in DOMAIN h, h[i].status = "ALIVE", NEW n, n = h[i].node
        PROVE  /\ restarts'[n] = {} => uptime[n] = h[i].uptime + silence'[n]
               /\ restarts'[n] = {"reset"} => uptime[n] <= silence'[n]
    <3>1. CASE Accepted(peers, f.node) /\ h[i] = Peer(f.node, f.uptime, now)
      <4>1. n = f.node /\ h[i].uptime = f.uptime BY <2>5, <3>1 DEF Peer
      <4>2. silence'[n] = 0 /\ restarts'[n] = {}
        BY <1>1, <2>1, <2>3, <3>1, <4>1 DEF TypeOK
      <4>3. uptime[n] \in Nat BY <1>1, <2>1, <4>1, Bounds DEF TypeOK, Millis
      <4> QED BY <2>4, <4>1, <4>2, <4>3
    <3>2. CASE /\ i \in DOMAIN peers /\ h[i] = peers[i]
               /\ (Accepted(peers, f.node) => peers[i].node # f.node)
      <4>1. n \in Nodes /\ n = peers[i].node BY <1>2, <2>5, <3>2
      <4>2. silence'[n] = silence[n] /\ restarts'[n] = restarts[n]
        BY <1>1, <2>1, <2>3, <3>2, <4>1 DEF TypeOK
      <4> QED BY <2>5, <3>2, <4>1, <4>2 DEF UptimesTell
    <3> QED BY <2>1, <3>1, <3>2
  <2>6. /\ DOMAIN peers' = DOMAIN h
        /\ \A i \in DOMAIN h :
               /\ peers'[i].node = h[i].node /\ peers'[i].uptime = h[i].uptime
               /\ peers'[i].status = "ALIVE" => h[i].status = "ALIVE"
    <3>1. h \in Seq(PeerRecord) /\ OneSlot(h) /\ now \in Millis /\ peers' = Polled(h, now)
      BY <2>1
    <3> QED BY <3>1, PolledFacts
  <2> QED BY <2>2, <2>5, <2>6 DEF UptimesTell
<1>6. CASE Idle
  <2>1. /\ peers' = Polled(peers, now) /\ rx' = rx /\ uptime' = uptime
        /\ silence' = silence /\ restarts' = restarts /\ now \in Millis
    BY <1>1, <1>6 DEF Idle, Poll, TypeOK
  <2>2. /\ DOMAIN peers' = DOMAIN peers
        /\ \A i \in DOMAIN peers :
               /\ peers'[i].node = peers[i].node /\ peers'[i].uptime = peers[i].uptime
               /\ peers'[i].status = "ALIVE" => peers[i].status = "ALIVE"
    BY <1>1, <2>1, PolledFacts
  <2> QED BY <2>1, <2>2 DEF UptimesTell
<1>7. CASE UNCHANGED vars BY <1>7 DEF vars, UptimesTell
<1> QED BY <1>3, <1>4, <1>5, <1>6, <1>7 DEF Next

LEMMA Uptimes == Spec => []UptimesTell
<1>1. Init => UptimesTell BY DEF Init, UptimesTell
<1> QED BY <1>1, Inductive, NextUptimes, PTL DEF Spec

\* A living peer that reports an uptime below its last one has been restarted, or
\* its counter has wrapped: REBOOTED is never reported for anything else.
THEOREM RebootCause == Spec => RebootHasCause
<1> DEFINE A == \A n \in Nodes : <<"REBOOTED", n>> \in events' \ events => restarts[n] # {}
<1>1. ASSUME IInv, UptimesTell, [Next]_vars, NEW n \in Nodes,
             <<"REBOOTED", n>> \in events' \ events
      PROVE  restarts[n] # {}
  <2>1. PICK f \in rx : Receive(f) /\ <<"REBOOTED", n>> \in HeardEvents(peers, f.node, f.uptime)
    BY <1>1 DEF Next, vars, Tick, Idle, Reset, Receive, LostEvents
  <2>2. n = f.node /\ WentBack(peers, n, f.uptime) BY <2>1 DEF HeardEvents
  <2>3. peers \in Seq(PeerRecord) /\ OneSlot(peers) /\ TypeOK
    BY <1>1 DEF IInv, TypeOK, OneSlotPerNode
  <2>4. Known(peers, n) BY <2>2 DEF WentBack, Alive, StatusIn
  <2>5. PICK i \in DOMAIN peers : peers[i].node = n BY <2>4 DEF Known
  <2>6. Slot(peers, n) = i /\ peers[i].status = "ALIVE" /\ f.uptime < peers[i].uptime
    BY <2>2, <2>3, <2>5, SlotFacts DEF WentBack, Alive
  <2>7. f.uptime = uptime[n] BY <1>1, <2>2 DEF UptimesTell
  <2>8. restarts[n] = {} => uptime[n] = peers[i].uptime + silence[n]
    BY <1>1, <2>5, <2>6 DEF UptimesTell
  <2>9. silence[n] \in Nat /\ uptime[n] \in Nat /\ peers[i].uptime \in Nat
    BY <2>3, EntryFacts, Bounds DEF TypeOK, Millis
  <2> QED BY <2>6, <2>7, <2>8, <2>9
<1>2. IInv /\ UptimesTell /\ [Next]_vars => [A]_vars BY <1>1
<1> QED BY <1>2, Inductive, Uptimes, PTL DEF Spec, RebootHasCause

\* The reset of a node that had been up for longer than Timeout + PollMax is
\* reported when the node is heard again.
THEOREM ResetsNoticed == Spec => ResetNoticed
<1> DEFINE Late(f) ==
              /\ Receive(f)
              /\ Accepted(peers, f.node)
              /\ restarts[f.node] = {"reset"}
              /\ Known(peers, f.node)
              /\ peers[Slot(peers, f.node)].uptime > Timeout + PollMax
           Told(f) == {<<"JOINED", f.node>>, <<"REBOOTED", f.node>>} \intersect events' # {}
           A == \A f \in rx : Late(f) => Told(f)
<1>1. ASSUME IInv, UptimesTell, NEW f \in rx, Late(f)
      PROVE  Told(f)
  <2>1. peers \in Seq(PeerRecord) /\ OneSlot(peers) /\ TypeOK
    BY <1>1 DEF IInv, TypeOK, OneSlotPerNode
  <2>2. HeardEvents(peers, f.node, f.uptime) \subseteq events' BY <1>1 DEF Receive
  <2>3. PICK i \in DOMAIN peers : peers[i].node = f.node BY <1>1 DEF Known
  <2>4. Slot(peers, f.node) = i /\ (Alive(peers, f.node) <=> peers[i].status = "ALIVE")
    BY <2>1, <2>3, SlotFacts DEF Alive
  <2>5. CASE ~Alive(peers, f.node)
    <3>1. <<"JOINED", f.node>> \in HeardEvents(peers, f.node, f.uptime)
      BY <1>1, <2>5 DEF HeardEvents
    <3> QED BY <2>2, <3>1
  <2>6. CASE Alive(peers, f.node)
    <3>1. f.uptime = uptime[f.node] /\ uptime[f.node] <= silence[f.node]
      BY <1>1, <2>3, <2>4, <2>6 DEF UptimesTell
    <3>2. silence[f.node] <= Timeout + sinceLoop /\ sinceLoop \in 0..PollMax
      BY <1>1, <2>1, <2>3, <2>4, <2>6 DEF IInv, AgeExact, TypeOK
    <3>3. f.node \in Nodes /\ silence[f.node] \in Nat /\ uptime[f.node] \in Nat
          /\ peers[i].uptime \in Nat
      BY <2>1, EntryFacts, Bounds DEF TypeOK, Millis
    <3>4. f.uptime < peers[i].uptime BY <1>1, <2>4, <3>1, <3>2, <3>3, Bounds
    <3>5. <<"REBOOTED", f.node>> \in HeardEvents(peers, f.node, f.uptime)
      BY <1>1, <2>4, <2>6, <3>4 DEF HeardEvents, WentBack
    <3> QED BY <2>2, <3>5
  <2> QED BY <2>5, <2>6
<1>2. IInv /\ UptimesTell /\ [Next]_vars => [A]_vars BY <1>1
<1> QED BY <1>2, Inductive, Uptimes, PTL DEF Spec, ResetNoticed

--------------------------------------------------------------------------------
(* Refinement *)

\* What is known of node m after n has been heard.
LEMMA StatusAfterHeard ==
    ASSUME NEW t \in Seq(PeerRecord), OneSlot(t), NEW n \in Nodes, NEW up, NEW tm,
           NEW h, Hears(t, n, up, tm, h), NEW m \in Nodes
    PROVE  StatusIn(h, m) = IF Accepted(t, n) /\ m = n THEN "ALIVE" ELSE StatusIn(t, m)
<1>1. h \in Seq(PeerRecord) /\ OneSlot(h) BY DEF Hears
<1>2. CASE ~Accepted(t, n) BY <1>2 DEF Hears
<1>3. CASE Accepted(t, n) /\ m = n
  <2>1. PICK i \in DOMAIN h : h[i] = Peer(n, up, tm) BY <1>3 DEF Hears
  <2>2. h[i].node = m /\ h[i].status = "ALIVE" BY <1>3, <2>1 DEF Peer
  <2> QED BY <1>1, <1>3, <2>2, SlotFacts
<1>4. CASE Accepted(t, n) /\ m # n
  <2>1. CASE \E i \in DOMAIN t : t[i].node = m
    <3>1. PICK i \in DOMAIN t : t[i].node = m BY <2>1
    <3>2. i \in DOMAIN h /\ h[i] = t[i] BY <1>4, <3>1 DEF Hears
    <3>3. StatusIn(t, m) = t[i].status /\ StatusIn(h, m) = t[i].status
      BY <1>1, <3>1, <3>2, SlotFacts
    <3> QED BY <1>4, <3>3
  <2>2. CASE ~ \E i \in DOMAIN t : t[i].node = m
    <3>1. \A i \in DOMAIN h : h[i].node # m
      BY <1>4, <2>2 DEF Hears, Peer
    <3> QED BY <1>4, <2>2, <3>1 DEF StatusIn, Known
  <2> QED BY <2>1, <2>2
<1> QED BY <1>2, <1>3, <1>4

\* A poll gives up only living peers, and those that are too old.
LEMMA StatusAfterPoll ==
    ASSUME NEW t \in Seq(PeerRecord), OneSlot(t), NEW tm \in Millis, NEW m \in Nodes
    PROVE  \/ StatusIn(Polled(t, tm), m) = StatusIn(t, m)
           \/ /\ StatusIn(t, m) = "ALIVE" /\ StatusIn(Polled(t, tm), m) = "LOST"
              /\ \E i \in DOMAIN t : t[i].node = m /\ Expired(t[i], tm)
<1> DEFINE p == Polled(t, tm)
<1>1. /\ p \in Seq(PeerRecord) /\ DOMAIN p = DOMAIN t /\ OneSlot(p)
      /\ \A i \in DOMAIN t :
             /\ p[i].node = t[i].node
             /\ p[i].status = IF Expired(t[i], tm) THEN "LOST" ELSE t[i].status
  BY PolledFacts
<1> HIDE DEF p
<1>2. CASE \E i \in DOMAIN t : t[i].node = m
  <2>1. PICK i \in DOMAIN t : t[i].node = m BY <1>2
  <2>2. StatusIn(t, m) = t[i].status BY <2>1, SlotFacts
  <2>3. StatusIn(p, m) = IF Expired(t[i], tm) THEN "LOST" ELSE t[i].status
    BY <1>1, <2>1, SlotFacts
  <2>4. Expired(t[i], tm) => t[i].status = "ALIVE" BY DEF Expired
  <2> QED BY <2>1, <2>2, <2>3, <2>4 DEF p
<1>3. CASE ~ \E i \in DOMAIN t : t[i].node = m
  <2>1. StatusIn(t, m) = "UNKNOWN" /\ StatusIn(p, m) = "UNKNOWN"
    BY <1>1, <1>3 DEF StatusIn, Known
  <2> QED BY <2>1 DEF p
<1> QED BY <1>2, <1>3

\* A round in which the nodes of H are heard is an Observe of the detector.
LEMMA RoundObserves ==
    ASSUME IInv, NEW H \in SUBSET Nodes,
           NEW t \in Seq(PeerRecord), OneSlot(t), peers' = Polled(t, now),
           silence' = [n \in Nodes |-> IF n \in H THEN 0 ELSE silence[n]],
           \A m \in Nodes : StatusIn(t, m) = IF m \in H THEN "ALIVE" ELSE StatusIn(peers, m),
           \A i \in DOMAIN t : t[i].status = "ALIVE" =>
               Minus(now, t[i].lastSeen) = silence'[t[i].node]
    PROVE  \E suspects \in SUBSET Nodes : Detector!Observe(H, suspects)
<1> DEFINE S == {m \in Nodes : /\ StatusIn(t, m) = "ALIVE" /\ StatusIn(peers', m) = "LOST"}
<1>1. now \in Millis BY DEF IInv, TypeOK
<1>2. \A m \in Nodes :
          \/ StatusIn(peers', m) = StatusIn(t, m)
          \/ /\ StatusIn(t, m) = "ALIVE" /\ StatusIn(peers', m) = "LOST"
             /\ \E i \in DOMAIN t : t[i].node = m /\ Expired(t[i], now)
  BY <1>1, StatusAfterPoll
<1>3. ASSUME NEW m \in Nodes, NEW i \in DOMAIN t, t[i].node = m, Expired(t[i], now)
      PROVE  m \notin H /\ StatusIn(peers, m) = "ALIVE" /\ silence[m] > Timeout
  <2>1. Minus(now, t[i].lastSeen) = silence'[m] /\ Minus(now, t[i].lastSeen) > Timeout
    BY <1>3 DEF Expired
  <2>2. m \notin H /\ silence[m] > Timeout BY <2>1, Bounds
  <2>3. StatusIn(t, m) = "ALIVE" BY <1>3, SlotFacts DEF Expired
  <2> QED BY <2>2, <2>3
<1>4. \A m \in S : m \notin H /\ StatusIn(peers, m) = "ALIVE" /\ silence[m] > Timeout
  BY <1>2, <1>3
<1>5. \A m \in Nodes :
          StatusIn(peers', m) = IF m \in H THEN "ALIVE"
                                ELSE IF m \in S THEN "LOST" ELSE StatusIn(peers, m)
  BY <1>2, <1>4
<1>6. Detector!Observe(H, S) BY <1>4, <1>5 DEF Detector!Observe
<1> QED BY <1>6

\* Supervision implements the failure detector: no watched node is given up before
\* Timeout, nor later than PollMax after it.
THEOREM DetectorImplemented == Spec => ImplementsDetector
<1>1. Init => Detector!Init
  <2> SUFFICES ASSUME Init PROVE Detector!Init
    OBVIOUS
  <2>1. \A n \in Nodes : StatusIn(peers, n) = "UNKNOWN" BY DEF Init, StatusIn, Known
  <2> QED BY <2>1 DEF Init, Detector!Init, Detector!Long, Long
<1>2. IInv /\ [Next]_vars => [Detector!Next]_(Detector!vars)
  <2> SUFFICES ASSUME IInv, [Next]_vars
               PROVE  Detector!Next \/ UNCHANGED Detector!vars
    OBVIOUS
  <2>1. peers \in Seq(PeerRecord) /\ OneSlot(peers) /\ TypeOK
    BY DEF IInv, TypeOK, OneSlotPerNode
  <2>2. CASE Tick
    <3>1. ASSUME NEW n \in Nodes, StatusIn(peers, n) = "ALIVE"
          PROVE  silence[n] < Timeout + PollMax
      <4>1. PICK i \in DOMAIN peers : peers[i].node = n
        BY <3>1 DEF StatusIn, Known
      <4>2. peers[i].status = "ALIVE" BY <2>1, <3>1, <4>1, SlotFacts
      <4>3. silence[n] <= Timeout + sinceLoop BY <4>1, <4>2 DEF IInv, AgeExact
      <4>4. sinceLoop < PollMax /\ sinceLoop \in Nat /\ silence[n] \in Nat
        BY <2>1, <2>2, Bounds DEF Tick, TypeOK
      <4> QED BY <4>3, <4>4, Bounds
    <3>2. silence' = [n \in Nodes |-> Detector!Older(silence[n])]
      BY <2>2 DEF Tick, Older, Long, Detector!Older, Detector!Long
    <3>3. peers' = peers BY <2>2 DEF Tick
    <3> QED BY <3>1, <3>2, <3>3 DEF Detector!Elapse, Detector!Next
  <2>3. ASSUME NEW f \in rx, Receive(f)
        PROVE  \E H, S \in SUBSET Nodes : Detector!Observe(H, S)
    <3> DEFINE h == Heard(peers, f.node, f.uptime, now)
               H == IF Accepted(peers, f.node) THEN {f.node} ELSE {}
    <3>1. /\ f.node \in Nodes /\ now \in Millis /\ peers' = Polled(h, now)
          /\ Hears(peers, f.node, f.uptime, now, h)
      BY <2>3, ReceivedTable
    <3>2. h \in Seq(PeerRecord) /\ OneSlot(h) BY <3>1 DEF Hears
    <3>3. silence \in [Nodes -> 0..Long] BY <2>1 DEF TypeOK
    <3>4. silence' = [n \in Nodes |-> IF n \in H THEN 0 ELSE silence[n]]
      <4>1. silence' = IF Accepted(peers, f.node) THEN [silence EXCEPT ![f.node] = 0] ELSE silence
        BY <2>3 DEF Receive
      <4> QED BY <3>1, <3>3, <4>1
    <3>5. \A m \in Nodes : StatusIn(h, m) = IF m \in H THEN "ALIVE" ELSE StatusIn(peers, m)
      BY <2>1, <3>1, StatusAfterHeard
    <3>6. \A i \in DOMAIN h : h[i].status = "ALIVE" =>
              Minus(now, h[i].lastSeen) = silence'[h[i].node]
      <4> TAKE i \in DOMAIN h
      <4>1. CASE Accepted(peers, f.node) /\ h[i] = Peer(f.node, f.uptime, now)
        BY <3>1, <3>4, <4>1, CounterFacts DEF Peer
      <4>2. CASE /\ i \in DOMAIN peers /\ h[i] = peers[i]
                 /\ (Accepted(peers, f.node) => peers[i].node # f.node)
        <5>1. peers[i].node \in Nodes BY <2>1, <4>2, EntryFacts
        <5> QED BY <3>4, <4>2, <5>1 DEF IInv, AgeExact
      <4> QED BY <3>1, <4>1, <4>2 DEF Hears
    <3>7. H \in SUBSET Nodes BY <3>1
    <3> HIDE DEF h, H
    <3>8. \E S \in SUBSET Nodes : Detector!Observe(H, S)
      BY <3>1, <3>2, <3>4, <3>5, <3>6, <3>7, RoundObserves
    <3> QED BY <3>7, <3>8
  <2>4. CASE Idle
    <3>1. peers' = Polled(peers, now) /\ silence' = silence BY <2>4 DEF Idle, Poll
    <3>2. silence' = [n \in Nodes |-> IF n \in {} THEN 0 ELSE silence[n]]
      BY <2>1, <3>1 DEF TypeOK
    <3>3. \A i \in DOMAIN peers : peers[i].status = "ALIVE" =>
              Minus(now, peers[i].lastSeen) = silence'[peers[i].node]
      BY <3>1 DEF IInv, AgeExact
    <3>4. \E S \in SUBSET Nodes : Detector!Observe({}, S)
      BY <2>1, <3>1, <3>2, <3>3, RoundObserves
    <3> QED BY <3>4 DEF Detector!Next
  <2>5. ASSUME NEW n \in Restarting, Reset(n) PROVE UNCHANGED Detector!vars
    BY <2>5 DEF Reset, Detector!vars
  <2>6. CASE UNCHANGED vars BY <2>6 DEF vars, Detector!vars
  <2> QED BY <2>2, <2>3, <2>4, <2>5, <2>6 DEF Next, Detector!Next
<1> QED BY <1>1, <1>2, Inductive, PTL DEF Spec, ImplementsDetector, Detector!Spec
================================================================================
