----------------------------- MODULE NetworkProofs -----------------------------
(* Theorems about Network, for any number of nodes, FIFO size, timeout and periods. *)
EXTENDS Network, TLAPS

--------------------------------------------------------------------------------
(* Operators *)

Frames == Ages \union {Other}
JointType ==
    [mode : {"DISABLED", "POSITION"}, since : 0 .. CommandTimeout, age : Ages]

LEMMA Numbers ==
    /\ MaxAge \in Nat /\ MaxAge = CommandTimeout + 2 /\ CommandTimeout \in Nat \ {0}
    /\ FifoSize \in Nat \ {0} /\ FaultsPerPeriod \in Nat /\ CommsPeriod \in Nat \ {0}
    /\ Ages \subseteq Int /\ 0 \in Ages /\ MaxAge \in Ages /\ Other = -1 /\ Other \notin Ages
    /\ \A f \in Frames : f \in Int /\ f >= -1
BY NetworkAssumption DEF MaxAge, Ages, Frames, Other

\* Ages grow by at most 1, and keep their order.
LEMMA OlderFacts ==
    ASSUME NEW a \in Ages, NEW b \in Ages
    PROVE  /\ Older(a) \in Ages /\ Older(a) <= a + 1 /\ a <= Older(a)
           /\ a <= b => Older(a) <= Older(b)
BY Numbers DEF Older, Ages

\* A frame that is sent comes last, or is dropped.
LEMMA SentFacts ==
    ASSUME NEW f \in Frames, fifo \in Seq(Frames), Len(fifo) <= FifoSize
    PROVE  /\ Sent(f) \in Seq(Frames) /\ Len(Sent(f)) <= FifoSize
           /\ \A i \in DOMAIN Sent(f) : \/ i \in DOMAIN fifo /\ Sent(f)[i] = fifo[i]
                                        \/ i = Len(fifo) + 1 /\ Sent(f)[i] = f
<1>1. CASE Len(fifo) < FifoSize
  <2>1. Sent(f) = Append(fifo, f) BY <1>1 DEF Sent
  <2>2. /\ Append(fifo, f) \in Seq(Frames) /\ Len(Append(fifo, f)) = Len(fifo) + 1
        /\ \A i \in 1 .. Len(fifo) : Append(fifo, f)[i] = fifo[i]
        /\ Append(fifo, f)[Len(fifo) + 1] = f
    OBVIOUS
  <2>3. /\ Len(fifo) \in Nat /\ DOMAIN fifo = 1 .. Len(fifo)
        /\ DOMAIN Append(fifo, f) = 1 .. Len(fifo) + 1
    BY <2>2
  <2>4. \A i \in 1 .. Len(fifo) + 1 : i \in 1 .. Len(fifo) \/ i = Len(fifo) + 1 BY <2>3
  <2> QED BY <1>1, <2>1, <2>2, <2>3, <2>4, Numbers
<1>2. CASE ~(Len(fifo) < FifoSize)
  <2>1. Sent(f) = fifo BY <1>2 DEF Sent
  <2> QED BY <2>1
<1> QED BY <1>1, <1>2

\* The frame that leaves is the first one; the others move up.
LEMMA WithoutFacts ==
    ASSUME fifo \in Seq(Frames), fifo # <<>>
    PROVE  /\ Without(fifo, NextOut) \in Seq(Frames)
           /\ Len(Without(fifo, NextOut)) = Len(fifo) - 1
           /\ 1 \in DOMAIN fifo /\ fifo[NextOut] = fifo[1] /\ fifo[1] \in Frames
           /\ \A i \in DOMAIN Without(fifo, NextOut) :
                 i + 1 \in DOMAIN fifo /\ Without(fifo, NextOut)[i] = fifo[i + 1]
<1> DEFINE head == SubSeq(fifo, 1, 0)
           rest == SubSeq(fifo, 2, Len(fifo))
<1>1. Len(fifo) \in Nat /\ Len(fifo) >= 1 /\ DOMAIN fifo = 1 .. Len(fifo) OBVIOUS
<1>2. head = <<>> OBVIOUS
<1>3. rest \in Seq(Frames) /\ Len(rest) = Len(fifo) - 1
      /\ \A i \in 1 .. Len(fifo) - 1 : rest[i] = fifo[i + 1]
  BY <1>1
<1>4. Without(fifo, NextOut) = head \o rest BY DEF Without, NextOut
<1>5. head \o rest = rest BY <1>2, <1>3
<1>6. DOMAIN rest = 1 .. Len(fifo) - 1 BY <1>1, <1>3
<1>7. Without(fifo, NextOut) = rest BY <1>4, <1>5
<1>8. 1 \in DOMAIN fifo /\ fifo[NextOut] = fifo[1] /\ fifo[1] \in Frames BY <1>1 DEF NextOut
<1>9. \A i \in DOMAIN rest : i + 1 \in DOMAIN fifo /\ rest[i] = fifo[i + 1]
  <2> HIDE DEF rest
  <2> QED BY <1>1, <1>3, <1>6
<1> HIDE DEF head, rest
<1> QED BY <1>3, <1>7, <1>8, <1>9

--------------------------------------------------------------------------------
(* Consequences of the invariant *)

LEMMA Types ==
    ASSUME TypeOK
    PROVE  /\ fifo \in Seq(Frames) /\ Len(fifo) <= FifoSize /\ joint \in [Joints -> JointType]
           /\ calm \in Ages /\ calm \in Nat /\ Own \in Joints /\ Peers \subseteq Joints
           /\ Own \notin Peers
BY Numbers, NetworkAssumption DEF TypeOK, Frames, JointType, Joints, Ages

LEMMA InitIInv == Init => IInv
<1> SUFFICES ASSUME Init PROVE IInv OBVIOUS
<1>1. TypeOK
  <2>1. fifo \in Seq(Frames) /\ Len(fifo) <= FifoSize BY Numbers DEF Init
  <2>2. joint \in [Joints -> JointType] BY Numbers DEF Init, JointType
  <2>3. 0 \in 0 .. CommsPeriod - 1 /\ 0 \in 0 .. FaultsPerPeriod /\ calm \in Ages
    BY Numbers DEF Init
  <2> QED BY <2>1, <2>2, <2>3 DEF Init, TypeOK, Frames, JointType
<1>2. OldestFirst /\ NoneOlder BY DEF Init, OldestFirst, NoneOlder
<1>3. CalmDelivers BY DEF Init, CalmDelivers
<1>4. StaleFades BY DEF Init, StaleFades
<1> QED BY <1>1, <1>2, <1>3, <1>4 DEF IInv

\* Sending a JOINT_STATE, a HEARTBEAT or a fresh COMMAND keeps the FIFO in order.
LEMMA SendingKeeps ==
    ASSUME IInv, NEW f \in {0, Other}, fifo' = Sent(f), calm' = calm,
           \A p \in Peers : joint'[p] = joint[p],
           UNCHANGED <<can, plugged, short>>
    PROVE  /\ fifo' \in Seq(Frames) /\ Len(fifo') <= FifoSize
           /\ OldestFirst' /\ NoneOlder' /\ CalmDelivers'
<1>1. /\ fifo \in Seq(Frames) /\ Len(fifo) <= FifoSize /\ joint \in [Joints -> JointType]
      /\ Peers \subseteq Joints
  BY Types DEF IInv
<1>2. f \in Frames /\ f <= 0 BY Numbers DEF Frames
<1>3. /\ fifo' \in Seq(Frames) /\ Len(fifo') <= FifoSize
      /\ \A i \in DOMAIN fifo' : \/ i \in DOMAIN fifo /\ fifo'[i] = fifo[i]
                                 \/ i = Len(fifo) + 1 /\ fifo'[i] = f
  BY <1>1, <1>2, SentFacts
<1>4. /\ \A i \in DOMAIN fifo : fifo[i] \in Frames /\ i \in Int /\ i <= Len(fifo)
      /\ \A i \in DOMAIN fifo' : fifo'[i] \in Frames /\ i \in Int
      /\ Len(fifo) \in Nat
  BY <1>1, <1>3
<1>5. OldestFirst'
  <2> SUFFICES ASSUME NEW i \in DOMAIN fifo', NEW k \in DOMAIN fifo', i <= k, fifo'[i] # Other
               PROVE  fifo'[k] <= fifo'[i]
    BY DEF OldestFirst
  <2>1. CASE k \in DOMAIN fifo /\ fifo'[k] = fifo[k]
    <3>1. i \in DOMAIN fifo /\ fifo'[i] = fifo[i] BY <1>3, <1>4, <2>1
    <3> QED BY <2>1, <3>1 DEF IInv, OldestFirst
  <2>2. CASE fifo'[k] = f
    <3>1. fifo'[i] \in Ages BY <1>4 DEF Frames
    <3>2. fifo'[i] >= 0 BY <3>1 DEF Ages
    <3> QED BY <1>2, <1>4, <2>2, <3>2, Numbers
  <2> QED BY <1>3, <2>1, <2>2
<1>6. NoneOlder'
  <2> SUFFICES ASSUME NEW p \in Peers, NEW i \in DOMAIN fifo'
               PROVE  fifo'[i] <= joint[p].age
    BY DEF NoneOlder
  <2>1. CASE i \in DOMAIN fifo /\ fifo'[i] = fifo[i] BY <2>1 DEF IInv, NoneOlder
  <2>2. CASE fifo'[i] = f
    <3>1. joint[p].age \in Ages BY <1>1 DEF JointType
    <3>2. joint[p].age >= 0 BY <3>1 DEF Ages
    <3>3. joint[p].age \in Int BY <3>1, Numbers
    <3>4. f \in Int /\ f <= 0 BY <1>2, Numbers
    <3> QED BY <2>2, <3>2, <3>3, <3>4
  <2> QED BY <1>3, <2>1, <2>2
<1>7. CalmDelivers' BY <1>3 DEF IInv, CalmDelivers, Delivers
<1> QED BY <1>3, <1>5, <1>6, <1>7

--------------------------------------------------------------------------------
(* Joints *)

LEMMA ObeyFacts ==
    ASSUME NEW a \in Ages
    PROVE  Obey(a) \in JointType /\ Obey(a).age = a /\ Obey(a).since = 0
BY Numbers DEF Obey, JointType

\* A period ages a joint by at most 1; one that is still driven is timed by 1 more.
LEMMA AgedFacts ==
    ASSUME NEW r \in JointType
    PROVE  /\ Aged(r) \in JointType /\ Aged(r).age = Older(r.age)
           /\ Aged(r).mode = "POSITION" => r.mode = "POSITION" /\ Aged(r).since = r.since + 1
<1>1. /\ r.age \in Ages /\ r.since \in 0 .. CommandTimeout /\ r.mode \in {"DISABLED", "POSITION"}
      /\ Older(r.age) \in Ages
  BY OlderFacts DEF JointType
<1>2. CASE r.mode = "POSITION" /\ ~Expires(r)
  <2>1. Aged(r) = [mode |-> "POSITION", since |-> r.since + 1, age |-> Older(r.age)]
    BY <1>2 DEF Aged
  <2>2. r.since + 1 \in 0 .. CommandTimeout BY <1>1, <1>2, Numbers DEF Expires
  <2> QED BY <1>1, <1>2, <2>1, <2>2 DEF JointType
<1>3. CASE ~(r.mode = "POSITION" /\ ~Expires(r))
  <2>1. Aged(r) = [mode |-> "DISABLED", since |-> 0, age |-> Older(r.age)]
    BY <1>1, <1>3 DEF Aged, Expires
  <2>2. 0 \in 0 .. CommandTimeout BY Numbers
  <2> QED BY <1>1, <2>1, <2>2 DEF JointType
<1> QED BY <1>2, <1>3

--------------------------------------------------------------------------------
(* Steps *)

LEMMA TickStep ==
    ASSUME IInv, Tick
    PROVE  IInv'
<1>1. /\ fifo \in Seq(Frames) /\ Len(fifo) <= FifoSize /\ joint \in [Joints -> JointType]
      /\ calm \in Ages /\ calm \in Nat /\ Peers \subseteq Joints
  BY Types DEF IInv
<1>2. /\ \A j \in Joints : joint'[j] = Aged(joint[j])
      /\ joint' \in [Joints -> JointType]
  BY <1>1, AgedFacts DEF Tick
<1>3. /\ fifo' = [i \in DOMAIN fifo |-> IF fifo[i] = Other THEN Other ELSE Older(fifo[i])]
      /\ UNCHANGED <<sweep, can, plugged, short>>
      /\ calm' = IF Delivers THEN Older(calm) ELSE 0
      /\ Delivers => fifo = <<>>
  BY DEF Tick
<1>4. /\ DOMAIN fifo = 1 .. Len(fifo) /\ Len(fifo) \in Nat
      /\ \A i \in DOMAIN fifo : fifo[i] \in Frames
  BY <1>1
<1>5. \A i \in DOMAIN fifo :
         \/ fifo[i] = Other /\ fifo'[i] = Other
         \/ fifo[i] \in Ages /\ fifo[i] # Other /\ fifo'[i] = Older(fifo[i]) /\ fifo'[i] \in Ages
  BY <1>3, <1>4, OlderFacts, Numbers DEF Frames
<1>6. fifo' \in Seq(Frames) /\ Len(fifo') = Len(fifo) /\ DOMAIN fifo' = DOMAIN fifo
  <2>1. fifo' \in [1 .. Len(fifo) -> Frames] BY <1>3, <1>4, <1>5, Numbers DEF Frames
  <2> QED BY <1>4, <2>1
<1>7. TypeOK'
  <2>1. calm' \in Ages BY <1>1, <1>3, OlderFacts, Numbers
  <2>2. phase' \in 0 .. CommsPeriod - 1 /\ round' \in {"done", "heartbeat", "button"}
    <3>1. phase \in 0 .. CommsPeriod - 1 BY DEF IInv, TypeOK
    <3> QED BY <3>1, Numbers DEF Tick
  <2>3. stateDue' \in BOOLEAN /\ faults' \in 0 .. FaultsPerPeriod BY Numbers DEF Tick
  <2> QED BY <1>1, <1>2, <1>3, <1>6, <2>1, <2>2, <2>3 DEF IInv, TypeOK, Frames, JointType
<1>8. OldestFirst'
  <2> SUFFICES ASSUME NEW i \in DOMAIN fifo, NEW k \in DOMAIN fifo, i <= k, fifo'[i] # Other
               PROVE  fifo'[k] <= fifo'[i]
    BY <1>6 DEF OldestFirst
  <2>1. fifo[i] \in Ages /\ fifo[i] # Other /\ fifo'[i] = Older(fifo[i]) /\ fifo'[i] \in Ages
    BY <1>5
  <2>2. fifo[k] <= fifo[i] BY <2>1 DEF IInv, OldestFirst
  <2>3. CASE fifo'[k] = Other BY <2>1, <2>3, Numbers DEF Ages
  <2>4. CASE fifo[k] \in Ages /\ fifo'[k] = Older(fifo[k]) BY <2>1, <2>2, <2>4, OlderFacts
  <2> QED BY <1>5, <2>3, <2>4
<1>9. NoneOlder'
  <2> SUFFICES ASSUME NEW p \in Peers, NEW i \in DOMAIN fifo PROVE fifo'[i] <= joint'[p].age
    BY <1>6 DEF NoneOlder
  <2>1. joint[p] \in JointType /\ joint[p].age \in Ages BY <1>1 DEF JointType
  <2>2. joint'[p].age = Older(joint[p].age) /\ Older(joint[p].age) \in Ages
    BY <1>1, <1>2, <2>1, AgedFacts, OlderFacts
  <2>3. fifo[i] <= joint[p].age BY DEF IInv, NoneOlder
  <2>4. CASE fifo'[i] = Other BY <2>2, <2>4, Numbers DEF Ages
  <2>5. CASE fifo[i] \in Ages /\ fifo'[i] = Older(fifo[i])
    BY <2>1, <2>2, <2>3, <2>5, OlderFacts
  <2> QED BY <1>5, <2>4, <2>5
<1>10. CalmDelivers'
  <2>1. CASE Delivers BY <1>3, <1>6, <2>1 DEF CalmDelivers, Delivers
  <2>2. CASE ~Delivers BY <1>3, <2>2 DEF CalmDelivers
  <2> QED BY <2>1, <2>2
<1>11. StaleFades'
  <2> SUFFICES ASSUME NEW j \in Joints, joint'[j].mode = "POSITION"
               PROVE  joint'[j].age <= joint'[j].since \/ calm' <= joint'[j].since
    BY DEF StaleFades
  <2>1. /\ joint[j] \in JointType /\ joint[j].age \in Ages /\ joint[j].age \in Int
        /\ joint[j].since \in Nat
    <3>1. joint[j] \in JointType BY <1>1
    <3>2. joint[j].age \in Ages /\ joint[j].since \in 0 .. CommandTimeout BY <3>1 DEF JointType
    <3>3. joint[j].age \in Int BY <3>2, Numbers
    <3>4. CommandTimeout \in Nat BY Numbers
    <3>5. joint[j].since \in Nat BY <3>2, <3>4
    <3> QED BY <3>1, <3>2, <3>3, <3>5
  <2>2. /\ joint[j].mode = "POSITION" /\ joint'[j].since = joint[j].since + 1
        /\ joint'[j].age = Older(joint[j].age)
    <3>1. joint'[j] = Aged(joint[j]) BY <1>2
    <3>2. Aged(joint[j]).mode = "POSITION" BY <3>1
    <3> QED BY <2>1, <3>1, <3>2, AgedFacts
  <2>3. Older(joint[j].age) <= joint[j].age + 1 /\ Older(joint[j].age) \in Int
    BY <2>1, OlderFacts, Numbers
  <2>4. calm' <= calm + 1 /\ calm' \in Int
    <3>1. Older(calm) <= calm + 1 /\ Older(calm) \in Int BY <1>1, OlderFacts, Numbers
    <3>2. CASE Delivers BY <1>3, <3>1, <3>2
    <3>3. CASE ~Delivers BY <1>1, <1>3, <3>3
    <3> QED BY <3>2, <3>3
  <2>5. joint[j].age <= joint[j].since \/ calm <= joint[j].since
    BY <2>2 DEF IInv, StaleFades
  <2> QED BY <1>1, <2>1, <2>2, <2>3, <2>4, <2>5
<1> QED BY <1>7, <1>8, <1>9, <1>10, <1>11 DEF IInv

LEMMA SendStep ==
    ASSUME IInv, SendHeartbeat \/ SendJointState \/ (\E press \in BOOLEAN : Command(press))
    PROVE  IInv'
<1>1. /\ fifo \in Seq(Frames) /\ Len(fifo) <= FifoSize /\ joint \in [Joints -> JointType]
      /\ calm \in Ages /\ Own \in Joints /\ Peers \subseteq Joints /\ Own \notin Peers
  BY Types DEF IInv
<1>2. UNCHANGED <<phase, can, plugged, short, calm, faults>>
  BY DEF SendHeartbeat, SendJointState, Command
<1>3. CASE SendHeartbeat \/ SendJointState
  <2>1. fifo' = Sent(Other) /\ joint' = joint BY <1>3 DEF SendHeartbeat, SendJointState
  <2>2. /\ fifo' \in Seq(Frames) /\ Len(fifo') <= FifoSize
        /\ OldestFirst' /\ NoneOlder' /\ CalmDelivers'
    BY <1>2, <2>1, SendingKeeps
  <2>3. sweep' \in BOOLEAN /\ round' \in {"done", "heartbeat", "button"} /\ stateDue' \in BOOLEAN
    BY <1>3 DEF SendHeartbeat, SendJointState, IInv, TypeOK
  <2>4. TypeOK' BY <1>1, <1>2, <2>1, <2>2, <2>3 DEF IInv, TypeOK, Frames
  <2>5. StaleFades' BY <1>2, <2>1 DEF IInv, StaleFades
  <2> QED BY <2>2, <2>4, <2>5 DEF IInv
<1>4. ASSUME NEW press \in BOOLEAN, Command(press) PROVE IInv'
  <2>1. sweep \in BOOLEAN /\ stateDue \in BOOLEAN BY DEF IInv, TypeOK
  <2>2. sweep' \in BOOLEAN /\ round' = "done" /\ stateDue' = stateDue
    BY <1>4, <2>1 DEF Command
  <2>3. CASE sweep'
    <3>1. fifo' = Sent(0) /\ joint' = [joint EXCEPT ![Own] = Obey(0)]
      BY <1>4, <2>3 DEF Command
    <3>2. \A p \in Peers : joint'[p] = joint[p] BY <1>1, <3>1
    <3>3. /\ fifo' \in Seq(Frames) /\ Len(fifo') <= FifoSize
          /\ OldestFirst' /\ NoneOlder' /\ CalmDelivers'
      BY <1>2, <3>1, <3>2, SendingKeeps
    <3>4. Obey(0) \in JointType /\ Obey(0).age <= Obey(0).since BY Numbers, ObeyFacts
    <3>5. joint' \in [Joints -> JointType] BY <1>1, <3>1, <3>4
    <3>6. TypeOK' BY <1>1, <1>2, <2>1, <2>2, <3>3, <3>5 DEF IInv, TypeOK, Frames, JointType
    <3>7. \A j \in Joints : joint'[j] = joint[j] \/ joint'[j] = Obey(0) BY <1>1, <3>1
    <3>8. StaleFades' BY <1>2, <3>4, <3>7 DEF IInv, StaleFades
    <3> QED BY <3>3, <3>6, <3>8 DEF IInv
  <2>4. CASE ~sweep'
    <3>1. fifo' = fifo /\ joint' = joint BY <1>4, <2>4 DEF Command
    <3>2. TypeOK' BY <1>1, <1>2, <2>1, <2>2, <3>1 DEF IInv, TypeOK
    <3> QED BY <1>2, <3>1, <3>2 DEF IInv, OldestFirst, NoneOlder, CalmDelivers, Delivers, StaleFades
  <2> QED BY <2>3, <2>4
<1> QED BY <1>3, <1>4

LEMMA DeliverStep ==
    ASSUME IInv, Deliver
    PROVE  IInv'
<1>1. /\ fifo \in Seq(Frames) /\ Len(fifo) <= FifoSize /\ joint \in [Joints -> JointType]
      /\ calm \in Ages /\ calm \in Nat /\ Peers \subseteq Joints /\ Own \notin Peers
      /\ plugged \subseteq Peers
  BY Types DEF IInv, TypeOK
<1>2. /\ fifo # <<>> /\ fifo' = Without(fifo, NextOut)
      /\ UNCHANGED <<sweep, phase, round, stateDue, can, plugged, short, calm, faults>>
  BY DEF Deliver
<1>3. /\ fifo' \in Seq(Frames) /\ Len(fifo') = Len(fifo) - 1
      /\ 1 \in DOMAIN fifo /\ fifo[NextOut] = fifo[1] /\ fifo[1] \in Frames
      /\ \A i \in DOMAIN fifo' : i + 1 \in DOMAIN fifo /\ fifo'[i] = fifo[i + 1]
  BY <1>1, <1>2, WithoutFacts
<1>4. \A j \in Joints : joint'[j] = IF fifo[1] # Other /\ j \in plugged THEN Obey(fifo[1]) ELSE joint[j]
  BY <1>3 DEF Deliver
<1>5. /\ DOMAIN fifo = 1 .. Len(fifo) /\ Len(fifo) \in Nat /\ Len(fifo') \in Nat
      /\ DOMAIN fifo' = 1 .. Len(fifo')
  BY <1>1, <1>3
<1>6. fifo[1] # Other => /\ fifo[1] \in Ages /\ Obey(fifo[1]) \in JointType
                         /\ Obey(fifo[1]).age = fifo[1] /\ Obey(fifo[1]).since = 0
  BY <1>3, ObeyFacts DEF Frames
<1>7. joint' \in [Joints -> JointType]
  <2>1. DOMAIN joint' = Joints /\ joint' = [j \in Joints |-> joint'[j]] BY DEF Deliver
  <2>2. \A j \in Joints : joint'[j] \in JointType BY <1>1, <1>4, <1>6
  <2> QED BY <2>1, <2>2
<1>8. TypeOK'
  <2>1. Len(fifo') <= FifoSize BY <1>1, <1>3, <1>5, Numbers
  <2> QED BY <1>1, <1>2, <1>3, <1>7, <2>1 DEF IInv, TypeOK, Frames, JointType
<1>9. OldestFirst'
  <2> SUFFICES ASSUME NEW i \in DOMAIN fifo', NEW k \in DOMAIN fifo', i <= k, fifo'[i] # Other
               PROVE  fifo'[k] <= fifo'[i]
    BY DEF OldestFirst
  <2>1. i + 1 \in DOMAIN fifo /\ k + 1 \in DOMAIN fifo /\ i + 1 <= k + 1 BY <1>3, <1>5
  <2> QED BY <1>3, <2>1 DEF IInv, OldestFirst
<1>10. NoneOlder'
  <2> SUFFICES ASSUME NEW p \in Peers, NEW i \in DOMAIN fifo' PROVE fifo'[i] <= joint'[p].age
    BY DEF NoneOlder
  <2>1. i + 1 \in DOMAIN fifo /\ 1 <= i + 1 /\ fifo'[i] = fifo[i + 1] BY <1>3, <1>5
  <2>2. CASE fifo[1] # Other /\ p \in plugged
    <3>1. joint'[p].age = fifo[1] BY <1>1, <1>4, <1>6, <2>2
    <3> QED BY <1>3, <2>1, <2>2, <3>1 DEF IInv, OldestFirst
  <2>3. CASE ~(fifo[1] # Other /\ p \in plugged)
    <3>1. joint'[p] = joint[p] BY <1>1, <1>4, <2>3
    <3> QED BY <2>1, <3>1 DEF IInv, NoneOlder
  <2> QED BY <2>2, <2>3
<1>11. CalmDelivers' BY <1>2, <1>3 DEF IInv, CalmDelivers, Delivers
<1>12. StaleFades'
  <2> SUFFICES ASSUME NEW j \in Joints, joint'[j].mode = "POSITION"
               PROVE  joint'[j].age <= joint'[j].since \/ calm <= joint'[j].since
    BY <1>2 DEF StaleFades
  <2>1. CASE fifo[1] # Other /\ j \in plugged
    <3>1. joint'[j].age = fifo[1] /\ joint'[j].since = 0 BY <1>4, <1>6, <2>1
    <3>2. calm > 0 => fifo[1] = 0 BY <1>3, <2>1 DEF IInv, CalmDelivers
    <3> QED BY <1>1, <3>1, <3>2
  <2>2. CASE ~(fifo[1] # Other /\ j \in plugged)
    <3>1. joint'[j] = joint[j] BY <1>4, <2>2
    <3> QED BY <3>1 DEF IInv, StaleFades
  <2> QED BY <2>1, <2>2
<1> QED BY <1>8, <1>9, <1>10, <1>11, <1>12 DEF IInv

\* A fault leaves the FIFO and the joints as they are, or drops frames and stops a joint;
\* nothing is calm after it.
LEMMA FaultKeeps ==
    ASSUME IInv, fifo' \in {fifo, <<>>}, calm' = 0 \/ UNCHANGED <<calm, can, plugged, short, fifo>>,
           joint' \in [Joints -> JointType],
           \A j \in Joints : joint'[j].age = joint[j].age
                             /\ (joint'[j] = joint[j] \/ joint'[j].mode = "DISABLED")
    PROVE  /\ fifo' \in Seq(Frames) /\ Len(fifo') <= FifoSize
           /\ OldestFirst' /\ NoneOlder' /\ CalmDelivers' /\ StaleFades'
<1>1. /\ fifo \in Seq(Frames) /\ Len(fifo) <= FifoSize /\ joint \in [Joints -> JointType]
      /\ Peers \subseteq Joints
  BY Types DEF IInv
<1>2. fifo' \in Seq(Frames) /\ Len(fifo') <= FifoSize
  <2>1. CASE fifo' = <<>> BY <2>1, Numbers
  <2>2. CASE fifo' = fifo BY <1>1, <2>2
  <2> QED BY <2>1, <2>2
<1>3. OldestFirst' /\ NoneOlder'
  <2>1. CASE fifo' = <<>> BY <2>1 DEF OldestFirst, NoneOlder
  <2>2. CASE fifo' = fifo BY <1>1, <2>2 DEF IInv, OldestFirst, NoneOlder
  <2> QED BY <2>1, <2>2
<1>4. CalmDelivers' BY DEF IInv, CalmDelivers, Delivers
<1>5. StaleFades'
  <2> SUFFICES ASSUME NEW j \in Joints, joint'[j].mode = "POSITION"
               PROVE  joint'[j].age <= joint'[j].since \/ calm' <= joint'[j].since
    BY DEF StaleFades
  <2>1. joint'[j] = joint[j] /\ joint[j].mode = "POSITION"
    <3>1. joint'[j].mode # "DISABLED" OBVIOUS
    <3> QED BY <3>1
  <2>2. joint[j].since \in Nat BY <1>1, Numbers DEF JointType
  <2>3. CASE calm' = 0 BY <2>1, <2>2, <2>3
  <2>4. CASE calm' = calm BY <2>1, <2>4 DEF IInv, StaleFades
  <2> QED BY <2>3, <2>4
<1> QED BY <1>2, <1>3, <1>4, <1>5

LEMMA FaultStep ==
    ASSUME IInv, \/ (\E n \in Peers : Plug(n)) \/ Short \/ GoBusOff \/ Rejoin
    PROVE  IInv'
<1>1. joint \in [Joints -> JointType] BY Types DEF IInv
<1>2. /\ UNCHANGED <<sweep, phase, round, stateDue, joint>> /\ calm' = 0
      /\ fifo' \in {fifo, <<>>} /\ can' \in {can, "on", "off"}
  BY DEF Plug, Short, Rewire, GoBusOff, Rejoin
<1>3. /\ fifo' \in Seq(Frames) /\ Len(fifo') <= FifoSize
      /\ OldestFirst' /\ NoneOlder' /\ CalmDelivers' /\ StaleFades'
  BY <1>1, <1>2, FaultKeeps
<1>4. plugged' \subseteq Peers /\ short' \in BOOLEAN
  BY DEF Plug, Short, Rewire, GoBusOff, Rejoin, IInv, TypeOK
<1>5. faults' \in 0 .. FaultsPerPeriod
  <2>1. faults \in 0 .. FaultsPerPeriod BY DEF IInv, TypeOK
  <2>2. CASE (\E n \in Peers : Plug(n)) \/ Short BY <2>1, <2>2, Numbers DEF Plug, Short, Rewire
  <2>3. CASE GoBusOff \/ Rejoin BY <2>1, <2>3 DEF GoBusOff, Rejoin
  <2> QED BY <2>2, <2>3
<1>6. TypeOK' BY <1>2, <1>3, <1>4, <1>5, Numbers DEF IInv, TypeOK, Frames
<1> QED BY <1>3, <1>6 DEF IInv

\* The callback changes nothing but the controller, which does not deliver anyway.
LEMMA CallbackStep ==
    ASSUME IInv, BusOffCallback
    PROVE  IInv'
<1>1. /\ UNCHANGED <<sweep, phase, round, stateDue, fifo, plugged, short, joint, calm, faults>>
      /\ can = "off" /\ can' = "rejoining"
  BY DEF BusOffCallback, AfterCallback
<1>2. TypeOK' BY <1>1 DEF IInv, TypeOK
<1>3. CalmDelivers' BY <1>1 DEF IInv, CalmDelivers, Delivers
<1> QED BY <1>1, <1>2, <1>3 DEF IInv, OldestFirst, NoneOlder, StaleFades

LEMMA RestartStep ==
    ASSUME IInv, NEW n \in Joints, Restart(n)
    PROVE  IInv'
<1>1. joint \in [Joints -> JointType] BY Types DEF IInv
<1>2. joint' = [joint EXCEPT ![n].mode = "DISABLED", ![n].since = 0] BY DEF Restart
<1>3. /\ joint' \in [Joints -> JointType]
      /\ \A j \in Joints : joint'[j].age = joint[j].age
                            /\ (joint'[j] = joint[j] \/ joint'[j].mode = "DISABLED")
  <2>1. joint[n] \in JointType /\ 0 \in 0 .. CommandTimeout BY <1>1, Numbers
  <2>2. joint'[n] \in JointType /\ joint'[n].age = joint[n].age /\ joint'[n].mode = "DISABLED"
    BY <1>1, <1>2, <2>1 DEF JointType
  <2>3. \A j \in Joints \ {n} : joint'[j] = joint[j] BY <1>1, <1>2
  <2>4. joint' = [j \in Joints |-> joint'[j]] BY <1>1, <1>2
  <2> QED BY <1>1, <2>2, <2>3, <2>4
<1>4. /\ fifo' \in {fifo, <<>>} /\ UNCHANGED <<plugged, short>>
      /\ calm' = 0 \/ UNCHANGED <<calm, can, plugged, short, fifo>>
  BY DEF Restart
<1>5. /\ fifo' \in Seq(Frames) /\ Len(fifo') <= FifoSize
      /\ OldestFirst' /\ NoneOlder' /\ CalmDelivers' /\ StaleFades'
  BY <1>3, <1>4, FaultKeeps
<1>6. faults' \in 0 .. FaultsPerPeriod
  <2>1. faults \in 0 .. FaultsPerPeriod BY DEF IInv, TypeOK
  <2> QED BY <2>1, Numbers DEF Restart
<1>7. /\ sweep' \in BOOLEAN /\ round' \in {"done", "heartbeat", "button"}
      /\ phase' \in 0 .. CommsPeriod - 1 /\ stateDue' \in BOOLEAN
      /\ can' \in {"on", "off", "rejoining"} /\ calm' \in Ages
  <2>1. CASE n = Own
    <3>1. 0 \in 0 .. CommsPeriod - 1 /\ 0 \in Ages BY Numbers
    <3> QED BY <2>1, <3>1 DEF Restart
  <2>2. CASE n # Own BY <2>2 DEF Restart, IInv, TypeOK
  <2> QED BY <2>1, <2>2
<1>8. TypeOK' BY <1>3, <1>4, <1>5, <1>6, <1>7 DEF IInv, TypeOK, Frames, JointType
<1> QED BY <1>5, <1>8 DEF IInv

LEMMA StutterStep ==
    ASSUME IInv, UNCHANGED vars
    PROVE  IInv'
BY DEF vars, IInv, TypeOK, OldestFirst, NoneOlder, CalmDelivers, Delivers, StaleFades

LEMMA StepIInv ==
    ASSUME IInv, [Next]_vars
    PROVE  IInv'
BY TickStep, SendStep, DeliverStep, FaultStep, CallbackStep, RestartStep, StutterStep
   DEF Next, Comms

--------------------------------------------------------------------------------
(* Theorems *)

THEOREM Inductive == Spec => []IInv
BY InitIInv, StepIInv, PTL DEF Spec

\* FIFO and counters keep to their ranges, and a joint is driven within its timeout only,
\* for every number of nodes, FIFO size and timeout: rjs_can_send, rjs_joint_step.
THEOREM TypeCorrect == Spec => []TypeOK
<1>1. IInv => TypeOK BY DEF IInv
<1> QED BY <1>1, Inductive, PTL

\* A joint is driven by a command from before an outage for one timeout after it at most,
\* whatever the transmit FIFO held and whoever was restarted.
THEOREM StaleBurstsEnd == Spec => []StaleOnlyAfterFault
<1>1. IInv => StaleOnlyAfterFault
  <2> SUFFICES ASSUME IInv, NEW j \in Joints, joint[j].mode = "POSITION",
                      joint[j].age > CommandTimeout + 1
               PROVE  calm <= CommandTimeout
    BY DEF StaleOnlyAfterFault
  <2>1. joint[j] \in JointType /\ calm \in Nat BY Types DEF IInv
  <2>2. joint[j].since \in 0 .. CommandTimeout /\ joint[j].age \in Int
    BY <2>1, Numbers DEF JointType
  <2>3. joint[j].age <= joint[j].since \/ calm <= joint[j].since BY DEF IInv, StaleFades
  <2> QED BY <2>1, <2>2, <2>3, Numbers
<1> QED BY <1>1, Inductive, PTL

\* Every node obeys commands in the order of their issue, over drops, retransmissions,
\* outages and restarts: the transmit FIFO of rjs_can_init never reorders.
THEOREM OrderKept == Spec => CommandsInOrder
<1>1. ASSUME IInv, [Next]_vars, NEW j \in Joints, joint'[j].age < MaxAge
      PROVE  joint'[j].age <= joint[j].age + 1
  <2>1. joint \in [Joints -> JointType] /\ Own \notin Peers /\ plugged \subseteq Peers
    BY <1>1, Types DEF IInv, TypeOK
  <2>2. joint[j] \in JointType /\ joint[j].age \in Ages /\ joint[j].age \in Int /\ joint[j].age >= 0
    <3>1. joint[j] \in JointType /\ joint[j].age \in Ages BY <2>1 DEF JointType
    <3> QED BY <3>1, Numbers DEF Ages
  <2>3. CASE Tick
    <3>1. joint'[j] = Aged(joint[j]) BY <2>3 DEF Tick
    <3> QED BY <2>2, <3>1, AgedFacts, OlderFacts
  <2>4. CASE Deliver
    <3>1. fifo \in Seq(Frames) /\ fifo # <<>> BY <1>1, <2>4, Types DEF IInv, Deliver
    <3>2. 1 \in DOMAIN fifo /\ fifo[NextOut] = fifo[1] /\ fifo[1] \in Frames
      BY <3>1, WithoutFacts
    <3>3. joint'[j] = IF fifo[1] # Other /\ j \in plugged THEN Obey(fifo[1]) ELSE joint[j]
      BY <2>4, <3>2 DEF Deliver
    <3>4. CASE fifo[1] # Other /\ j \in plugged
      <4>1. joint'[j].age = fifo[1] BY <3>2, <3>3, <3>4, ObeyFacts DEF Frames
      <4>2. fifo[1] <= joint[j].age BY <1>1, <2>1, <3>2, <3>4 DEF IInv, NoneOlder
      <4>3. fifo[1] \in Int BY <3>2, Numbers
      <4> QED BY <2>2, <4>1, <4>2, <4>3
    <3>5. CASE ~(fifo[1] # Other /\ j \in plugged) BY <2>2, <3>3, <3>5
    <3> QED BY <3>4, <3>5
  <2>5. CASE \E press \in BOOLEAN : Command(press)
    <3>1. joint' = joint \/ joint' = [joint EXCEPT ![Own] = Obey(0)] BY <2>5 DEF Command
    <3>2. joint'[j] = joint[j] \/ joint'[j].age = 0
      BY <2>1, <3>1, ObeyFacts, Numbers
    <3> QED BY <2>2, <3>2
  <2>6. CASE \E n \in Joints : Restart(n)
    <3>1. PICK n \in Joints : joint' = [joint EXCEPT ![n].mode = "DISABLED", ![n].since = 0]
      BY <2>6 DEF Restart
    <3>2. joint'[j].age = joint[j].age
      <4>1. CASE j = n BY <2>1, <2>2, <3>1, <4>1 DEF JointType
      <4>2. CASE j # n BY <2>1, <3>1, <4>2
      <4> QED BY <4>1, <4>2
    <3> QED BY <2>2, <3>2
  <2>7. CASE \/ SendHeartbeat \/ SendJointState \/ (\E n \in Peers : Plug(n)) \/ Short
            \/ GoBusOff \/ BusOffCallback \/ Rejoin \/ UNCHANGED vars
    <3>1. joint' = joint
      BY <2>7 DEF SendHeartbeat, SendJointState, Plug, Short, Rewire, GoBusOff,
                  BusOffCallback, Rejoin, vars
    <3> QED BY <2>2, <3>1
  <2> QED BY <1>1, <2>3, <2>4, <2>5, <2>6, <2>7 DEF Next, Comms
<1>2. IInv /\ [Next]_vars => [\A j \in Joints : joint'[j].age < MaxAge
                                             => joint'[j].age <= joint[j].age + 1]_vars
  BY <1>1
<1> QED BY <1>2, Inductive, PTL DEF Spec, CommandsInOrder

--------------------------------------------------------------------------------
(* Progress: what a step does towards the stop of all joints *)

\* The frame that leaves brings the last COMMAND one place forward.
LEMMA DeliverAdvances ==
    ASSUME IInv, Deliver, NEW n \in 0 .. FifoSize, CommandsUpTo(n)
    PROVE  CommandsUpTo(n)' /\ (n > 0 => CommandsUpTo(n - 1)')
<1>1. fifo \in Seq(Frames) /\ fifo # <<>> BY Types DEF IInv, Deliver
<1>2. fifo' = Without(fifo, NextOut) BY DEF Deliver
<1>3. ASSUME NEW i \in DOMAIN fifo', fifo'[i] # Other PROVE i \in Int /\ i + 1 <= n
  <2>1. i + 1 \in DOMAIN fifo /\ fifo'[i] = fifo[i + 1] BY <1>1, <1>2, <1>3, WithoutFacts
  <2>2. i \in Int
    <3>1. fifo' \in Seq(Frames) BY <1>1, <1>2, WithoutFacts
    <3> QED BY <1>3, <3>1
  <2> QED BY <1>3, <2>1, <2>2 DEF CommandsUpTo
<1>4. n \in Int BY Numbers
<1> QED BY <1>3, <1>4 DEF CommandsUpTo

\* No step of a controller whose sweep is off puts a COMMAND into the FIFO.
LEMMA NoCommandSent ==
    ASSUME IInv, [Next]_vars, ~sweep', NEW n \in 0 .. FifoSize, CommandsUpTo(n)
    PROVE  CommandsUpTo(n)'
<1>1. fifo \in Seq(Frames) /\ Len(fifo) <= FifoSize BY Types DEF IInv
<1>2. CASE Tick
  <2>1. \A i \in DOMAIN fifo' : i \in DOMAIN fifo /\ (fifo[i] = Other => fifo'[i] = Other)
    BY <1>2 DEF Tick
  <2> QED BY <2>1 DEF CommandsUpTo
<1>3. CASE SendHeartbeat \/ SendJointState
  <2>1. fifo' = Sent(Other) BY <1>3 DEF SendHeartbeat, SendJointState
  <2>2. Other \in Frames BY DEF Frames
  <2>3. \A i \in DOMAIN fifo' : \/ i \in DOMAIN fifo /\ fifo'[i] = fifo[i]
                               \/ fifo'[i] = Other
    BY <1>1, <2>1, <2>2, SentFacts
  <2> QED BY <2>3 DEF CommandsUpTo
<1>4. CASE Deliver BY <1>4, DeliverAdvances
<1>5. CASE GoBusOff \/ \E m \in Joints : Restart(m)
  <2>1. fifo' = fifo \/ fifo' = <<>> BY <1>5 DEF GoBusOff, Restart
  <2> QED BY <2>1 DEF CommandsUpTo
<1>6. CASE \/ \E press \in BOOLEAN : Command(press)
          \/ (\E m \in Peers : Plug(m)) \/ Short \/ BusOffCallback \/ Rejoin
          \/ UNCHANGED vars
  <2>1. fifo' = fifo
    BY <1>6 DEF Command, Plug, Short, Rewire, BusOffCallback, Rejoin, vars
  <2> QED BY <2>1 DEF CommandsUpTo
<1> QED BY <1>2, <1>3, <1>4, <1>5, <1>6 DEF Next, Comms

\* Once no COMMAND waits, no joint starts to be driven, and the timer of one that still
\* is runs on with every period.
LEMMA JointsRunDown ==
    ASSUME IInv, [Next]_vars, ~sweep', CommandsUpTo(0), NEW j \in Joints
    PROVE  RunsDown(j)
<1>1. joint \in [Joints -> JointType] /\ joint[j].since \in Nat
  <2>1. joint \in [Joints -> JointType] BY Types DEF IInv
  <2>2. joint[j].since \in 0 .. CommandTimeout BY <2>1 DEF JointType
  <2> QED BY <2>1, <2>2, Numbers
<1>2. ASSUME Tick, joint'[j].mode = "POSITION"
      PROVE  joint[j].mode = "POSITION" /\ joint'[j].since = joint[j].since + 1
  <2>1. joint'[j] = Aged(joint[j]) BY <1>2 DEF Tick
  <2> QED BY <1>1, <1>2, <2>1, AgedFacts
<1>3. CASE Tick BY <1>1, <1>2, <1>3 DEF RunsDown
<1>4. CASE Deliver
  <2>1. fifo \in Seq(Frames) /\ fifo # <<>> BY <1>4, Types DEF IInv, Deliver
  <2>2. 1 \in DOMAIN fifo /\ fifo[NextOut] = fifo[1] BY <2>1, WithoutFacts
  <2>3. fifo[1] = Other BY <2>2 DEF CommandsUpTo
  <2>4. joint'[j] = joint[j] BY <1>4, <2>2, <2>3 DEF Deliver
  <2> QED BY <1>1, <1>2, <2>4 DEF RunsDown
<1>5. CASE \E m \in Joints : Restart(m)
  <2>1. PICK m \in Joints : joint' = [joint EXCEPT ![m].mode = "DISABLED", ![m].since = 0]
    BY <1>5 DEF Restart
  <2>2. CASE j = m
    <3>1. joint'[j].mode = "DISABLED" BY <1>1, <2>1, <2>2 DEF JointType
    <3> QED BY <3>1 DEF RunsDown
  <2>3. CASE j # m
    <3>1. joint'[j] = joint[j] BY <1>1, <2>1, <2>3
    <3> QED BY <1>1, <1>2, <3>1 DEF RunsDown
  <2> QED BY <2>2, <2>3
<1>6. CASE \/ SendHeartbeat \/ SendJointState \/ (\E press \in BOOLEAN : Command(press))
          \/ (\E m \in Peers : Plug(m)) \/ Short \/ GoBusOff \/ BusOffCallback \/ Rejoin
          \/ UNCHANGED vars
  <2>1. joint' = joint
    BY <1>6 DEF SendHeartbeat, SendJointState, Command, Plug, Short, Rewire, GoBusOff,
                BusOffCallback, Rejoin, vars
  <2> QED BY <1>1, <1>2, <2>1 DEF RunsDown
<1> QED BY <1>3, <1>4, <1>5, <1>6 DEF Next, Comms

\* With the sweep off, every step leaves the node network no farther from the stop of all
\* joints, and deliveries and periods bring it nearer: however the bus fails meanwhile.
THEOREM StopNears == Spec => NearsStop
<1> DEFINE A == ~sweep' =>
                   /\ \A n \in 0 .. FifoSize :
                         CommandsUpTo(n) =>
                            CommandsUpTo(n)' /\ (Deliver /\ n > 0 => CommandsUpTo(n - 1)')
                   /\ CommandsUpTo(0) => \A j \in Joints : RunsDown(j)
<1>1. ASSUME IInv, [Next]_vars PROVE A
  <2> SUFFICES ASSUME ~sweep'
               PROVE  /\ \A n \in 0 .. FifoSize :
                            CommandsUpTo(n) =>
                               CommandsUpTo(n)' /\ (Deliver /\ n > 0 => CommandsUpTo(n - 1)')
                      /\ CommandsUpTo(0) => \A j \in Joints : RunsDown(j)
    OBVIOUS
  <2>1. ASSUME NEW n \in 0 .. FifoSize, CommandsUpTo(n)
        PROVE  CommandsUpTo(n)' /\ (Deliver /\ n > 0 => CommandsUpTo(n - 1)')
    BY <1>1, <2>1, NoCommandSent, DeliverAdvances
  <2>2. ASSUME CommandsUpTo(0), NEW j \in Joints PROVE RunsDown(j)
    BY <1>1, <2>2, JointsRunDown
  <2> QED BY <2>1, <2>2
<1>2. IInv /\ [Next]_vars => [A]_vars BY <1>1
<1> QED BY <1>2, Inductive, PTL DEF Spec, NearsStop

--------------------------------------------------------------------------------
(* The joints of Network are those of joint.c *)

Timer == INSTANCE JointTimer

\* A joint as Network sees it, and as JointTimer does; Network forgets the timer of a
\* disabled joint, which is the only thing they may differ in.
Agree(r, j) == r.mode = j.mode /\ (j.mode = "POSITION" => r.since = j.since)

\* Network's joint goes with the reduced joint of JointTimer from command to command and
\* from period to period, and so (ReducesToTimer of JointProofs) with that of joint.c.
THEOREM JointsAreTimers ==
    ASSUME NEW r \in JointType, NEW a \in Ages,
           NEW j \in [mode : {"DISABLED", "POSITION"}, lost : BOOLEAN, since : Nat],
           Agree(r, j)
    PROVE  /\ Agree(Obey(a), Timer!Commanded("POSITION"))
           /\ Agree(Aged(r), Timer!Stepped(j, 1))
<1>1. Agree(Obey(a), Timer!Commanded("POSITION"))
  BY DEF Agree, Obey, Timer!Commanded
<1>2. /\ r.mode \in {"DISABLED", "POSITION"} /\ r.since \in Nat /\ CommandTimeout \in Nat
      /\ j.mode = r.mode /\ j.since \in Nat
  BY Numbers DEF JointType, Agree
<1>3. CASE r.mode = "DISABLED"
  <2>1. Timer!Stepped(j, 1) = j BY <1>2, <1>3 DEF Timer!Stepped
  <2>2. Aged(r).mode = "DISABLED" BY <1>3 DEF Aged, Expires
  <2> QED BY <1>1, <1>3, <2>1, <2>2 DEF Agree
<1>4. CASE r.mode = "POSITION"
  <2>1. j.since = r.since BY <1>2, <1>4 DEF Agree
  <2>2. CASE r.since + 1 > CommandTimeout
    <3>1. Timer!Stepped(j, 1).mode = "DISABLED" BY <1>2, <1>4, <2>1, <2>2 DEF Timer!Stepped
    <3>2. Aged(r).mode = "DISABLED" BY <1>4, <2>1, <2>2 DEF Aged, Expires
    <3> QED BY <1>1, <3>1, <3>2 DEF Agree
  <2>3. CASE ~(r.since + 1 > CommandTimeout)
    <3>1. Timer!Stepped(j, 1) = [j EXCEPT !.since = @ + 1] BY <1>2, <1>4, <2>1, <2>3 DEF Timer!Stepped
    <3>2. Timer!Stepped(j, 1).mode = "POSITION" /\ Timer!Stepped(j, 1).since = r.since + 1
      BY <1>2, <1>4, <2>1, <3>1
    <3>3. Aged(r).mode = "POSITION" /\ Aged(r).since = r.since + 1
      BY <1>4, <2>1, <2>3 DEF Aged, Expires
    <3> QED BY <1>1, <3>2, <3>3 DEF Agree
  <2> QED BY <2>2, <2>3
<1> QED BY <1>2, <1>3, <1>4
================================================================================
