---------------------------------- MODULE Wire ----------------------------------
(***************************************************************************)
(* common/protocol: messages as bytes.  A message is sent by encode, changed *)
(* on the way or written by other software (another version, a longer or     *)
(* shorter payload, other contents), and decoded by the receiver.            *)
(*                                                                         *)
(* A byte is 0 .. Base - 1, with Base 256 in the code.  The value of a       *)
(* message is the sequence of its fields in the order of the payload.        *)
(***************************************************************************)
EXTENDS Integers, Sequences

CONSTANTS
    Base,           \* values of a byte
    NodeIdMax       \* RJS_NODE_ID_MAX; a node takes the values up to it in an identifier

ASSUME WireAssumption == Base \in Nat /\ Base >= 6 /\ Base % 2 = 0 /\ NodeIdMax \in Nat

VARIABLES
    stage,      \* "idle", "sent", "decoded"
    message,    \* history: what was encoded: kind, node, value
    frame,      \* the frame on the bus: id, len, data
    mangled,    \* history: was the frame changed on the way?
    result,     \* which decoder was called, and what it returned
    out         \* the struct decode writes to

vars == <<stage, message, frame, mangled, result, out>>

--------------------------------------------------------------------------------
(* Layouts: offset, width in bytes and signedness of every field *)

F(at, width, signed) == [at |-> at, width |-> width, signed |-> signed]

Layout == [
    EMERGENCY   |-> <<F(2, 2, FALSE), F(4, 4, FALSE)>>,
    COMMAND     |-> <<F(1, 1, FALSE), F(2, 4, TRUE), F(6, 4, TRUE), F(10, 2, FALSE)>>,
    JOINT_STATE |-> <<F(1, 1, FALSE), F(2, 4, TRUE), F(6, 4, TRUE), F(10, 2, TRUE),
                      F(12, 2, TRUE), F(14, 2, FALSE)>>,
    HEARTBEAT   |-> <<F(1, 1, FALSE), F(2, 2, FALSE), F(4, 4, FALSE), F(8, 1, FALSE),
                      F(9, 1, FALSE), F(10, 1, FALSE)>>]
Length == [EMERGENCY |-> 8, COMMAND |-> 12, JOINT_STATE |-> 16, HEARTBEAT |-> 12]
Type == [EMERGENCY |-> 0, COMMAND |-> 1, JOINT_STATE |-> 2, HEARTBEAT |-> 7]
Kinds == DOMAIN Layout
Version == 1
MaxPayload == 64

\* Payload sizes of CAN FD by DLC, and the way of a length through the DLC of a frame:
\* rjs_can_send finds the code, the receive interrupt the length, 0 for none.
Sizes == <<0, 1, 2, 3, 4, 5, 6, 7, 8, 12, 16, 20, 24, 32, 48, 64>>
HasDlc(len) == \E dlc \in 0 .. 15 : Sizes[dlc + 1] = len
LenToDlc(len) == CHOOSE dlc \in 0 .. 15 : Sizes[dlc + 1] = len
DlcToLen(dlc) == Sizes[dlc + 1]

\* rjs_make_id, rjs_id_type, rjs_id_node.
MakeId(type, node) == (type % 16) * (NodeIdMax + 1) + node
IdType(id) == (id \div (NodeIdMax + 1)) % 16
IdNode(id) == id % (NodeIdMax + 1)

\* Values of so many bytes: the code's shifts by 8, 16 and 24 bits, and the whole type.
Power(bytes) ==
    CASE bytes = 0 -> 1
      [] bytes = 1 -> Base
      [] bytes = 2 -> Base * Base
      [] bytes = 3 -> Base * Base * Base
      [] bytes = 4 -> Base * Base * Base * Base

\* Byte k of a value (put_u16, put_u32): two's complement, little-endian.
Digit(v, width, k) == ((v % Power(width)) \div Power(k)) % Base

\* get_u16, get_u32 and the cast to the signed type; the mutant has no cast.
Unsigned(data, at, width) ==
    data[at] + (IF width > 1 THEN data[at + 1] * Base ELSE 0)
             + (IF width > 2 THEN data[at + 2] * Power(2) + data[at + 3] * Power(3) ELSE 0)
NoCast(u, f) == u
Cast(u, f) == IF f.signed /\ 2 * u >= Power(f.width) THEN u - Power(f.width) ELSE u
Field(data, f) == Cast(Unsigned(data, f.at, f.width), f)

\* What the types of the fields of a message can hold.
InType(x, f) ==
    IF f.signed THEN -Power(f.width) <= 2 * x /\ 2 * x < Power(f.width)
    ELSE 0 <= x /\ x < Power(f.width)
Structs(kind) ==
    {v \in [DOMAIN Layout[kind] -> Int] : \A i \in DOMAIN v : InType(v[i], Layout[kind][i])}

--------------------------------------------------------------------------------
(* encode and decode *)

\* What a joint must never execute, and a state no node is in.
BadCommand(v) == v[1] > 1 \/ (v[1] = 1 /\ v[3] <= 0)
Encodable(kind, node, v) ==
    CASE kind = "COMMAND" -> node <= NodeIdMax /\ ~BadCommand(v)
      [] kind = "HEARTBEAT" -> node \in 1 .. NodeIdMax /\ v[1] <= 3
      [] OTHER -> node \in 1 .. NodeIdMax

\* The field that byte b of a payload belongs to, if any.
FieldsAt(kind, b) ==
    {i \in DOMAIN Layout[kind] :
        LET f == Layout[kind][i] IN b \in f.at .. f.at + f.width - 1}

\* frame_start and the puts: bytes of no field are 0.
Payload(kind, v) ==
    [b \in 0 .. Length[kind] - 1 |->
        IF b = 0 THEN Version
        ELSE IF FieldsAt(kind, b) = {} THEN 0
        ELSE LET i == CHOOSE i \in FieldsAt(kind, b) : TRUE
             IN  Digit(v[i], Layout[kind][i].width, b - Layout[kind][i].at)]

\* frame_check.
Check(kind, f) ==
    IF IdType(f.id) # Type[kind] THEN "TYPE"
    ELSE IF f.len < Length[kind] \/ f.len > MaxPayload THEN "LENGTH"
    ELSE IF f.data[0] # Version THEN "VERSION" ELSE "OK"

\* The fields as decode reads them; of a shorter frame it would read what the buffer
\* holds past the payload, 0 here.
Fields(kind, f) ==
    LET byte == [b \in 0 .. MaxPayload - 1 |-> IF b < f.len THEN f.data[b] ELSE 0]
    IN  [i \in DOMAIN Layout[kind] |-> Field(byte, Layout[kind][i])]

\* Commands are checked after they are read; the mutant lets a velocity of 0 through.
RejectsNegative(kind, v) == kind = "COMMAND" /\ (v[1] > 1 \/ (v[1] = 1 /\ v[3] < 0))
Rejects(kind, v) == kind = "COMMAND" /\ BadCommand(v)

Untouched == <<>>

--------------------------------------------------------------------------------
Init ==
    /\ stage = "idle" /\ mangled = FALSE
    /\ message = [kind |-> "HEARTBEAT", node |-> 0, value |-> <<>>]
    /\ frame = [id |-> 0, len |-> 0, data |-> [b \in {0} |-> 0]]
    /\ result = [by |-> "HEARTBEAT", is |-> "none"] /\ out = Untouched

Send(kind, node, v) ==
    /\ stage = "idle" /\ Encodable(kind, node, v) /\ HasDlc(Length[kind])
    /\ stage' = "sent"
    /\ message' = [kind |-> kind, node |-> node, value |-> v]
    /\ frame' = [id |-> MakeId(Type[kind], node), len |-> DlcToLen(LenToDlc(Length[kind])),
                 data |-> Payload(kind, v)]
    /\ UNCHANGED <<mangled, result, out>>

\* Other software sends more bytes than this version knows, or fewer, or another
\* version, or contents that this encoder would refuse.
Resize(len) ==
    /\ stage = "sent" /\ frame.len = Length[message.kind] /\ ~mangled /\ HasDlc(len)
    /\ frame' = [frame EXCEPT !.len = len,
                     !.data = [b \in 0 .. len - 1 |-> IF b < frame.len THEN @[b] ELSE Base - 1]]
    /\ mangled' = (len < frame.len)
    /\ UNCHANGED <<stage, message, result, out>>

Overwrite(b, byte) ==
    /\ stage = "sent" /\ b < frame.len
    /\ frame' = [frame EXCEPT !.data[b] = byte]
    /\ mangled' = TRUE
    /\ UNCHANGED <<stage, message, result, out>>

\* The receiver calls the decoder of some kind.
Decode(kind) ==
    /\ stage = "sent" /\ stage' = "decoded"
    /\ result' = [by |-> kind,
                  is |-> IF Check(kind, frame) # "OK" THEN Check(kind, frame)
                         ELSE IF Rejects(kind, Fields(kind, frame)) THEN "PARAM" ELSE "OK"]
    /\ out' = IF result'.is = "OK" THEN Fields(kind, frame) ELSE Untouched
    /\ UNCHANGED <<message, frame, mangled>>

Next ==
    \/ \E kind \in Kinds, node \in Nat : \E v \in Structs(kind) : Send(kind, node, v)
    \/ \E len \in Nat : Resize(len)
    \/ \E b \in Nat, byte \in 0 .. Base - 1 : Overwrite(b, byte)
    \/ \E kind \in Kinds : Decode(kind)

Spec == Init /\ [][Next]_vars

--------------------------------------------------------------------------------
(* Properties *)

\* A message arrives as it was sent, from the node that sent it, also in a longer
\* payload, and the decoders of the other kinds refuse it; whatever a frame holds, no
\* field is read from beyond its payload.
RoundTrip ==
    /\ stage = "decoded" /\ ~mangled =>
           /\ IdNode(frame.id) = message.node
           /\ result.is = "OK" <=> result.by = message.kind
           /\ result.is = "OK" => out = message.value
    /\ result.is = "OK" => \A f \in {Layout[result.by][i] : i \in DOMAIN out} :
                                f.at + f.width <= frame.len

\* The COMMAND payload of docs/protocol.md by its bytes: DISABLED, or POSITION with a
\* max_velocity that is not 0 and whose sign bit is clear.
Executable(d) ==
    d[1] = 0 \/ (d[1] = 1 /\ d[9] < Base \div 2 /\ \E b \in 6 .. 9 : d[b] # 0)

\* Of the frames that are COMMANDs by their type, length and version, whatever their other
\* bytes hold, the decoder lets through to the joint exactly the executable ones: through
\* the sums of bytes and the cast to int32_t, no unknown mode, zero or negative velocity
\* passes, and none that the table allows is refused.
CommandsExecutable ==
    result.by = "COMMAND" /\ result.is \in {"OK", "PARAM"} =>
        (result.is = "OK" <=> Executable(frame.data))
================================================================================
