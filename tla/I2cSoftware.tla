---------------------------- MODULE I2cSoftware ----------------------------
(***************************************************************************)
(* The I2C master in software (driver/i2c_software.c) and a device on its  *)
(* bus.  Every function of the driver is a fixed sequence of operations on *)
(* the pins; the only branch is in wait_ack.  A byte is the sequence of    *)
(* its bits, the most significant first, and its length is a parameter.    *)
(*                                                                         *)
(* The pins are open drain: SDA is low when the master or the device pulls *)
(* it.  The device is what the driver is written for: it shifts bits in at *)
(* the rising edge of SCL, changes SDA after the falling edge, answers for *)
(* its address, perhaps late, and sends until the master does not          *)
(* acknowledge.  It reacts to an edge before the next operation, since the *)
(* interface waits 10 us in every one.                                     *)
(***************************************************************************)
EXTENDS Integers, Sequences, SequencesExt

CONSTANTS
  ByteBits,     \* the number of bits of a byte, one of them for the direction
  Byte,         \* the bytes that are sent
  DeviceAddr,   \* the address of the device, of ByteBits - 1 bits
  Transfers     \* the calls: the arguments of i2c_software_write and _read

Bit == {0, 1}

\* reg is <<>> when has_reg is false.  i2c_software_read has a length instead of
\* data; it is not 0, for the device would be left with the first bit of a byte.
ASSUME I2cAssumption ==
  /\ ByteBits \in Nat \ {0, 1} /\ Byte \subseteq [1 .. ByteBits -> Bit]
  /\ DeviceAddr \in [1 .. ByteBits - 1 -> Bit]
  /\ \A c \in Transfers :
       /\ c.op \in {"write", "read"} /\ c.wait_ack_us \in Nat
       /\ c.dev_addr \in [1 .. ByteBits - 1 -> Bit]
       /\ c.reg \in Seq(Byte) /\ Len(c.reg) <= 1
       /\ IF c.op = "write" THEN c.data \in Seq(Byte) ELSE c.len \in Nat \ {0}

VARIABLES
  call,     \* the arguments of the present call or of the last one
  todo,     \* the operations on the pins it has still to do
  acked,    \* no acknowledgement has been missing: what the call returns
  bits,     \* the bits i2c_software_read has read
  sda,      \* what the master writes to SDA; 1 releases it
  scl,
  device,   \* what the device does, its bits of the present byte and its SDA
  got,      \* the bytes the device has acknowledged in this call
  sent      \* and those it has begun to send

masterVars == <<call, todo, acked, bits>>
busVars == <<sda, scl, device, got, sent>>
i2cVars == <<masterVars, busVars>>

\* first: no byte has been answered since the last start condition.
Device == [mode : {"idle", "listen", "answer", "late", "deaf", "send", "answered"},
           first : BOOLEAN, bits : Seq(Bit), sda : Bit]

i2c_init ==
  /\ call \in Transfers
  /\ todo = <<>> /\ acked = FALSE /\ bits = <<>>
  /\ sda = 1 /\ scl = 1
  /\ device = [mode |-> "idle", first |-> FALSE, bits |-> <<>>, sda |-> 1]
  /\ got = <<>> /\ sent = <<>>

-----------------------------------------------------------------------------
(* The functions of the driver as operations on the pins *)

SDA(level) == <<"sda", level>>
SCL(level) == <<"scl", level>>
READ_SDA == <<"read", 1>>     \* the bit is kept
WAIT_SDA == <<"wait", 0>>     \* the loop of wait_ack

i2c_software_start == <<SDA(1), SCL(1), SDA(0), SCL(0)>>

i2c_software_stop == <<SDA(0), SCL(1), SDA(1)>>

i2c_software_wait_ack == <<SDA(1), SCL(1), WAIT_SDA, SCL(0)>>

i2c_software_send_ack == <<SDA(0), SCL(1), SCL(0)>>

i2c_software_send_no_ack == <<SDA(1), SCL(1), SCL(0)>>

i2c_software_send_byte(byte) ==
  FlattenSeq([i \in 1 .. ByteBits |-> <<SDA(byte[i]), SCL(1), SCL(0)>>])

i2c_software_read_byte ==
  <<SDA(1)>> \o FlattenSeq([i \in 1 .. ByteBits |-> <<SCL(1), READ_SDA, SCL(0)>>])

Acknowledged(bytes) ==
  FlattenSeq([i \in DOMAIN bytes |->
               i2c_software_send_byte(bytes[i]) \o i2c_software_wait_ack])

ToWrite(c) == Append(c.dev_addr, 0)
ToRead(c) == Append(c.dev_addr, 1)

i2c_software_write(c) ==
  i2c_software_start \o Acknowledged(<<ToWrite(c)>> \o c.reg \o c.data) \o i2c_software_stop

\* Mutant of answer_byte: the last byte is acknowledged like the others.
AckEveryByte(c, i) == i2c_software_send_ack

answer_byte(c, i) ==
  IF i = c.len THEN i2c_software_send_no_ack ELSE i2c_software_send_ack

i2c_software_read(c) ==
  i2c_software_start \o Acknowledged(<<ToWrite(c)>> \o c.reg)
    \o i2c_software_start \o Acknowledged(<<ToRead(c)>>)
    \o FlattenSeq([i \in 1 .. c.len |-> i2c_software_read_byte \o answer_byte(c, i)])
    \o i2c_software_stop

-----------------------------------------------------------------------------
(* The device *)

Line(master, slave) == IF master = 1 /\ slave = 1 THEN 1 ELSE 0

read_sda == Line(sda, device.sda)

\* SDA falls, or rises, while SCL is high.
StartCondition == scl = 1 /\ scl' = 1 /\ read_sda = 1 /\ Line(sda', device.sda) = 0
StopCondition == scl = 1 /\ scl' = 1 /\ read_sda = 0 /\ Line(sda', device.sda) = 1

Rising == scl = 0 /\ scl' = 1
Falling == scl = 1 /\ scl' = 0

Becomes(mode, b, level) ==
  device' = [device EXCEPT !.mode = mode, !.bits = b, !.sda = level]

Complete == Len(device.bits) = ByteBits

\* It answers for its address only; one that needs time for its answer is used
\* with a time to wait.
Answers ==
  \/ /\ device.first => Front(device.bits) = DeviceAddr
     /\ \/ Becomes("answer", device.bits, 0)
        \/ call.wait_ack_us > 0 /\ Becomes("late", device.bits, 1)
  \/ Becomes("deaf", <<>>, 1)

Listens == device' = [mode |-> "listen", first |-> FALSE, bits |-> <<>>, sda |-> 1]

\* The first bit of a byte is on the line before SCL rises.
Sends == \E b \in Byte :
  /\ device' = [mode |-> "send", first |-> FALSE, bits |-> b, sda |-> Head(b)]
  /\ sent' = Append(sent, b)

OnRising ==
  IF device.mode = "answered" \/ (device.mode = "listen" /\ ~Complete)
    THEN device' = [device EXCEPT !.bits = Append(@, read_sda)]
    ELSE UNCHANGED device

\* After the last bit of a byte it received or sent, and after the bit that
\* answers it.
OnFalling ==
  CASE device.mode = "listen" /\ Complete -> Answers /\ UNCHANGED <<got, sent>>
    [] device.mode = "answer" ->
         /\ got' = Append(got, device.bits)
         /\ IF device.first /\ Last(device.bits) = 1
              THEN Sends ELSE Listens /\ UNCHANGED sent
    [] device.mode = "send" ->
         /\ IF Len(device.bits) > 1
              THEN Becomes("send", Tail(device.bits), device.bits[2])
              ELSE Becomes("answered", <<>>, 1)
         /\ UNCHANGED <<got, sent>>
    [] device.mode = "answered" ->
         /\ IF device.bits = <<0>> THEN Sends ELSE Becomes("idle", <<>>, 1) /\ UNCHANGED sent
         /\ UNCHANGED got
    [] OTHER -> UNCHANGED <<device, got, sent>>

DeviceReacts ==
  CASE StartCondition ->
         /\ device' = [mode |-> "listen", first |-> TRUE, bits |-> <<>>, sda |-> 1]
         /\ UNCHANGED <<got, sent>>
    [] StopCondition -> Becomes("idle", <<>>, 1) /\ UNCHANGED <<got, sent>>
    [] Rising -> OnRising /\ UNCHANGED <<got, sent>>
    [] Falling -> OnFalling
    [] OTHER -> UNCHANGED <<device, got, sent>>

LateAnswer ==
  /\ device.mode = "late"
  /\ Becomes("answer", device.bits, 0)
  /\ UNCHANGED <<masterVars, sda, scl, got, sent>>

-----------------------------------------------------------------------------
(* The master *)

Begin(c) ==
  /\ todo = <<>>
  /\ call' = c
  /\ todo' = IF c.op = "write" THEN i2c_software_write(c) ELSE i2c_software_read(c)
  /\ acked' = TRUE /\ bits' = <<>>
  /\ got' = <<>> /\ sent' = <<>>
  /\ UNCHANGED <<sda, scl, device>>

AtOperation(op) == todo # <<>> /\ Head(todo)[1] = op

write_sda ==
  /\ AtOperation("sda")
  /\ sda' = Head(todo)[2]
  /\ todo' = Tail(todo)
  /\ UNCHANGED <<call, acked, bits, scl>>
  /\ DeviceReacts

write_scl ==
  /\ AtOperation("scl")
  /\ scl' = Head(todo)[2]
  /\ todo' = Tail(todo)
  /\ UNCHANGED <<call, acked, bits, sda>>
  /\ DeviceReacts

ReadBit ==
  /\ AtOperation("read")
  /\ bits' = Append(bits, read_sda)
  /\ todo' = Tail(todo)
  /\ UNCHANGED <<call, acked, busVars>>

\* Mutant of gives_up: the timeout is compared before it is counted.
ComparedFirst == 0 > call.wait_ack_us

\* timeout is 0 again in every turn of the loop.
gives_up == 0 + 1 > call.wait_ack_us

\* One turn of the loop; delay_us(1) only takes time.  When it gives up both
\* wait_ack and its caller send a stop.
WaitAck ==
  /\ AtOperation("wait")
  /\ CASE read_sda = 0 -> todo' = Tail(todo) /\ UNCHANGED acked
       [] read_sda = 1 /\ gives_up ->
            todo' = i2c_software_stop \o i2c_software_stop /\ acked' = FALSE
       [] OTHER -> UNCHANGED <<todo, acked>>
  /\ UNCHANGED <<call, bits, busVars>>

Operation == write_sda \/ write_scl \/ ReadBit \/ WaitAck

I2cNext == Operation \/ LateAnswer \/ \E c \in Transfers : Begin(c)

\* The driver's code runs, and a device that is late answers in the end.
I2cSpec ==
  /\ i2c_init /\ [][I2cNext]_i2cVars
  /\ WF_i2cVars(Operation) /\ WF_i2cVars(LateAnswer)

-----------------------------------------------------------------------------

\* The bus between two calls: both lines are high, whether the last call succeeded
\* or not, so that the next one can start.
BusFree == todo = <<>> => read_sda = 1 /\ scl = 1 /\ device.mode = "idle"

\* A call that returns true has transferred its bytes: the device has got the
\* address for writing, the register and the data, or the address again for
\* reading, in this order; and the caller has the bytes the device sent, as many
\* as it asked for.
TransferExact ==
  todo = <<>> /\ acked =>
    /\ got = <<ToWrite(call)>> \o call.reg
               \o IF call.op = "write" THEN call.data ELSE <<ToRead(call)>>
    /\ bits = FlattenSeq(sent)
    /\ call.op = "read" => Len(sent) = call.len

\* Types, and what a call leaves behind.
I2cInv ==
  /\ call \in Transfers /\ acked \in BOOLEAN
  /\ sda \in Bit /\ scl \in Bit /\ device \in Device
  /\ BusFree /\ TransferExact

\* A call returns when the device answers every byte in the end, or when the time
\* to wait is 0.
TransferEnds ==
  [](device.mode = "deaf" => call.wait_ack_us = 0) => (todo # <<>> ~> todo = <<>>)

\* wait_ack_us is the time to wait for an answer: a call returns whether the
\* device answers or not (i2c_software.h:38).
TimeToWaitEnds == todo # <<>> ~> todo = <<>>

=============================================================================
