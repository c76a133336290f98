------------------------------ MODULE MCParts ------------------------------
(***************************************************************************)
(* The modules of the parts that share no state with the scheduler or with *)
(* each other, and AtomicLists, for TLC: in one run, of which the initial  *)
(* state says which part moves.                                            *)
(***************************************************************************)
EXTENDS MCAtomicLists, Memory, KeyObj, I2cSoftware, Console, Delay, Port

VARIABLE part

otherVars(p) ==
  /\ p # "lists" => UNCHANGED atomicVars
  /\ p # "memory" => UNCHANGED memoryVars
  /\ p # "key" => UNCHANGED keyVars
  /\ p # "i2c" => UNCHANGED i2cVars
  /\ p # "console" => UNCHANGED consoleVars
  /\ p # "delay" => UNCHANGED delayVars
  /\ p # "port" => UNCHANGED portVars

Only(p) == part = p /\ part' = p /\ otherVars(p)

\* A part that does not move has one initial state.
PartsInit ==
  /\ part \in {"lists", "memory", "key", "i2c", "console", "delay", "port"}
  /\ AtomicInit /\ MemoryInit /\ key_init /\ i2c_init /\ ConsoleInit /\ DelayInit /\ PortInit
  /\ part # "lists" => config = CHOOSE c \in Configs : TRUE
  /\ part # "i2c" => call = CHOOSE c \in Transfers : TRUE
  /\ part # "delay" => us = 0 /\ prev_value = 0
  /\ part # "port" => port = "m0" /\ current = (CHOOSE t \in Thread : TRUE)
                      /\ live.low.value = (CHOOSE v \in Value : TRUE)

PartsNext ==
  \/ AtomicNext /\ Only("lists")
  \/ MemoryNext /\ Only("memory")
  \/ KeyNext /\ Only("key")
  \/ I2cNext /\ Only("i2c")
  \/ ConsoleNext /\ Only("console")
  \/ DelayNext /\ Only("delay")
  \/ PortNext /\ Only("port")

partsVars == <<part, atomicVars, memoryVars, keyVars, i2cVars, consoleVars, delayVars, portVars>>

\* With the fairness of the parts.
PartsSpec ==
  /\ PartsInit /\ [][PartsNext]_partsVars
  /\ WF_partsVars(Poll(pressed) /\ Only("key"))
  /\ WF_partsVars(Operation /\ Only("i2c")) /\ WF_partsVars(LateAnswer /\ Only("i2c"))

-----------------------------------------------------------------------------
(* I2C: bytes, and calls of one byte with a register and of two without, to the *)
(* device, with a time to wait or without, and to an address that nobody has    *)

B01 == <<0, 0, 1, 0, 1, 1, 0, 1>>
B10 == <<1, 1, 0, 1, 0, 0, 1, 0>>
A1 == <<1, 0, 1, 1, 0, 0, 0>>
A0 == <<1, 0, 1, 1, 0, 0, 1>>

Writes(addr, wait) ==
  {[op |-> "write", dev_addr |-> addr, reg |-> <<B10>>, data |-> <<B01>>, wait_ack_us |-> wait],
   [op |-> "write", dev_addr |-> addr, reg |-> <<>>, data |-> <<B01, B10>>, wait_ack_us |-> wait]}
Reads(addr, wait) ==
  {[op |-> "read", dev_addr |-> addr, reg |-> <<B10>>, len |-> 1, wait_ack_us |-> wait],
   [op |-> "read", dev_addr |-> addr, reg |-> <<>>, len |-> 2, wait_ack_us |-> wait]}

MCTransfers ==
  UNION {Writes(A1, w) \union Reads(A1, w) : w \in {0, 1}}
    \union Writes(A0, 0) \union Reads(A0, 0)

MCByte == {B01, B10}
MCAddr == A1

(* Console *)

MCBuiltin == <<<<"a">>>>
MCNames == {<<"a">>, <<"b">>, <<"a", "b">>}

=============================================================================
