-------------------------- MODULE CommandProtocol --------------------------
(***************************************************************************)
(* The bytes between WorldCommandBuffer.java and a native world            *)
(* (hynergy-protocol/src/world.rs and decoder.rs, World::apply_command and *)
(* hynergy_world_apply_commands): how commands are appended to a buffer    *)
(* that grows and is used again, and how a native world decodes, checks    *)
(* and applies them one after another.                                     *)
(*                                                                         *)
(* Every field of the protocol has an even number of bytes, so a buffer is *)
(* a sequence of units of two bytes, the low one of a number first, and    *)
(* offsets and lengths count units.  A double is four units that nobody    *)
(* looks into.                                                             *)
(***************************************************************************)
EXTENDS Network, SequencesExt

CONSTANTS
    DefinitionOf,      \* the definition of each definition ID
    JavaCommands,      \* the commands that Java sends
    OtherCommands,     \* the commands that another client of the library sends
    InitialCapacity,   \* of the Java buffer
    MaxCapacity,
    MaxCommands        \* in a buffer; bounds the model, not the code

ASSUME DefinitionOfAssumption == DefinitionOf \in Seq(Definitions)
ASSUME IdsAssumption == Wires \subseteq Nat /\ Devices \subseteq Nat

\* What follows the tag and the length of each command.
Layout ==
    [ AddWire |-> <<"id">>,
      RemoveWire |-> <<"id">>,
      ConnectWires |-> <<"id", "id">>,
      DisconnectWires |-> <<"id", "id">>,
      AddDevice |-> <<"id", "id">>,
      RemoveDevice |-> <<"id">>,
      AttachTerminal |-> <<"id", "id", "index">>,
      DetachTerminal |-> <<"id", "id", "index">>,
      SetDeviceParameter |-> <<"id", "index", "double">> ]

Names == <<"AddWire", "RemoveWire", "ConnectWires", "DisconnectWires", "AddDevice",
           "RemoveDevice", "AttachTerminal", "DetachTerminal", "SetDeviceParameter">>

Size(kind) == IF kind = "double" THEN 4 ELSE 2
PayloadLength(name) == FoldSeq(LAMBDA kind, sum : Size(kind) + sum, 0, Layout[name])

Commands == JavaCommands \cup OtherCommands

ASSUME CommandsAssumption ==
    \A command \in Commands :
        /\ command.name \in DOMAIN Layout
        /\ command.fields \in [DOMAIN Layout[command.name] -> Nat]
        /\ command = [name |-> command.name, fields |-> command.fields]

\* requirePositiveId and requireNonZeroId.
ASSUME JavaIdsAssumption ==
    \A command \in JavaCommands : \A i \in DOMAIN command.fields :
        Layout[command.name][i] = "id" => command.fields[i] > 0

MagicLow == 5948    \* "HY" and "WC"
MagicHigh == 4357
Version == 1
HeaderLength == 8
CommandHeaderLength == 3
CountAt == 7

ASSUME CapacityAssumption ==
    /\ InitialCapacity \in Nat /\ MaxCapacity \in Nat /\ MaxCommands \in Nat
    /\ HeaderLength <= InitialCapacity /\ InitialCapacity <= MaxCapacity

VARIABLES
    buffer,      \* the Java buffer: its memory, position and commandCount
    appended,    \* history: the commands appended since the last clear
    network,     \* the native world
    caller,      \* who uses the library
    call         \* the call of hynergy_world_apply_commands

vars == <<buffer, appended, network, caller, call>>

Codes == {"Success", "InvalidMagic", "UnsupportedVersion", "InvalidFlags", "InvalidReserved",
          "TruncatedInput", "UnknownCommand", "InvalidCommandLength", "InvalidId",
          "TrailingBytes", "Rejected", "InternalPanic"}
NoIndex == -1     \* u32::MAX

\* A call is idle, reads the header or a command, or has returned.
Idle == [phase |-> "idle", input |-> << >>, at |-> 0, count |-> 0,
         executed |-> << >>, code |-> "Success", index |-> NoIndex, offset |-> NoIndex]

Unit == Nat

TypeOK ==
    /\ Len(buffer.memory) \in InitialCapacity..MaxCapacity
    /\ Range(buffer.memory) \subseteq Unit
    /\ buffer.position \in HeaderLength..Len(buffer.memory)
    /\ buffer.count \in 0..MaxCommands
    /\ appended \in Seq(Commands)
    /\ caller \in {"java", "other"}
    /\ network.wires \subseteq Wires /\ DOMAIN network.devices \subseteq Devices
    /\ call.phase \in {"idle", "header", "commands", "returned"}
    /\ call.at \in 0..Len(call.input)
    /\ call.code \in Codes
    /\ call.index \in Nat \cup {NoIndex} /\ call.offset \in Nat \cup {NoIndex}

-----------------------------------------------------------------------------
(* Encoding (WorldCommandBuffer).                                          *)

Number(value) == <<value, 0>>
Double(value) == <<0, 0, 0, value>>
Header(count) == <<MagicLow, MagicHigh, Version, 0, 0, 0>> \o Number(count)

Tag(name) == CHOOSE tag \in DOMAIN Names : Names[tag] = name

EncodeField(kind, value) == IF kind = "double" THEN Double(value) ELSE Number(value)
EncodeCommand(command) ==
    LET kinds == Layout[command.name]
        payload == FlattenSeq([i \in DOMAIN kinds |-> EncodeField(kinds[i], command.fields[i])])
    IN  <<Tag(command.name)>> \o Number(2 * PayloadLength(command.name)) \o payload

\* The memory with units written over it from an offset on.
Written(memory, offset, units) ==
    [i \in DOMAIN memory |->
        IF i - offset \in DOMAIN units THEN units[i - offset] ELSE memory[i]]

NewMemory(capacity) == [i \in 1..capacity |-> 0]
InitializeHeader(memory) == Written(memory, 0, Header(0))

\* ensureCapacity: twice as large until it is enough, or exactly enough.
Grown(capacity, required) ==
    LET grow[c \in 1..MaxCapacity] ==
            IF c >= required THEN c
            ELSE IF c > MaxCapacity \div 2 THEN required ELSE grow[2 * c]
    IN  grow[capacity]

ReplaceBackingEmpty(b, capacity) ==   \* mutant
    [b EXCEPT !.memory = NewMemory(capacity)]

\* replaceBacking copies what is before the position.
ReplaceBacking(b, capacity) ==
    [b EXCEPT !.memory = Written(NewMemory(capacity), 0, SubSeq(b.memory, 1, b.position))]

EnsureCapacity(b, additional) ==
    IF b.position + additional <= Len(b.memory) THEN b
    ELSE ReplaceBacking(b, Grown(Len(b.memory), b.position + additional))

AppendCommand(command) ==
    LET units == EncodeCommand(command)
        grown == EnsureCapacity(buffer, Len(units))
    IN
    /\ caller = "java" /\ call.phase = "idle"
    /\ Len(appended) < MaxCommands
    /\ buffer.position + Len(units) <= MaxCapacity   \* else an exception
    /\ buffer' = [grown EXCEPT !.memory = Written(@, buffer.position, units),
                               !.position = @ + Len(units),
                               !.count = @ + 1]
    /\ appended' = Append(appended, command)
    /\ UNCHANGED <<network, call>>

ClearPosition(b) == [b EXCEPT !.position = HeaderLength]   \* mutant

\* What the memory holds from the last batch stays there.
Clear(b) == [b EXCEPT !.position = HeaderLength, !.count = 0]

-----------------------------------------------------------------------------
(* Decoding (Decoder and decode_world_command).                            *)

Remaining(input, at) == Len(input) - at
ReadUnit(input, at) == input[at + 1]
\* A number of two units; only small ones are looked at.
ReadNumber(input, at) ==
    IF input[at + 2] = 0 THEN input[at + 1] ELSE MaxCapacity + input[at + 1]
ReadDouble(input, at) == input[at + 4]

Failed(code, index, offset) ==
    call' = [call EXCEPT !.phase = "returned", !.code = code, !.index = index, !.offset = offset]

\* The checks of the header in order, each with what must have been read.
HeaderChecks ==
    << [code |-> "InvalidMagic", at |-> 0, length |-> 2, expected |-> <<MagicLow, MagicHigh>>],
       [code |-> "UnsupportedVersion", at |-> 2, length |-> 1, expected |-> <<Version>>],
       [code |-> "InvalidFlags", at |-> 3, length |-> 1, expected |-> <<0>>],
       [code |-> "InvalidReserved", at |-> 4, length |-> 2, expected |-> <<0, 0>>] >>

HeaderCheckFails(check) ==
    \/ Len(call.input) < check.at + check.length
    \/ SubSeq(call.input, check.at + 1, check.at + check.length) # check.expected

ReadHeader ==
    LET input == call.input
        failing == {i \in DOMAIN HeaderChecks : HeaderCheckFails(HeaderChecks[i])}
        first == HeaderChecks[CHOOSE i \in failing : \A j \in failing : i <= j]
    IN
    /\ call.phase = "header"
    /\ \/ /\ failing # {}
          /\ IF Len(input) < first.at + first.length
             THEN Failed("TruncatedInput", NoIndex, Len(input))
             ELSE Failed(first.code, NoIndex, first.at)
       \/ /\ failing = {}
          /\ IF Len(input) < HeaderLength
             THEN Failed("TruncatedInput", NoIndex, Len(input))
             ELSE call' = [call EXCEPT !.phase = "commands", !.at = HeaderLength,
                                       !.count = ReadNumber(input, HeaderLength - 2)]
    /\ UNCHANGED <<buffer, appended, network>>

\* Where the fields of a payload begin.
FieldAt(name, i) ==
    FoldSeq(LAMBDA kind, sum : Size(kind) + sum, 0, SubSeq(Layout[name], 1, i - 1))

DecodeReversed(name, at) ==   \* mutant
    LET kinds == Layout[name] IN
    [name |-> name,
     fields |-> [i \in DOMAIN kinds |->
        IF Len(kinds) = 2 THEN ReadNumber(call.input, at + FieldAt(name, 3 - i))
        ELSE IF kinds[i] = "double" THEN ReadDouble(call.input, at + FieldAt(name, i))
        ELSE ReadNumber(call.input, at + FieldAt(name, i))]]

Decode(name, at) ==
    LET kinds == Layout[name] IN
    [name |-> name,
     fields |-> [i \in DOMAIN kinds |->
        IF kinds[i] = "double" THEN ReadDouble(call.input, at + FieldAt(name, i))
        ELSE ReadNumber(call.input, at + FieldAt(name, i))]]

\* The first ID of a payload that is zero, if any (decode_non_zero_id).
ZeroIds(name, at) ==
    {i \in DOMAIN Layout[name] :
        Layout[name][i] = "id" /\ ReadNumber(call.input, at + FieldAt(name, i)) = 0}

-----------------------------------------------------------------------------
(* World::apply_command.                                                   *)

Terminal(command) == <<command.fields[2], command.fields[3] + 1>>
HasParameter(command) == command.fields[2] = 0   \* every definition has one

Accepts(command) ==
    LET f == command.fields IN
    CASE command.name = "AddWire" -> f[1] \in Wires /\ CanAddWire(network, f[1])
      [] command.name = "RemoveWire" -> CanRemoveWire(network, f[1])
      [] command.name = "ConnectWires" -> CanConnectWires(network, f[1], f[2])
      [] command.name = "DisconnectWires" -> CanDisconnectWires(network, f[1], f[2])
      [] command.name = "AddDevice" ->
            f[1] \in Devices /\ CanAddDevice(network, f[1]) /\ f[2] \in DOMAIN DefinitionOf
      [] command.name = "RemoveDevice" -> CanRemoveDevice(network, f[1])
      [] command.name = "AttachTerminal" -> CanAttachTerminal(network, f[1], Terminal(command))
      [] command.name = "DetachTerminal" -> CanDetachTerminal(network, f[1], Terminal(command))
      [] command.name = "SetDeviceParameter" ->
            f[1] \in DOMAIN network.devices /\ HasParameter(command)

After(command) ==
    LET f == command.fields IN
    CASE command.name = "AddWire" -> AfterAddWire(network, f[1])
      [] command.name = "RemoveWire" -> AfterRemoveWire(network, f[1])
      [] command.name = "ConnectWires" -> AfterConnectWires(network, f[1], f[2])
      [] command.name = "DisconnectWires" -> AfterDisconnectWires(network, f[1], f[2])
      [] command.name = "AddDevice" -> AfterAddDevice(network, f[1], DefinitionOf[f[2]])
      [] command.name = "RemoveDevice" -> AfterRemoveDevice(network, f[1])
      [] command.name = "AttachTerminal" ->
            AfterAttachTerminal(network, f[1], Terminal(command))
      [] command.name = "DetachTerminal" -> AfterDetachTerminal(network, Terminal(command))
      [] command.name = "SetDeviceParameter" -> network

\* The derived topology prepares a removal before the model looks whether the
\* device exists: "removed device must still be resident during preparation".
Panics(command) == command.name = "RemoveDevice" /\ ~Accepts(command)

-----------------------------------------------------------------------------
(* apply_world_command_buffer_inner, one command at a step.                *)

Index == Len(call.executed)

RejectedAfterPayload(command, start, end) ==   \* mutant
    Failed("Rejected", Index, end)

Rejected(command, start, end) == Failed("Rejected", Index, start)

Execute(command, start, end) ==
    \/ /\ Accepts(command)
       /\ network' = After(command)
       /\ call' = [call EXCEPT !.at = end, !.executed = Append(@, command)]
    \/ /\ ~Accepts(command) /\ ~Panics(command)
       /\ Rejected(command, start, end)
       /\ UNCHANGED network
    \/ /\ Panics(command)
       /\ Failed("InternalPanic", NoIndex, NoIndex)
       /\ UNCHANGED network

ReadCommand ==
    LET start == call.at
        payload == start + CommandHeaderLength
        truncated == Remaining(call.input, start) < CommandHeaderLength
        tag == ReadUnit(call.input, start)
        name == Names[tag]
        length == ReadNumber(call.input, start + 1)
    IN
    /\ call.phase = "commands"
    /\ Index < call.count
    /\ \/ /\ truncated
          /\ Failed("TruncatedInput", Index, Len(call.input))
          /\ UNCHANGED network
       \/ /\ ~truncated /\ tag \notin DOMAIN Names
          /\ Failed("UnknownCommand", Index, start)
          /\ UNCHANGED network
       \/ /\ ~truncated /\ tag \in DOMAIN Names /\ length # 2 * PayloadLength(name)
          /\ Failed("InvalidCommandLength", Index, start)
          /\ UNCHANGED network
       \/ /\ ~truncated /\ tag \in DOMAIN Names /\ length = 2 * PayloadLength(name)
          /\ LET end == payload + PayloadLength(name)
                 zero == ZeroIds(name, payload)
             IN
             \/ /\ end > Len(call.input)
                /\ Failed("TruncatedInput", Index, Len(call.input))
                /\ UNCHANGED network
             \/ /\ end <= Len(call.input) /\ zero # {}
                /\ LET first == CHOOSE i \in zero : \A j \in zero : i <= j
                   IN  Failed("InvalidId", Index, payload + FieldAt(name, first))
                /\ UNCHANGED network
             \/ /\ end <= Len(call.input) /\ zero = {}
                /\ Execute(Decode(name, payload), start, end)
    /\ UNCHANGED <<buffer, appended>>

EndOfCommands ==
    /\ call.phase = "commands"
    /\ Index = call.count
    /\ IF call.at = Len(call.input)
       THEN call' = [call EXCEPT !.phase = "returned"]
       ELSE Failed("TrailingBytes", Index, call.at)
    /\ UNCHANGED <<buffer, appended, network>>

-----------------------------------------------------------------------------
(* The callers.                                                            *)

Begin(input) == call' = [Idle EXCEPT !.phase = "header", !.input = input]

\* ElectricalWorld.applyCommands: encodedSegment writes the count.
ApplyJavaBuffer ==
    LET encoded == [buffer EXCEPT !.memory = Written(@, CountAt - 1, Number(buffer.count))] IN
    /\ caller = "java" /\ call.phase = "idle"
    /\ buffer.count > 0
    /\ buffer' = encoded
    /\ Begin(SubSeq(encoded.memory, 1, encoded.position))
    /\ UNCHANGED <<appended, network>>

\* Another encoder, which may be wrong in one place.
Encoded(commands) ==
    Header(Len(commands)) \o FlattenSeq([i \in DOMAIN commands |-> EncodeCommand(commands[i])])

Edits(input) ==
    {input, input \o <<0>>}
    \cup {SubSeq(input, 1, n) : n \in 0..(Len(input) - 1)}
    \cup {[input EXCEPT ![i] = unit] : i \in DOMAIN input, unit \in {0, 10}}

ApplyOtherBuffer(commands) ==
    /\ caller = "other" /\ call.phase = "idle"
    /\ \E input \in Edits(Encoded(commands)) : Begin(input)
    /\ UNCHANGED <<buffer, appended, network>>

\* Whatever the outcome, Java clears its buffer.
Return ==
    /\ call.phase = "returned"
    /\ call' = Idle
    /\ IF caller = "java"
       THEN buffer' = Clear(buffer) /\ appended' = << >>
       ELSE UNCHANGED <<buffer, appended>>
    /\ UNCHANGED network

-----------------------------------------------------------------------------

Init ==
    /\ buffer = [memory |-> InitializeHeader(NewMemory(InitialCapacity)),
                 position |-> HeaderLength, count |-> 0]
    /\ appended = << >>
    /\ network = EmptyNetwork
    /\ caller \in {"java", "other"}
    /\ call = Idle

Step == ReadHeader \/ ReadCommand \/ EndOfCommands \/ Return

Next ==
    \/ \E command \in JavaCommands : AppendCommand(command)
    \/ ApplyJavaBuffer
    \/ \E n \in 0..MaxCommands : \E commands \in [1..n -> OtherCommands] : ApplyOtherBuffer(commands)
    \/ Step

Spec == Init /\ [][Next /\ UNCHANGED caller]_vars

-----------------------------------------------------------------------------
(* Properties.                                                             *)

Returned == call.phase = "returned"
Extent(command) == CommandHeaderLength + PayloadLength(command.name)

\* The native world executes the commands that were appended since the last
\* clear, in their order and with their fields, whatever an earlier batch
\* left in the memory and however often it was replaced.
JavaCommandsArrive ==
    caller = "java" =>
        /\ IsPrefix(call.executed, appended)
        /\ Returned /\ call.code = "Success" => call.executed = appended

\* A buffer of Java is never rejected for its form: a command may be
\* rejected by the world, or panic.
JavaBuffersAreWellFormed ==
    caller = "java" => call.code \in {"Success", "Rejected", "InternalPanic"}

\* An error says where it was found: the index counts the commands that stay
\* applied, and the offset lies in the command that failed, at its end, or,
\* without an index, in the header.
ErrorsAreLocated ==
    LET start == HeaderLength + FoldSeq(LAMBDA c, sum : Extent(c) + sum, 0, call.executed) IN
    Returned /\ call.code \notin {"Success", "InternalPanic"} =>
        IF call.index = NoIndex
        THEN call.executed = << >> /\ call.offset < HeaderLength
        ELSE /\ call.index = Len(call.executed)
             /\ call.offset \in start..Len(call.input)
             /\ call.code \in {"Rejected", "UnknownCommand", "InvalidCommandLength", "TrailingBytes"}
                    => call.offset = start

\* "On failure, command_index identifies the failing command": once the header
\* was read, a call that fails names a command (hynergy_world_apply_commands).
FailuresNameTheCommand ==
    Returned /\ call.code # "Success" /\ call.at >= HeaderLength => call.index # NoIndex

\* What Java appended since it cleared the buffer is what the native world
\* executes, in order, and no buffer of Java is refused for its form.
JavaBuffersArrive ==
    /\ TypeOK
    /\ JavaCommandsArrive
    /\ JavaBuffersAreWellFormed
=============================================================================
