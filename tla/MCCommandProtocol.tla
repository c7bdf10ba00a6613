------------------------- MODULE MCCommandProtocol -------------------------
(* Small worlds and buffers for TLC.                                       *)
EXTENDS CommandProtocol

Conducting == [partitionCount |-> 1, terminalPartitions |-> <<1, 1>>]
OneDefinition == {Conducting}
DefinitionIds == <<Conducting, Conducting>>

Command(name, fields) == [name |-> name, fields |-> fields]

\* Commands of three lengths, one of which names its IDs in an order that
\* matters.
ThreeCommands ==
    { Command("AddDevice", <<2, 1>>), Command("SetDeviceParameter", <<2, 0, 7>>),
      Command("RemoveDevice", <<2>>) }

\* Every command, on two wires and a device.
AllCommands ==
    { Command("AddWire", <<1>>), Command("AddWire", <<2>>), Command("RemoveWire", <<1>>),
      Command("ConnectWires", <<1, 2>>), Command("DisconnectWires", <<1, 2>>),
      Command("AddDevice", <<1, 1>>), Command("RemoveDevice", <<1>>),
      Command("AttachTerminal", <<1, 1, 1>>), Command("DetachTerminal", <<1, 1, 1>>),
      Command("SetDeviceParameter", <<1, 0, 7>>) }
=============================================================================
