------------------------ MODULE MCMachineDescription ------------------------
(* Bytes of two bits, addresses of one or two bytes, two operators.         *)
EXTENDS MachineDescription, TLC

MCArchi == {"x64_1", "mips"}
MCRegisters ==
    LET Register(size, name) == [size |-> size, name |-> name]
    IN  {<<>>, 0 :> Register(1, "a"), 0 :> Register(1, "a") @@ 2 :> Register(2, "b"),
         2 :> Register(1, "a") @@ 4 :> Register(1, "a"), 1 :> Register(1, "long")}
MCOperation == [register_id : {0, 2}, operation : {1, 2, 4}, size : {1, 2}]
MCOperations ==
    {<<>>} \union {id :> op : id \in {1, 2, 3}, op \in MCOperation}
    \union {0 :> op @@ 1 :> [register_id |-> 0, operation |-> 0, size |-> 1] : op \in MCOperation}
MCRegions == {<<>>, <<[start |-> 3, size |-> 5]>>,
              <<[start |-> 1, size |-> 1], [start |-> 2, size |-> 2]>>}
MCStatics == {<<>>, "s" :> 3, "s" :> 4, "long" :> 0}

MCDescription ==
    [architecture : {"x64_1"}, physical_address_size : {2}, memory_regions : {<<>>},
     registers : MCRegisters, register_operations : MCOperations, static_registers : {<<>>}]
    \union
    [architecture : MCArchi, physical_address_size : 0..3, memory_regions : MCRegions,
     registers : {0 :> [size |-> 1, name |-> "a"]}, register_operations : {<<>>},
     static_registers : MCStatics]

\* Registers, operations and static registers that a writer would not write
\* twice, or not at all.
MCHead == <<<<"architecture", 0, "arm64_1">>, <<"size", 0, 1>>>>
MCElement ==
    {<<"register", id, [size |-> 1, name |-> name]>> : id \in {0, 1}, name \in {"a", "b"}}
MCLastElement ==
    {<<"operation", id, [register_id |-> r, operation |-> o, size |-> 1]>> :
        id \in {0, 2, 3}, r \in {0, 1}, o \in {1, 2}}
MCForeignSection ==
    {MCHead \o <<a, b, c, d>> : a, b \in MCElement, c, d \in MCLastElement}
    \union {MCHead \o <<<<"static", n, 1>>, <<"static", "s", 2>>>> : n \in {"s", "t"}}
    \union {<<MCHead[1], <<"size", 0, n>>>> : n \in {0, 3}}
    \union {<<<<"architecture", 0, "magic 0">>, <<"size", 0, 1>>>>}

=============================================================================
