--------------------------- MODULE MCTracePrinter ---------------------------
EXTENDS TracePrinter, TLC

\* A register of a native width and one of another.
MCRegister == 1 :> 1 @@ 2 :> 3
MCOperation ==
    LET Op(register, operator, value) ==
            [register |-> register, operator |-> operator, value |-> value]
    IN  10 :> Op(2, "add", <<1, 3, 2>>) @@ 11 :> Op(2, "and", <<1, 2, 3>>)
        @@ 12 :> Op(2, "or", <<1, 0, 2>>) @@ 13 :> Op(1, "add", <<3>>)
        @@ 14 :> Op(2, "set", <<3, 2, 3>>)
MCInitialValue == 2 :> <<3, 0, 1>>
MCEffect ==
    {<<"memory", 6, 5>>, <<"memory", 1, 1>>, <<"memory", 3, 0>>,
     <<"register", 1, <<2>>>>, <<"register", 2, <<3, 3, 3>>>>,
     <<"register", 9, <<>>>>}
    \union {<<"register", id, <<>>>> : id \in 10..14}
MCEvent == {<<>>} \union {<<e>> : e \in MCEffect} \union (MCEffect \X MCEffect)

=============================================================================
