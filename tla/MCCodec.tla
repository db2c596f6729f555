------------------------------ MODULE MCCodec ------------------------------
(* Codec with the firmware's packets and with packets of the other types,  *)
(* the least and the greatest values, and arrays that are too small.       *)
EXTENDS Codec

OtherPackets ==
    (0 :> <<"UTF8_STRING", "BOOLEAN">>)
    @@ (1 :> <<"DOUBLE", "UINT16">>)
    @@ (2 :> <<"INT8", "INT16", "DOUBLE">>)
    @@ (3 :> <<"INT32", "INT64", "BOOLEAN">>)
    @@ (4 :> <<"UINT64", "UINT16", "INT8">>)

MCTables == {NetworkPackets, OtherPackets}

All(width) == 0 .. width - 1
UInts(width) == {{}, {0, 2}, All(width)}
Ints(width) == {{}, {0, 2}, {width - 1}, All(width), All(width - 1)}

MCSamples ==
    [t \in Type |->
        CASE t \in Unsigned -> UInts(Width[t])
          [] t \in Signed -> Ints(Width[t])
          [] t = "DOUBLE" ->
                {[neg |-> FALSE, frac |-> {}, exp |-> {}],
                 [neg |-> TRUE, frac |-> {0, 1}, exp |-> All(16)],
                 [neg |-> FALSE, frac |-> All(53),
                  exp |-> Binary(65536 - 1073, 16)]}
          [] t = "BOOLEAN" -> BOOLEAN
          [] t = "UTF8_STRING" ->
                {<<>>, <<{}>>, <<{0, 5, 6}, All(8)>>, [k \in 1 .. 10 |-> {6}]}]
=============================================================================
