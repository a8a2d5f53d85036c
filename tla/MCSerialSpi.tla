----------------------------- MODULE MCSerialSpi -----------------------------
(* Calls of one message of any shape up to three packets long, and of two   *)
(* messages: a command, then data in or out.                               *)
EXTENDS SerialSpi
CONSTANTS TxMax, RxSizes

Messages == {g \in [tx : 0 .. TxMax, skip : 0 .. Half - 1, rx : RxSizes, deselect : BOOLEAN] :
                g.rx = 0 \/ g.skip >= g.tx}
Commands == {g \in Messages : g.tx <= 5 /\ g.rx <= 1 /\ g.skip <= 1}
Data     == {g \in Messages : g.skip = 0 /\ (g.tx = 0 \/ g.rx = 0)}

MCTransfers == {<<g>> : g \in Messages} \cup {<<g, h>> : g \in Commands, h \in Data}
=============================================================================
