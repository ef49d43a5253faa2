------------------------------ MODULE MCKernel ------------------------------
EXTENDS Kernel
CONSTANTS tcpip, receiver, manager, periodic, retransmission, resource

MCProc     == {tcpip, receiver, manager}
MCTimer    == {periodic, retransmission, resource}
MCCallee   == [p \in MCProc |-> IF p = tcpip THEN {receiver} ELSE {}]
MCHome     == [t \in MCTimer |-> IF t = periodic THEN tcpip
                                ELSE IF t = resource THEN manager ELSE receiver]
MCBorrowed == {retransmission}
MCInterval == {1, 2}
=============================================================================
