---------------------------- MODULE MCDmaProgress ----------------------------
\* Two channels that one source requests, with blocks of one transfer.
EXTENDS DmaProgress, TLC

Accepted == {TRUE}
AtOnce == {0}
Two == {0, 1}
SharedSource == 0 :> 0 @@ 1 :> 0
OneTransferOf(one_shot) == [one_shot |-> one_shot, ping_pong |-> FALSE,
                            half |-> FALSE, count |-> 0]
SingleTransfers == 0 :> OneTransferOf(FALSE) @@ 1 :> OneTransferOf(TRUE)
=============================================================================
