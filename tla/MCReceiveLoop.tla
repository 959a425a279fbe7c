---------------------------- MODULE MCReceiveLoop ----------------------------
(* The receive loop on small files.                                        *)
EXTENDS ReceiveLoop

Session(lossless, windows, recv_fails, feedback_fails) ==
    [lossless |-> lossless, loss_windows |-> windows,
     recv_fails |-> recv_fails, feedback_fails |-> feedback_fails]

(* A lossless transfer in which anything may fail, one with a loss window, *)
(* and one that asks for nothing again.                                    *)
EverySession ==
    {Session(TRUE, {}, TRUE, TRUE), Session(FALSE, {1, 2}, FALSE, FALSE),
     Session(FALSE, {}, TRUE, TRUE)}

LosslessSession == {Session(TRUE, {}, TRUE, FALSE)}
===============================================================================
