----------------------------- MODULE MCJoinFee -----------------------------
\* JoinFee with two wallets; the first transfer is paid by w1, any other by w2.  A
\* wallet posts any transfer, or only what it paid itself.
EXTENDS JoinFee

CONSTANTS w1, w2, t1, t2
MCPayer == [g \in Transfers |-> IF g = t1 THEN w1 ELSE w2]
AnyTransfer == Wallets \X Transfers
OwnTransfer == {wg \in Wallets \X Transfers : Payer[wg[2]] = wg[1]}
=============================================================================
