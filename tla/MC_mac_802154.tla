--------------------------- MODULE MC_mac_802154 ---------------------------
(* mac_802154 for TLC: a PHY that may report a clear or busy channel,     *)
(* success, a collision, a missing ACK or a hardware error, one callback  *)
(* and one argument, frames of length 0, the buffer size, and one byte    *)
(* too long.                                                              *)
EXTENDS mac_802154

MC_PhyTxResults    == {"NETSTK_ERR_NONE", "NETSTK_ERR_TX_COLLISION",
                       "NETSTK_ERR_TX_NOACK", "NETSTK_ERR_FATAL"}
MC_CcaBusyResults  == {"NETSTK_ERR_CHANNEL_ACESS_FAILURE"}
MC_PhyIoctlResults == {"NETSTK_ERR_NONE", "NETSTK_ERR_FATAL"}
MC_DllcRxResults   == {"NETSTK_ERR_NONE", "NETSTK_ERR_FATAL"}
MC_RxLens          == {0, 2, 3}
MC_NoRxLens        == {}
\* A 2.4 GHz O-QPSK PHY: 16 us symbols, 2 symbols per octet, a 160 us SHR
\* and a 192 us turnaround.
MC_PhyAttrs        == [shr |-> 160, turnaround |-> 192, symbolsPerOctet |-> 2,
                       symbolPeriod |-> 16]
=============================================================================
