CONSTANTS
  NETSTK_CFG_CSMA_MIN_BE = 1
  NETSTK_CFG_CSMA_MAX_BE = 2
  NETSTK_CFG_CSMA_MAX_BACKOFF = 3
  PACKETBUF_SIZE = 2
  PhyTxResults <- MC_PhyTxResults
  CcaBusyResults <- MC_CcaBusyResults
  PhyIoctlResults <- MC_PhyIoctlResults
  DllcRxResults <- MC_DllcRxResults
  CbFncts = {cbA}
  CbArgs = {argA}
  RxLens <- MC_RxLens
  MaxSends = 1
  PhyAttrs <- MC_PhyAttrs
  NETSTK_CFG_MR_FSK_PHY_EN = FALSE
  NULL = NULL
SPECIFICATION Spec
INVARIANT TypeOK CsmaDiscipline
PROPERTY ImplementsMacTx
