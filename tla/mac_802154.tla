----------------------------- MODULE mac_802154 -----------------------------
(***************************************************************************)
(* The IEEE 802.15.4 MAC driver of emb6 (src/emb6/src/dll/mac/mac_802154.c) *)
(* as seen from the layers around it.  mac_send is split at the points     *)
(* where it waits on the radio (the random backoff, the clear-channel      *)
(* assessment, the physical transmit) so that a frame reception, which the *)
(* radio delivers asynchronously, can fall between any two of them.  The   *)
(* PHY, the frame parser and the DLLC are environment choices: every       *)
(* result they may report is a nondeterministic input.                     *)
(***************************************************************************)
EXTENDS Naturals, Sequences

CONSTANTS
  NETSTK_CFG_CSMA_MIN_BE,      \* initial backoff exponent
  NETSTK_CFG_CSMA_MAX_BE,      \* cap of the backoff exponent
  NETSTK_CFG_CSMA_MAX_BACKOFF, \* CCAs allowed are MAX_BACKOFF + 1
  PACKETBUF_SIZE,              \* capacity of the packet buffer
  PhyTxResults,     \* codes phy->send may report
  CcaBusyResults,   \* codes the PHY's CCA ioctl reports for a busy channel
  PhyIoctlResults,  \* codes any other PHY ioctl may report
  DllcRxResults,    \* codes dllc->recv may report
  CbFncts,          \* transmit-completion callbacks an upper layer may register
  CbArgs,           \* opaque arguments it may register
  RxLens,           \* lengths of received frames tried
  MaxSends,         \* bound on mac_send calls explored
  PhyAttrs,         \* the PHY's attributes in the packetbuf store:
                    \* [shr, turnaround, symbolsPerOctet, symbolPeriod]
  NETSTK_CFG_MR_FSK_PHY_EN,
  NULL

ERR_NONE             == "NETSTK_ERR_NONE"
ERR_INVALID_ARGUMENT == "NETSTK_ERR_INVALID_ARGUMENT"
ERR_INVALID_FRAME    == "NETSTK_ERR_INVALID_FRAME"
ERR_TX_COLLISION     == "NETSTK_ERR_TX_COLLISION"

\* What frame802154_parse makes of a frame: a zero header length, or the
\* frame type of the frame control field.
ParseResults == {"HDR_INVALID", "DATAFRAME", "CMDFRAME", "ACKFRAME", "OTHER"}

\* mac_send's numRetriesMax (mac_802154.c:250).
numRetriesMax == 4

ASSUME NETSTK_CFG_CSMA_MIN_BE <= NETSTK_CFG_CSMA_MAX_BE

\* The MAC PIB attributes mac_init computes from the PHY's (IEEE Std.
\* 802.15.4(g)): macUnitBackoffPeriod is 20 symbols, macAckWaitDuration
\* adds the turnaround, the SHR and 9 (MR-FSK) or 6 octets of symbols.
MacPib(a) ==
  LET macUnitBackoffPeriod == 20 * a.symbolPeriod
      octets == IF NETSTK_CFG_MR_FSK_PHY_EN THEN 9 ELSE 6
  IN [unitBackoff |-> macUnitBackoffPeriod,
      ackWait |-> macUnitBackoffPeriod + a.turnaround + a.shr
                  + octets * a.symbolsPerOctet * a.symbolPeriod]

VARIABLES
  pmac_netstk,   \* TRUE once mac_init bound the netstack
  mac_cbTxFnct,  \* registered completion callback, NULL if none
  pmac_cbTxArg,  \* registered callback argument
  ioErr,         \* *p_err of the last mac_ioctl / mac_on / mac_off / mac_init
  pib,           \* PACKETBUF_ATTR_MAC_UNIT_BACKOFF_PERIOD and _ACK_WAIT_DURATION
  \* mac_send's frame; "idle" when no call is active
  pc, p_err, isTxDone, numTxRetries, isAckReq,
  \* mac_csma's locals
  nb, be, delay,
  \* the last mac_recv call: its inputs, its result, whether DLLC got it
  rxLast,
  \* history: calls made, outcome of the last finished attempt, result
  \* returned by the last finished call, last callback invocation
  sends, attemptErr, txReported, cbLast

macVars  == <<pmac_netstk, mac_cbTxFnct, pmac_cbTxArg, ioErr, pib>>
sendVars == <<pc, p_err, isTxDone, numTxRetries, isAckReq, nb, be, delay>>
histVars == <<sends, attemptErr, txReported, cbLast>>
vars     == <<macVars, sendVars, rxLast, histVars>>

Init ==
  /\ pmac_netstk = FALSE
  /\ mac_cbTxFnct = NULL
  /\ pmac_cbTxArg = NULL
  /\ ioErr = ERR_NONE
  /\ pib = [unitBackoff |-> 0, ackWait |-> 0]
  /\ pc = "idle"
  /\ p_err = ERR_NONE
  /\ isTxDone = FALSE
  /\ numTxRetries = 0
  /\ isAckReq = FALSE
  /\ nb = 0
  /\ be = NETSTK_CFG_CSMA_MIN_BE
  /\ delay = 0
  /\ rxLast = NULL
  /\ sends = 0
  /\ attemptErr = NULL
  /\ txReported = NULL
  /\ cbLast = NULL

-----------------------------------------------------------------------------
(* Configuration calls.  The stack calls them from the same event context  *)
(* that runs mac_send, so never while a send is in progress.               *)

\* mac_init: with a netstack, bind it, forget any registered callback and
\* publish the PIB attributes computed from the PHY's.
mac_init(netstkGiven) ==
  /\ pc = "idle"
  /\ IF netstkGiven
       THEN /\ pmac_netstk' = TRUE
            /\ mac_cbTxFnct' = NULL
            /\ pmac_cbTxArg' = NULL
            /\ pib' = MacPib(PhyAttrs)
            /\ ioErr' = ERR_NONE
       ELSE /\ ioErr' = ERR_INVALID_ARGUMENT
            /\ UNCHANGED <<pmac_netstk, mac_cbTxFnct, pmac_cbTxArg, pib>>
  /\ UNCHANGED <<sendVars, rxLast, histVars>>

\* mac_on / mac_off: pass-through to the PHY, which reports r.
mac_on(r) ==
  /\ pmac_netstk /\ pc = "idle"
  /\ ioErr' = r
  /\ UNCHANGED <<pmac_netstk, mac_cbTxFnct, pmac_cbTxArg, pib, sendVars, rxLast, histVars>>

mac_off(r) ==
  /\ pmac_netstk /\ pc = "idle"
  /\ ioErr' = r
  /\ UNCHANGED <<pmac_netstk, mac_cbTxFnct, pmac_cbTxArg, pib, sendVars, rxLast, histVars>>

\* mac_ioctl: the two callback commands, everything else to the PHY.
mac_ioctl_cbfnct(v) ==
  /\ pmac_netstk /\ pc = "idle"
  /\ IF v = NULL
       THEN ioErr' = ERR_INVALID_ARGUMENT /\ UNCHANGED mac_cbTxFnct
       ELSE ioErr' = ERR_NONE /\ mac_cbTxFnct' = v
  /\ UNCHANGED <<pmac_netstk, pmac_cbTxArg, pib, sendVars, rxLast, histVars>>

mac_ioctl_cbarg(v) ==
  /\ pmac_netstk /\ pc = "idle"
  /\ pmac_cbTxArg' = v
  /\ ioErr' = ERR_NONE
  /\ UNCHANGED <<pmac_netstk, mac_cbTxFnct, pib, sendVars, rxLast, histVars>>

mac_ioctl_default(r) ==
  /\ pmac_netstk /\ pc = "idle"
  /\ ioErr' = r
  /\ UNCHANGED <<pmac_netstk, mac_cbTxFnct, pmac_cbTxArg, pib, sendVars, rxLast, histVars>>

-----------------------------------------------------------------------------
(* mac_send and mac_csma.                                                  *)

\* The top of mac_csma (mac_802154.c:398-401): a fresh channel access.
CsmaStart ==
  /\ nb' = 0
  /\ be' = NETSTK_CFG_CSMA_MIN_BE
  /\ p_err' = ERR_NONE
  /\ pc' = "backoff"

\* Bug variant: only a collision is retried, whatever isAckReq says.
EndAttempt_noAckRetry(e, nbOut, beOut) ==
  LET retry == e = ERR_TX_COLLISION
      retries == IF retry THEN numTxRetries + 1 ELSE numTxRetries
  IN /\ numTxRetries' = retries
     /\ isTxDone' = ~retry
     /\ attemptErr' = e
     /\ IF retry /\ retries < numRetriesMax
          THEN CsmaStart
          ELSE pc' = "done" /\ p_err' = e /\ nb' = nbOut /\ be' = beOut

\* mac_send after an attempt ended in e (lines 264-273), then the loop test
\* of line 256: another channel access, or leave the loop with *p_err = e.
\* nbOut/beOut are mac_csma's locals as the attempt left them.
EndAttempt(e, nbOut, beOut) ==
  LET retry == e = ERR_TX_COLLISION \/ (isAckReq /\ e # ERR_NONE)
      retries == IF retry THEN numTxRetries + 1 ELSE numTxRetries
  IN /\ numTxRetries' = retries
     /\ isTxDone' = ~retry
     /\ attemptErr' = e
     /\ IF retry /\ retries < numRetriesMax
          THEN CsmaStart
          ELSE /\ pc' = "done"
               /\ p_err' = e
               /\ nb' = nbOut
               /\ be' = beOut

\* mac_send entry (lines 229-251) up to the first channel access.
mac_send(lenZero, ack) ==
  /\ pmac_netstk /\ pc = "idle"
  /\ sends < MaxSends
  /\ sends' = sends + 1
  /\ IF lenZero
       THEN /\ p_err' = ERR_INVALID_ARGUMENT
            /\ UNCHANGED <<pc, isTxDone, numTxRetries, isAckReq, nb, be, attemptErr>>
       ELSE /\ isTxDone' = FALSE
            /\ numTxRetries' = 0
            /\ isAckReq' = ack
            /\ attemptErr' = NULL
            /\ CsmaStart
  /\ UNCHANGED <<macVars, delay, rxLast, txReported, cbLast>>

\* mac_csma lines 406-408: wait a random number of unit backoff periods.
mac_csma_backoff(d) ==
  /\ pc = "backoff"
  /\ d \in 0 .. (2^be - 1)
  /\ delay' = d
  /\ pc' = "cca"
  /\ UNCHANGED <<macVars, p_err, isTxDone, numTxRetries, isAckReq, nb, be,
                 rxLast, histVars>>

\* Bug variant: the loop test reads nb before the increment.
mac_csma_cca_nbLate(r) ==
  LET nb1 == (nb + 1) % 256
      be1 == IF be + 1 < NETSTK_CFG_CSMA_MAX_BE THEN be + 1
                                                ELSE NETSTK_CFG_CSMA_MAX_BE
  IN /\ pc = "cca"
     /\ IF r = ERR_NONE
          THEN /\ pc' = "tx" /\ p_err' = r
               /\ UNCHANGED <<isTxDone, numTxRetries, nb, be, attemptErr>>
          ELSE IF nb <= NETSTK_CFG_CSMA_MAX_BACKOFF
          THEN /\ pc' = "backoff" /\ p_err' = r /\ nb' = nb1 /\ be' = be1
               /\ UNCHANGED <<isTxDone, numTxRetries, attemptErr>>
          ELSE EndAttempt(r, nb1, be1)
     /\ UNCHANGED <<macVars, isAckReq, delay, rxLast, sends, txReported, cbLast>>

\* Bug variant: the backoff exponent is raised without the MaxBE cap.
mac_csma_cca_noCap(r) ==
  LET nb1 == (nb + 1) % 256
  IN /\ pc = "cca"
     /\ IF r = ERR_NONE
          THEN /\ pc' = "tx" /\ p_err' = r
               /\ UNCHANGED <<isTxDone, numTxRetries, nb, be, attemptErr>>
          ELSE IF nb1 <= NETSTK_CFG_CSMA_MAX_BACKOFF
          THEN /\ pc' = "backoff" /\ p_err' = r /\ nb' = nb1 /\ be' = be + 1
               /\ UNCHANGED <<isTxDone, numTxRetries, attemptErr>>
          ELSE EndAttempt(r, nb1, be + 1)
     /\ UNCHANGED <<macVars, isAckReq, delay, rxLast, sends, txReported, cbLast>>

\* mac_csma lines 411-423: one CCA.  A clear channel leaves the loop and
\* mac_send transmits (lines 259-261); a busy one backs off again or, with
\* nb past MAX_BACKOFF, ends the attempt without transmitting.
mac_csma_cca(r) ==
  LET nb1 == (nb + 1) % 256
      be1 == IF be + 1 < NETSTK_CFG_CSMA_MAX_BE THEN be + 1
                                                ELSE NETSTK_CFG_CSMA_MAX_BE
  IN /\ pc = "cca"
     /\ IF r = ERR_NONE
          THEN /\ pc' = "tx" /\ p_err' = r
               /\ UNCHANGED <<isTxDone, numTxRetries, nb, be, attemptErr>>
          ELSE IF nb1 <= NETSTK_CFG_CSMA_MAX_BACKOFF
          THEN /\ pc' = "backoff" /\ p_err' = r /\ nb' = nb1 /\ be' = be1
               /\ UNCHANGED <<isTxDone, numTxRetries, attemptErr>>
          ELSE EndAttempt(r, nb1, be1)
     /\ UNCHANGED <<macVars, isAckReq, delay, rxLast, sends, txReported, cbLast>>

\* mac_send line 261: the PHY transmits and reports r.
mac_phy_send(r) ==
  /\ pc = "tx"
  /\ EndAttempt(r, nb, be)
  /\ UNCHANGED <<macVars, isAckReq, delay, rxLast, sends, txReported, cbLast>>

\* mac_send lines 274-280: report the result to a registered callback.
mac_send_done ==
  /\ pc = "done"
  /\ pc' = "idle"
  /\ txReported' = p_err
  /\ cbLast' = IF mac_cbTxFnct # NULL
                 THEN [fn |-> mac_cbTxFnct, arg |-> pmac_cbTxArg, err |-> p_err]
                 ELSE cbLast
  /\ UNCHANGED <<macVars, p_err, isTxDone, numTxRetries, isAckReq, nb, be, delay,
                 rxLast, sends, attemptErr>>

-----------------------------------------------------------------------------
(* mac_recv (lines 291-345), called by the radio at any time.  len 0      *)
(* stands for both argument errors of line 298.                           *)

RecvErr(len, t, dllcErr) ==
  CASE len = 0                       -> ERR_INVALID_ARGUMENT
    [] len > PACKETBUF_SIZE          -> ERR_INVALID_FRAME
    [] t = "HDR_INVALID"             -> ERR_INVALID_FRAME
    [] t \in {"DATAFRAME", "CMDFRAME"} -> dllcErr
    [] t = "ACKFRAME"                -> ERR_NONE
    [] OTHER                         -> ERR_INVALID_FRAME

mac_recv(len, t, dllcErr) ==
  /\ pmac_netstk
  /\ rxLast' = [len  |-> len,
                type |-> IF len = 0 \/ len > PACKETBUF_SIZE THEN "UNPARSED" ELSE t,
                err  |-> RecvErr(len, t, dllcErr),
                dllc |-> len \in 1 .. PACKETBUF_SIZE /\ t \in {"DATAFRAME", "CMDFRAME"}]
  /\ UNCHANGED <<macVars, sendVars, histVars>>

-----------------------------------------------------------------------------

Next ==
  \/ \E g \in BOOLEAN : mac_init(g)
  \/ \E r \in PhyIoctlResults : mac_on(r) \/ mac_off(r) \/ mac_ioctl_default(r)
  \/ \E v \in CbFncts \cup {NULL} : mac_ioctl_cbfnct(v)
  \/ \E v \in CbArgs \cup {NULL} : mac_ioctl_cbarg(v)
  \/ \E z, a \in BOOLEAN : mac_send(z, a)
  \/ \E d \in 0 .. (2^NETSTK_CFG_CSMA_MAX_BE - 1) : mac_csma_backoff(d)
  \/ \E r \in {ERR_NONE} \cup CcaBusyResults : mac_csma_cca(r)
  \/ \E r \in PhyTxResults : mac_phy_send(r)
  \/ mac_send_done
  \/ \E l \in RxLens, t \in ParseResults, e \in DllcRxResults : mac_recv(l, t, e)

\* mac_send is a blocking call with no cancellation: once it has begun, each
\* of its steps keeps being taken until it returns.
Fairness ==
  /\ WF_vars(\E d \in 0 .. (2^NETSTK_CFG_CSMA_MAX_BE - 1) : mac_csma_backoff(d))
  /\ WF_vars(\E r \in {ERR_NONE} \cup CcaBusyResults : mac_csma_cca(r))
  /\ WF_vars(\E r \in PhyTxResults : mac_phy_send(r))
  /\ WF_vars(mac_send_done)

Spec == Init /\ [][Next]_vars /\ Fairness

-----------------------------------------------------------------------------
(* Properties.                                                             *)

Results == {ERR_NONE, ERR_INVALID_ARGUMENT, ERR_INVALID_FRAME, ERR_TX_COLLISION}
           \cup PhyTxResults \cup CcaBusyResults \cup PhyIoctlResults \cup DllcRxResults

TypeOK ==
  /\ pmac_netstk \in BOOLEAN
  /\ mac_cbTxFnct \in CbFncts \cup {NULL}
  /\ pmac_cbTxArg \in CbArgs \cup {NULL}
  /\ ioErr \in Results
  /\ pib \in {[unitBackoff |-> 0, ackWait |-> 0], MacPib(PhyAttrs)}
  /\ pc \in {"idle", "backoff", "cca", "tx", "done"}
  /\ p_err \in Results
  /\ isTxDone \in BOOLEAN
  /\ numTxRetries \in 0 .. numRetriesMax
  /\ isAckReq \in BOOLEAN
  /\ nb \in 0 .. 255
  /\ be \in NETSTK_CFG_CSMA_MIN_BE .. NETSTK_CFG_CSMA_MAX_BE
  /\ delay \in 0 .. (2^NETSTK_CFG_CSMA_MAX_BE - 1)
  /\ sends \in 0 .. MaxSends
  /\ attemptErr \in Results \cup {NULL}
  /\ txReported \in Results \cup {NULL}
  /\ cbLast \in [fn : CbFncts, arg : CbArgs \cup {NULL}, err : Results] \cup {NULL}

(* Channel access follows the unslotted CSMA-CA of mac_csma: while it runs, *)
(* nb counts the busy CCAs of this access and stays within MAX_BACKOFF, the *)
(* backoff exponent has grown by one per busy CCA up to its cap, and a      *)
(* frame reaches the PHY transmit only right after a CCA reported clear.   *)
CsmaDiscipline ==
  /\ pc \in {"backoff", "cca"} =>
       /\ nb <= NETSTK_CFG_CSMA_MAX_BACKOFF
       /\ be = IF NETSTK_CFG_CSMA_MIN_BE + nb < NETSTK_CFG_CSMA_MAX_BE
                 THEN NETSTK_CFG_CSMA_MIN_BE + nb ELSE NETSTK_CFG_CSMA_MAX_BE
  /\ pc = "tx" => p_err = ERR_NONE

(* mac_send implements MacTx: at most numRetriesMax attempts, a retry only *)
(* after a collision or after any failure of a frame that requests an ACK, *)
(* the outcome of the last attempt returned, and every call returns.       *)
Abstract == INSTANCE MacTx WITH
  Outcomes      <- PhyTxResults \cup CcaBusyResults,
  ERR_COLLISION <- ERR_TX_COLLISION,
  MaxRetries    <- numRetriesMax,
  busy          <- pc # "idle",
  ack           <- isAckReq,
  attempts      <- numTxRetries + (IF isTxDone THEN 1 ELSE 0),
  last          <- attemptErr,
  reported      <- txReported

ImplementsMacTx == Abstract!ASpec

=============================================================================
