----------------------------- MODULE lums_client -----------------------------
(***************************************************************************)
(* The LUMS demo, client build (DEMO_LUMS_SERVER FALSE) of                 *)
(* src/demo/lums/demo_lums.c, with the server commands that reach it.     *)
(*                                                                         *)
(* The model starts after demo_lumsInit: both sensor timers and the        *)
(* transmit timer are set.  Each sensor timer, on expiry, restarts itself  *)
(* and registers the sensor's UART receive interrupt; the interrupt stores *)
(* one byte per call and unregisters itself when the read buffer is full. *)
(* The transmit timer restarts itself and sends a data message.  UDP       *)
(* messages from the server (interval_set, interval_get, sync) arrive in   *)
(* lums_clientRx through the event loop.  The network between the two     *)
(* builds loses and reorders datagrams: in-flight messages are a set.      *)
(*                                                                         *)
(* Both builds send obuf with the length sprintf returned, without the     *)
(* terminating NUL, and the receiver copies exactly that many bytes into   *)
(* an uninitialized stack buffer before strtok and sscanf read it as a    *)
(* string: the digits of a number can be followed by whatever digits the   *)
(* stack held.  StackDigits are the digits that may be found there.        *)
(***************************************************************************)
EXTENDS Naturals

CONSTANTS
  LUMS_SS_TX_INTERVAL,   \* initial transmit interval, in ticks
  Intervals,             \* intervals the server operator may send ("c si")
  StackDigits,           \* digits a stale stack byte after a payload may hold
  Years,                 \* years the server's RTC may read when it sends sync
  RTC_RESET,             \* the year in the client's RTC before any sync
  NONE

\* LUMS_SS_RD_BUF_SIZE, the per-sensor read buffer.
LUMS_SS_RD_BUF_SIZE == 5

Sensors == {"ss1", "ss2"}

\* The values sscanf("%ld") may read from a number v sent without its
\* terminator: v itself, or v with one more digit from the stack.
ParsedNumber(v) == {v} \cup {v * 10 + d : d \in StackDigits}

VARIABLES
  ss,             \* ss1, ss2: [wrPtr, irq]; irq TRUE while the UART
                  \* receive interrupt is registered with rxCb
  ssTxInterval,   \* gs_lumsCtx.ssTxInterval
  ssTxTmr,        \* the interval ssTxTmr runs with (ctimer's interval)
  net,            \* UDP datagrams in flight between server and client
  rtc,            \* the client's RTC (bsp_rtcGetTime/SetTime): its year
  \* history: every interval the server has sent in an interval_set, and
  \* every year it has sent in a sync
  sentIntervals, sentYears

vars == <<ss, ssTxInterval, ssTxTmr, net, rtc, sentIntervals, sentYears>>

\* After demo_lumsInit: gs_lumsCtx zeroed, sensor timers set with no
\* interrupt registered yet, the transmit timer set to LUMS_SS_TX_INTERVAL.
Init ==
  /\ ss = [s \in Sensors |-> [wrPtr |-> 0, irq |-> FALSE]]
  /\ ssTxInterval = LUMS_SS_TX_INTERVAL
  /\ ssTxTmr = LUMS_SS_TX_INTERVAL
  /\ net = {}
  /\ rtc = RTC_RESET
  /\ sentIntervals = {}
  /\ sentYears = {}

-----------------------------------------------------------------------------
(* Client.                                                                 *)

\* lums_clientTx: the message leaves only when the node has a global
\* address and knows a DAG (routed, an input); otherwise nothing is sent.
lums_clientTx(m, routed) == net' = IF routed THEN net \cup {m} ELSE net

\* Mutant: the wrap test lets the write pointer reach the buffer size.
lums_clientReadSensorData_late(s) ==
  LET p == (ss[s].wrPtr + 1) % 256
  IN /\ ss[s].irq
     /\ ss' = [ss EXCEPT ![s] = IF p > LUMS_SS_RD_BUF_SIZE
                                  THEN [wrPtr |-> 0, irq |-> FALSE]
                                  ELSE [@ EXCEPT !.wrPtr = p]]
     /\ UNCHANGED <<ssTxInterval, ssTxTmr, net, rtc, sentIntervals, sentYears>>

\* lums_clientReadSensor1Data / 2Data, the UART receive interrupt of sensor
\* s: store the byte at buf[wrPtr], advance wrPtr; at the end of the
\* buffer wrap to 0 and unregister the interrupt.  (The byte and the
\* FIXME value 299 are not modelled: nothing reads them.)
lums_clientReadSensorData(s) ==
  LET p == (ss[s].wrPtr + 1) % 256
  IN /\ ss[s].irq
     /\ ss' = [ss EXCEPT ![s] = IF p >= LUMS_SS_RD_BUF_SIZE
                                  THEN [wrPtr |-> 0, irq |-> FALSE]
                                  ELSE [@ EXCEPT !.wrPtr = p]]
     /\ UNCHANGED <<ssTxInterval, ssTxTmr, net, rtc, sentIntervals, sentYears>>

\* lums_clientReadSensorTimeout(&ss): restart the sensor timer and register
\* the interrupt, whatever wrPtr is.
lums_clientReadSensorTimeout(s) ==
  /\ ss' = [ss EXCEPT ![s].irq = TRUE]
  /\ UNCHANGED <<ssTxInterval, ssTxTmr, net, rtc, sentIntervals, sentYears>>

\* lums_clientSendSensorData, on ssTxTmr expiry: restart the timer with its
\* own interval, format a data message and send it.
lums_clientSendSensorData(routed) ==
  /\ lums_clientTx([type |-> "data", v |-> NONE], routed)
  /\ UNCHANGED <<ss, ssTxInterval, ssTxTmr, rtc, sentIntervals, sentYears>>

\* The interval_set branch of lums_clientRx: sscanf the payload into
\* ssTxInterval (x is what it reads), then ctimer_stop and ctimer_set with
\* the new interval.
ApplyIntervalSet(x) ==
  /\ ssTxInterval' = x
  /\ ssTxTmr' = x

\* lums_clientSyncTime(payload): lums_readTime sscanf's the six fields of
\* "h:m:s:d:mo:y" and bsp_rtcSetTime sets them.  The first five end at a
\* ':' and are read exactly; the year is the last number of the datagram
\* and may run on into the stack (ParsedNumber).  The clock is its year.
lums_clientSyncTime(y) == \E x \in ParsedNumber(y) : rtc' = x

\* lums_clientRx on datagram m, taken off the network.  The message type is
\* the first token; sync sets the RTC; interval_set takes the new interval;
\* interval_get answers "interval_get <ssTxInterval>"; any other type is
\* ignored.
lums_clientRx(m, routed) ==
  /\ m \in net
  /\ m.type \in {"interval_set", "interval_get", "sync", "other"}
  /\ \/ /\ m.type = "sync"
        /\ lums_clientSyncTime(m.v)
        /\ net' = net \ {m}
        /\ UNCHANGED <<ssTxInterval, ssTxTmr>>
     \/ /\ m.type = "interval_set"
        /\ \E x \in ParsedNumber(m.v) : ApplyIntervalSet(x)
        /\ net' = net \ {m}
        /\ UNCHANGED rtc
     \/ /\ m.type = "interval_get"
        /\ LET rest == net \ {m}
               reply == [type |-> "interval_get_reply", v |-> ssTxInterval]
           IN net' = IF routed THEN rest \cup {reply} ELSE rest
        /\ UNCHANGED <<ssTxInterval, ssTxTmr, rtc>>
     \/ /\ m.type = "other"
        /\ net' = net \ {m}
        /\ UNCHANGED <<ssTxInterval, ssTxTmr, rtc>>
  /\ UNCHANGED <<ss, sentIntervals, sentYears>>

-----------------------------------------------------------------------------
(* Server side of the exchange and the network.                            *)

\* lums_cmdSetInterval / lums_cmdGetInterval / lums_cmdSyncTime through
\* lums_serverTx: "interval_set  <v>", "interval_get ", "sync <time>".
lums_cmdSetInterval(v) ==
  /\ net' = net \cup {[type |-> "interval_set", v |-> v]}
  /\ sentIntervals' = sentIntervals \cup {v}
  /\ UNCHANGED <<ss, ssTxInterval, ssTxTmr, rtc, sentYears>>

lums_cmdGetInterval ==
  /\ net' = net \cup {[type |-> "interval_get", v |-> NONE]}
  /\ UNCHANGED <<ss, ssTxInterval, ssTxTmr, rtc, sentIntervals, sentYears>>

\* lums_cmdSyncTime: "sync h:m:s:d:mo:y" with the server's RTC reading y.
lums_cmdSyncTime(rest, y) ==
  /\ net' = rest \cup {[type |-> "sync", v |-> y]}
  /\ sentYears' = sentYears \cup {y}

\* A data message makes lums_serverRx compare the client's time stamp with
\* its own RTC by strncmp over the two en_hal_rtc_t structures and send a
\* sync when they differ.  The outcome depends on the structure's layout
\* and padding (outside src/): either may happen.  An interval_get reply
\* is printed.
lums_serverRx(m, sync) ==
  /\ m \in net
  /\ m.type \in {"data", "interval_get_reply"}
  /\ IF m.type = "data" /\ sync
       THEN \E y \in Years : lums_cmdSyncTime(net \ {m}, y)
       ELSE net' = net \ {m} /\ UNCHANGED sentYears
  /\ UNCHANGED <<ss, ssTxInterval, ssTxTmr, rtc, sentIntervals>>

\* A datagram the radio or a router drops.
udp_lose(m) ==
  /\ m \in net
  /\ net' = net \ {m}
  /\ UNCHANGED <<ss, ssTxInterval, ssTxTmr, rtc, sentIntervals, sentYears>>

\* A datagram of a type the client does not know arrives.
udp_other ==
  /\ net' = net \cup {[type |-> "other", v |-> NONE]}
  /\ UNCHANGED <<ss, ssTxInterval, ssTxTmr, rtc, sentIntervals, sentYears>>

Next ==
  \/ \E s \in Sensors : lums_clientReadSensorData(s) \/ lums_clientReadSensorTimeout(s)
  \/ \E r \in BOOLEAN : lums_clientSendSensorData(r)
  \/ \E m \in net, r \in BOOLEAN : lums_clientRx(m, r) \/ lums_serverRx(m, r)
  \/ \E v \in Intervals : lums_cmdSetInterval(v)
  \/ lums_cmdGetInterval
  \/ \E m \in net : udp_lose(m)
  \/ udp_other

Spec == Init /\ [][Next]_vars

-----------------------------------------------------------------------------
(* Properties.                                                             *)

(* The sensor interrupt writes only inside buf: wrPtr stays below         *)
(* LUMS_SS_RD_BUF_SIZE, and when the interrupt has unregistered itself the *)
(* next reading period starts at buf[0].                                   *)
SensorReadBounded ==
  \A s \in Sensors :
    /\ ss[s].wrPtr < LUMS_SS_RD_BUF_SIZE
    /\ ~ss[s].irq => ss[s].wrPtr = 0

(* The client applies what the server sent: it transmits with an interval *)
(* the server sent in an interval_set (or the initial one), and its RTC    *)
(* shows a year the server sent in a sync (or the one it had).  The        *)
(* LUMS_UTEST_EN tests C1 and C2 send "sync 18:21:00:01:10:17" and         *)
(* "interval_set 123456" and expect the client to take those values.      *)
AppliedAsSent ==
  /\ ssTxInterval \in sentIntervals \cup {LUMS_SS_TX_INTERVAL}
  /\ rtc \in sentYears \cup {RTC_RESET}

=============================================================================
