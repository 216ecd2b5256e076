-------------------------------- MODULE lums --------------------------------
(***************************************************************************)
(* The LUMS demo, server build (DEMO_LUMS_SERVER TRUE), with its           *)
(* configuration menu: src/demo/lums/demo_lums.c and lums_menu.c.          *)
(*                                                                         *)
(* After start-up the device sits in lums_menuRun, a busy wait that ends   *)
(* on "c exit" or after LUMS_CFG_TIMEOUT; then the event loop runs.  The   *)
(* UART receive interrupt stays registered the whole time: a complete "c"  *)
(* line runs lums_menuCmdParser in interrupt context, which fills the one  *)
(* static s_lumsCmdObj and posts NETSTK_APP_EVENT_TX carrying a pointer to *)
(* it; lums_cmdHandler reads the object when the event loop gets to the    *)
(* event.  Every posted event carries the same pointer, so the event queue *)
(* (evproc, outside src/) is a count of pending events.  UDP messages      *)
(* reach lums_serverRx through the event loop.  The stack configuration   *)
(* (mac_phy_config) is kept in RAM and saved to info-flash by "stkcfg      *)
(* save"; a reset loses everything but the flash.                          *)
(***************************************************************************)
EXTENDS Integers, Bags, BagsExt

CONSTANTS
  Addrs,       \* last 16-bit word of client addresses (u16[7]); 0 is
               \* also the free-slot marker of s_clients
  Types,       \* first argument of "c": "s", "si", "gi", "exit", others
  Params,      \* integers given as arguments of "c"
  MacVals,     \* 16-bit values "mac set" can leave in the address
  DEFAULT_MAC, \* low 16 bits of the built-in mac_phy_config address
  NONE,        \* an argument that is not there
  MaxCmds,     \* bound on "c" lines per boot
  MaxRx        \* bound on received UDP messages per boot

\* LUMS_CLIENT_TABLE_SIZE and LUMS_CLIENT_ID_INVALID
LUMS_CLIENT_TABLE_SIZE == 2
LUMS_CLIENT_ID_INVALID == 255
Slots == 0 .. LUMS_CLIENT_TABLE_SIZE - 1

MsgTypes == {"data", "interval_get", "other"}

\* A "c" line as clp_parse hands it over: its first three arguments ("c
\* help" only prints and is left out).
CmdLines == [type : Types \cup {NONE}, p1 : Params \cup {NONE},
             p2 : Params \cup {NONE}]

VARIABLES
  phase,        \* "init" from the UART IRQ registration to lums_menuRun,
                \* "conf" inside lums_menuRun, "main" in the event loop
  lumsMenuCfgDone,
  s_lumsCmdObj, \* [type, param1, param2]
  pending,      \* NETSTK_APP_EVENT_TX events queued, all pointing to it
  s_clients,    \* gs_lumsCtx.s_clients[i].addr.u16[7], 0 while free
  numRxMsg,     \* gs_lumsCtx.s_clients[i].numRxMsg
  macLsb,       \* mac_phy_config.mac_address[6..7]
  isSaved,      \* mac_phy_config.is_saved
  flash,        \* info-flash copy [is_saved, lsb]; survives a reset
  \* history: commands posted and not yet handled (a bag), whether a handled
  \* event acted on a command nobody posted for it, the last s_clients
  \* index used by lums_cmdHandler and by lums_serverSaveClientInfo (-1
  \* before any), data messages per client, "c" lines and messages this
  \* boot, the last value saved, and whether the RAM address was changed
  \* since boot or save
  posted, staleHandled, cmdIdx, savedIdx, rxCount, cmds, rxs, lastSaved, dirty

vars == <<phase, lumsMenuCfgDone, s_lumsCmdObj, pending, s_clients, numRxMsg,
          macLsb, isSaved, flash, posted, staleHandled, cmdIdx, savedIdx,
          rxCount, cmds, rxs, lastSaved, dirty>>

\* Mutant: the structure is written to flash before is_saved is set.
lums_menuWriteStkCfg_late(cfg) == cfg

\* lums_menuWriteStkCfg: the flash image of the RAM configuration cfg, with
\* is_saved set to TRUE before the write.
lums_menuWriteStkCfg(cfg) == [cfg EXCEPT !.is_saved = TRUE]

\* Power-up (and the moment of a reset): nothing has run yet; the RAM
\* values are overwritten by lums_boot before anything reads them.
Init ==
  /\ phase = "off"
  /\ lumsMenuCfgDone = FALSE
  /\ s_lumsCmdObj = [type |-> "", p1 |-> 0, p2 |-> 0]
  /\ pending = 0
  /\ s_clients = [i \in Slots |-> 0]
  /\ numRxMsg = [i \in Slots |-> 0]
  /\ macLsb = DEFAULT_MAC
  /\ isSaved = FALSE
  /\ flash = [is_saved |-> FALSE, lsb |-> DEFAULT_MAC]    \* erased
  /\ posted = EmptyBag
  /\ staleHandled = FALSE
  /\ cmdIdx = -1
  /\ savedIdx = -1
  /\ rxCount = [a \in Addrs |-> 0]
  /\ cmds = 0
  /\ rxs = 0
  /\ lastSaved = NONE
  /\ dirty = FALSE

-----------------------------------------------------------------------------

\* Start-up up to lums_menuRun: zeroed statics and the built-in
\* mac_phy_config, then lums_menuInit (called by demo_lumsConf): the copy of
\* a configuration saved in flash, then the UART RX interrupt is registered;
\* the menu, the title and the prompt follow while the interrupt is already
\* live.  demo_lumsInit runs only after the session; its memset writes the
\* zeros gs_lumsCtx already holds, since nothing before it touches the
\* context.  bsp_infoFlashInit and bsp_uartInit (outside src/) are taken to
\* succeed: their EMB6_ASSERT_RET returns are not modelled.
lums_boot ==
  /\ phase = "off"
  /\ phase' = "init"
  /\ lumsMenuCfgDone' = FALSE
  /\ s_lumsCmdObj' = [type |-> "", p1 |-> 0, p2 |-> 0]
  /\ pending' = 0
  /\ s_clients' = [i \in Slots |-> 0]
  /\ numRxMsg' = [i \in Slots |-> 0]
  /\ macLsb' = IF flash.is_saved THEN flash.lsb ELSE DEFAULT_MAC
  /\ isSaved' = flash.is_saved
  /\ posted' = EmptyBag
  /\ staleHandled' = FALSE
  /\ cmdIdx' = -1
  /\ savedIdx' = -1
  /\ rxCount' = [a \in Addrs |-> 0]
  /\ cmds' = 0
  /\ rxs' = 0
  /\ dirty' = FALSE
  /\ UNCHANGED <<flash, lastSaved>>

\* A reset or power loss at any point: only the flash is kept.
Reset ==
  /\ phase # "off"
  /\ phase' = "off"
  /\ UNCHANGED <<lumsMenuCfgDone, s_lumsCmdObj, pending, s_clients, numRxMsg,
                 macLsb, isSaved, flash, posted, staleHandled, cmdIdx, savedIdx,
                 rxCount, cmds, rxs, lastSaved, dirty>>

\* The interrupt handlers run whenever the device is up.
Up == phase \in {"init", "conf", "main"}

\* lums_menuCmdParser, in UART interrupt context.  After the last token
\* p_args holds the NULL that ended strtok_r, and past it pointers clp_parse
\* never wrote.  sscanf through NULL reads address 0 on the target, finds no
\* number and leaves the field (NONE); through an unwritten pointer it may
\* convert anything, which is why every field of l ranges over its whole set
\* whatever the others are.
\* "%s" of "exit" writes five bytes into type[3]: the terminator lands on
\* the low byte of param1.
lums_menuCmdParser(l) ==
  /\ Up
  /\ cmds < MaxCmds
  /\ cmds' = cmds + 1
  /\ LET type == IF l.type = NONE THEN s_lumsCmdObj.type ELSE l.type
         p1in == IF l.type = "exit" THEN (s_lumsCmdObj.p1 \div 256) * 256
                 ELSE s_lumsCmdObj.p1
         obj == [type |-> type,
                 p1 |-> IF l.p1 = NONE THEN p1in ELSE l.p1,
                 p2 |-> IF l.p2 = NONE THEN s_lumsCmdObj.p2 ELSE l.p2]
     IN /\ s_lumsCmdObj' = obj
        /\ IF type = "exit"
             THEN /\ lumsMenuCfgDone' = TRUE
                  /\ UNCHANGED <<pending, posted>>
             ELSE /\ pending' = pending + 1
                  /\ posted' = BagAdd(posted, obj)
                  /\ UNCHANGED lumsMenuCfgDone
  /\ UNCHANGED <<phase, s_clients, numRxMsg, macLsb, isSaved, flash, staleHandled,
                 cmdIdx, savedIdx, rxCount, rxs, lastSaved, dirty>>

\* lums_menuRun begins: lumsMenuCfgDone = FALSE and the start tick.  An
\* "exit" parsed since the interrupt was registered is forgotten here.
lums_menuRun_start ==
  /\ phase = "init"
  /\ phase' = "conf"
  /\ lumsMenuCfgDone' = FALSE
  /\ UNCHANGED <<s_lumsCmdObj, pending, s_clients, numRxMsg, macLsb, isSaved,
                 flash, posted, staleHandled, cmdIdx, savedIdx, rxCount, cmds,
                 rxs, lastSaved, dirty>>

\* lums_menuRun's loop ends: "c exit" was typed, or LUMS_CFG_TIMEOUT passed.
lums_menuRun_done ==
  /\ phase = "conf"
  /\ lumsMenuCfgDone
  /\ phase' = "main"
  /\ UNCHANGED <<lumsMenuCfgDone, s_lumsCmdObj, pending, s_clients, numRxMsg,
                 macLsb, isSaved, flash, posted, staleHandled, cmdIdx, savedIdx,
                 rxCount, cmds, rxs, lastSaved, dirty>>

\* Mutant: the busy wait has no timeout.
lums_menuRun_timeout_never == FALSE

\* The timeout branch: bsp_getTick() - tickStart > LUMS_CFG_TIMEOUT.
lums_menuRun_timeout ==
  /\ phase = "conf"
  /\ phase' = "main"
  /\ UNCHANGED <<lumsMenuCfgDone, s_lumsCmdObj, pending, s_clients, numRxMsg,
                 macLsb, isSaved, flash, posted, staleHandled, cmdIdx, savedIdx,
                 rxCount, cmds, rxs, lastSaved, dirty>>

\* lums_cmdHandler for one NETSTK_APP_EVENT_TX event: it reads the object
\* the event points to now.  "s", "si" and "gi" send to
\* s_clients[param1] (lums_cmdSyncTime, lums_cmdSetInterval,
\* lums_cmdGetInterval), param1 converted to uint8_t; anything else is an
\* unknown command.
lums_cmdHandler ==
  /\ phase = "main"
  /\ pending > 0
  /\ pending' = pending - 1
  /\ LET obj == s_lumsCmdObj
     IN /\ IF BagIn(obj, posted)
             THEN posted' = BagRemove(posted, obj) /\ UNCHANGED staleHandled
             ELSE staleHandled' = TRUE /\ UNCHANGED posted
        /\ cmdIdx' = IF obj.type \in {"s", "si", "gi"} THEN obj.p1 % 256 ELSE cmdIdx
  /\ UNCHANGED <<phase, lumsMenuCfgDone, s_lumsCmdObj, s_clients, numRxMsg,
                 macLsb, isSaved, flash, savedIdx, rxCount, cmds, rxs, lastSaved, dirty>>

\* The lowest slot in a set of slots (the for-loop runs upwards).
FirstOf(S) == CHOOSE i \in S : \A j \in S : i <= j

\* lums_serverSaveClientInfo: the slot holding the sender, else the first
\* free slot, else LUMS_CLIENT_ID_INVALID.
SaveClientId(a) ==
  LET hit == {i \in Slots : s_clients[i] = a}
      free == {i \in Slots : s_clients[i] = 0}
  IN IF hit # {} THEN FirstOf(hit)
     ELSE IF free # {} THEN FirstOf(free)
     ELSE LUMS_CLIENT_ID_INVALID

\* Mutant: every message counts as a data message.
CountsAsData_all(t) == TRUE

\* The branch of lums_serverRx that increments numRxMsg.
CountsAsData(t) == t = "data"

\* lums_serverRx for a message of type t from the client whose address ends
\* in a: the client is looked up or stored (a new client with no free slot
\* is written at index 255, outside the table); a "data" message counts.
\* The time synchronisation it may send, and the interval_get and other
\* branches, only print or transmit.
lums_serverRx(a, t) ==
  /\ phase = "main"
  /\ rxs < MaxRx
  /\ rxs' = rxs + 1
  /\ LET id == SaveClientId(a)
         found == \E i \in Slots : s_clients[i] = a
     IN /\ s_clients' = IF ~found /\ id \in Slots THEN [s_clients EXCEPT ![id] = a]
                        ELSE s_clients
        /\ savedIdx' = id
        /\ numRxMsg' = IF CountsAsData(t) /\ id \in Slots
                       THEN [numRxMsg EXCEPT ![id] = @ + 1]
                       ELSE numRxMsg
  /\ rxCount' = IF t = "data" THEN [rxCount EXCEPT ![a] = @ + 1] ELSE rxCount
  /\ UNCHANGED <<phase, lumsMenuCfgDone, s_lumsCmdObj, pending, macLsb, isSaved,
                 flash, posted, staleHandled, cmdIdx, cmds, lastSaved, dirty>>

\* lums_menuSetDevAddr with an argument: the last two address bytes from
\* sscanf "%04X" (a value that does not parse leaves addrLsb uninitialized:
\* any value).
lums_menuSetDevAddr(v) ==
  /\ Up
  /\ macLsb' = v
  /\ dirty' = TRUE
  /\ UNCHANGED <<phase, lumsMenuCfgDone, s_lumsCmdObj, pending, s_clients, numRxMsg,
                 isSaved, flash, posted, staleHandled, cmdIdx, savedIdx, rxCount,
                 cmds, rxs, lastSaved>>

\* lums_menuSaveStkCfg: lums_menuWriteStkCfg on mac_phy_config.
lums_menuSaveStkCfg ==
  /\ Up
  /\ isSaved' = TRUE
  /\ flash' = lums_menuWriteStkCfg([is_saved |-> isSaved, lsb |-> macLsb])
  /\ lastSaved' = macLsb
  /\ dirty' = FALSE
  /\ UNCHANGED <<phase, lumsMenuCfgDone, s_lumsCmdObj, pending, s_clients, numRxMsg,
                 macLsb, posted, staleHandled, cmdIdx, savedIdx, rxCount, cmds, rxs>>

Next ==
  \/ lums_boot
  \/ Reset
  \/ \E l \in CmdLines : lums_menuCmdParser(l)
  \/ lums_menuRun_start
  \/ lums_menuRun_done
  \/ lums_menuRun_timeout
  \/ lums_cmdHandler
  \/ \E a \in Addrs, t \in MsgTypes : lums_serverRx(a, t)
  \/ \E v \in MacVals : lums_menuSetDevAddr(v)
  \/ lums_menuSaveStkCfg

\* demo_lumsConf goes on from lums_menuInit to lums_menuRun; the tick
\* counter advances, so lums_menuRun's timeout comes; the event loop keeps
\* dispatching queued events.  Resets, typing and radio
\* messages are the environment's and get no fairness.
Fairness ==
  /\ WF_vars(lums_menuRun_start)
  /\ WF_vars(lums_menuRun_timeout)
  /\ WF_vars(lums_cmdHandler)

Spec == Init /\ [][Next]_vars /\ Fairness

-----------------------------------------------------------------------------
(* Properties.                                                             *)

(* The client table of lums_serverRx: each client has at most one slot,   *)
(* and a slot's numRxMsg is the number of "data" messages its client sent *)
(* since start-up.                                                         *)
RxCountsMatch ==
  /\ \A i, j \in Slots : i # j /\ s_clients[i] # 0 => s_clients[i] # s_clients[j]
  /\ \A i \in Slots : s_clients[i] # 0 => numRxMsg[i] = rxCount[s_clients[i]]

(* The stack configuration survives a reset: after start-up                *)
(* (lums_menuInit's read of the info-flash) and after "stkcfg save", the  *)
(* address in mac_phy_config is the one last saved, or the built-in one if *)
(* nothing was ever saved.                                                  *)
BootRestoresSaved ==
  phase # "off" /\ ~dirty =>
    macLsb = IF lastSaved = NONE THEN DEFAULT_MAC ELSE lastSaved

(* lums_cmdHandler acts on the command that was typed for the event it    *)
(* handles: every handled event finds in s_lumsCmdObj a command posted and *)
(* not handled yet.                                                         *)
HandledAsPosted == ~staleHandled

(* Every index the server uses into s_clients is in the table: the one    *)
(* lums_serverSaveClientInfo returns for a sender, and the client id       *)
(* lums_cmdHandler takes from the typed command.                           *)
ClientIdInTable ==
  /\ savedIdx < LUMS_CLIENT_TABLE_SIZE
  /\ cmdIdx < LUMS_CLIENT_TABLE_SIZE

(* The server's client bookkeeping is sound: every index it uses into    *)
(* s_clients is inside the table, each client has at most one slot, and a *)
(* slot's numRxMsg is the number of data messages its client sent.  This  *)
(* is what lums_serverRx's DBG_PRINTF of numRxMsg and lums_cmdHandler's    *)
(* addressing of a client by its id rely on.                              *)
ClientTableSound == RxCountsMatch /\ ClientIdInTable

=============================================================================
