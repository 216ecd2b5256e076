# TLA+ models of emb6's MAC driver and the LUMS demo around it

This directory holds TLA+ models of the C sources under `src/`, the TLC
configurations that check them, and `PROJECT.json`, which maps every model
definition to the source lines it translates and lists the runs, mutants,
findings and hazards.

## 1. Inventory

### Components

| Component | Source | State it keeps | Operations |
|---|---|---|---|
| MAC driver (IEEE 802.15.4, unslotted CSMA-CA) | `src/emb6/src/dll/mac/mac_802154.c` | `pmac_netstk`, `mac_cbTxFnct`, `pmac_cbTxArg` (process-wide); per call of `mac_send`: `isTxDone`, `numTxRetries`, `isAckReq`; per channel access (`mac_csma`): `nb`, `be`, `delay` | `mac_init`, `mac_on`, `mac_off`, `mac_send` (→ `mac_csma`), `mac_recv`, `mac_ioctl` |
| Command-line parser and menu (CLP) | `src/utils/src/clp.c`, `src/utils/inc/clp.h` | `gs_clp`: menu list `p_first`, context `p_currMenuParent`, line buffer `c_cmdLine[80]`, `i_cmdLineWriteIndex`, echo flag, title, UART | `clp_init`, `clp_menuAddEntry`, `clp_menuSetCtxBasedCB`, `clp_rxChar` (→ `clp_parse`), `clp_echoEnable`, `clp_setTitle`, print functions |
| LUMS configuration menu | `src/demo/lums/lums_menu.c`, `lums_menu.h` | `s_lumsCmdObj` (one shared command object), `lumsMenuCfgDone`, flash handle, `mac_phy_config` (shared) | `lums_menuInit`, `lums_menuRun` (busy wait with timeout), menu callbacks (`get`/`save`/`set` handlers, `lums_menuCmdParser`), UART RX ISR `lums_menuRxChar` |
| LUMS demo application (server and client builds) | `src/demo/lums/demo_lums.c` | `gs_lumsCtx`: output buffer, client table `s_clients[2]` (server), sensor buffers `ss1`/`ss2` with `wrPtr`, timers, `ssTxInterval` (client) | `demo_lumsInit`, `demo_lumsConf`, `lums_rx` → `lums_serverRx` / `lums_clientRx`, `lums_cmdHandler`, `lums_cmd*`, `lums_serverSaveClientInfo`, client timer callbacks and sensor ISRs |
| CC112x RF front-end switch | `src/target/if/cc112x/cc112x_frontend.c` | three pin handles | `cc112x_frontend_init`, `cc112x_frontend_opModeSel` (truth table → pins) |
| Configuration headers | `src/emb6/thread_conf.h`, `src/target/if/tcpip/tcpip.h`, `src/demo/sniffer/demo_sniffer.h`, `src/demo/lums/lums_menu.h` | constants and prototypes only | none |

### How they interact

* The MAC sits between the PHY (`pmac_netstk->phy`: `on`, `off`, `send`,
  `ioctrl` including the clear-channel assessment) and the DLLC
  (`pmac_netstk->dllc->recv`). `mac_send` is blocking: it loops over at most
  four attempts, each a full CSMA-CA channel access followed, if the channel
  was clear, by one PHY transmit, then calls the completion callback
  registered through `mac_ioctl`. `mac_recv` is called by the radio side at
  any time and either forwards the frame to DLLC or drops it.
* The LUMS menu builds a CLP menu in `lums_menuInit` and feeds it characters
  from the UART RX interrupt (`lums_menuRxChar` → `clp_rxChar`); a complete
  line runs `clp_parse`, which calls the menu callbacks. `lums_menuRun`
  busy-waits until the `c exit` command sets `lumsMenuCfgDone` or 10 s pass.
* The `c` command (`lums_menuCmdParser`) fills the single static
  `s_lumsCmdObj` and posts an `NETSTK_APP_EVENT_TX` event carrying a pointer
  to it; `lums_cmdHandler` later reads the object and sends a UDP message to
  the client it names. Received UDP messages reach `lums_rx` through the
  event process and update the client table.

### What is hard

* MAC: the retry classification mixes three sources of failure (channel
  access exhausted, collision, missing ACK) with the per-frame ACK flag; the
  channel-access loop has an off-by-one-prone bound (`nb <= MAX_BACKOFF`), an
  exponent cap, and 8-bit counters; a reception may arrive during a send.
* CLP: a line editor on a fixed 80-byte buffer driven one character at a
  time from an interrupt (backspace, overflow reset, terminator slot), and a
  tokenizer whose result may be empty. The help printer wraps words with
  pointer arithmetic against a margin; its hyphen branch can print nothing.
* LUMS: commands are posted by pointer to one shared object and handled
  later; a fixed two-entry client table indexed by an unchecked id; a flag
  written in an ISR and polled in a busy loop.

### What makes each component correct

* MAC: at most four attempts; a retry only after a collision or after any
  failure of a frame that requests an ACK; the caller gets the outcome of the
  last attempt; a PHY transmit only after a clear CCA; at most
  `MAX_BACKOFF + 1` CCAs per channel access; `be` grows by one per busy CCA up
  to `MAX_BE`; every send returns.
* CLP: the line handed to the parser is what was typed with backspaces
  applied; the buffer keeps its terminator; the parser only dereferences
  tokens that exist; the menu context is always a menu entry.
* LUMS: each handled command is the command that was typed; table indices
  stay within the table.

## 2. Plan

Modules, in the order they are (or will be) written:

1. `MacTx` — abstract specification of one `mac_send` call: attempts,
   retry rule, reported result, termination. **Done.**
2. `mac_802154` — the MAC driver, with `mac_send` split at its waits on the
   radio, every `mac_ioctl` command, `mac_init`, `mac_on`/`mac_off` and
   `mac_recv`; shown to implement `MacTx` by a refinement mapping.
   `MC_mac_802154` instantiates it. **Done.**
3. `clp` — CLP line editor (`clp_rxChar`), tokenizer and dispatcher
   (`clp_parse`, `clp_findEntry`) over a small fixed menu, context changes
   with `..`; dispatch checked against a declarative reference (`Named`).
   `MC_clp` instantiates it. **Done.**
4. `clp_menu` — the entry list: `clp_init`, `clp_menuAddEntry`,
   `clp_menuSetCtxBasedCB`, with entry structures reused across `clp_init`.
   **Done.**
5. `lums` — the server build with its menu: `lums_menuCmdParser`, the
   shared `s_lumsCmdObj`, the event queue, `lums_cmdHandler`,
   `lums_serverRx`/`lums_serverSaveClientInfo` with the two-entry table, the
   configuration saved to flash, resets. **Done.**
6. `lums_client` — sensor read buffers, their timers and ISRs, interval
   set/get, with the server commands that reach the client over a lossy
   network. **Done.**
7. `mac_pib` — done inside `mac_802154`: `MacPib` is the PIB arithmetic of
   `mac_init`, and the variable `pib` holds what it publishes.
8. `cc112x_frontend` — dropped: see "Not modelled".

## 3. What is modelled now

### `MacTx` (abstract)

Variables `busy`, `ack`, `attempts`, `last`, `reported`. `Start(a)` begins a
call; `Attempt(o)` ends one attempt in outcome `o` while the call is not
`Finished` (no attempt yet, or the last outcome retryable and fewer than
`MaxRetries` attempts); `Complete` returns `last`. `Retryable(o, a)` is the
retry rule of the code. Weak fairness of `Attempt` and `Complete`: a call
always returns.

### `mac_802154` (detailed)

| Code | Model |
|---|---|
| static `pmac_netstk`, `mac_cbTxFnct`, `pmac_cbTxArg` | variables of the same names (`pmac_netstk` is a flag) |
| `mac_init` | `mac_init(netstkGiven)`; it publishes `pib' = MacPib(PhyAttrs)` |
| PIB arithmetic of `mac_init` (lines 155-179) | `MacPib(a)`: 20 symbols, and the ACK wait with 6 or 9 octets (`NETSTK_CFG_MR_FSK_PHY_EN`) |
| `mac_on`, `mac_off`, `mac_ioctl` default branch | set `ioErr` to what the PHY reports |
| `mac_ioctl` `TX_CBFNCT_SET` / `TX_CBARG_SET` | `mac_ioctl_cbfnct(v)`, `mac_ioctl_cbarg(v)` |
| `mac_send` up to the first `mac_csma` | `mac_send(lenZero, ack)` |
| `mac_csma` top (`nb`, `be`, `*p_err`) | `CsmaStart` |
| random delay | `mac_csma_backoff(d)`, `d ∈ 0..2^be-1` |
| CCA and the rest of the CSMA loop body | `mac_csma_cca(r)`; on exhaustion it continues into mac_send's classification |
| `phy->send` | `mac_phy_send(r)` |
| classification + loop test (lines 256-273) | `EndAttempt(e, nbOut, beOut)` |
| trace + callback | `mac_send_done` |
| `mac_recv` | `mac_recv(len, t, dllcErr)`, result `RecvErr` |

`mac_send` is split at the calls into the PHY because those are where it
waits and where the radio's receive path may run; nothing else in the stack
can run during a send (one event context), so `mac_init`, `mac_on/off` and
`mac_ioctl` are only enabled while no send is active. `nb` is kept modulo 256
(it is a `uint8_t`). History variables: `sends` (bound), `attemptErr` (outcome
of the last finished attempt), `txReported` (value of `*p_err` at return),
`cbLast` (last callback invocation).

PHY, parser and DLLC results are inputs from small sets given in
`MC_mac_802154.tla`: transmit results {NONE, TX_COLLISION, TX_NOACK, FATAL},
CCA busy result {CHANNEL_ACESS_FAILURE}, DLLC results {NONE, FATAL}.

### Runs

| Run | Config | Checks | Shows |
|---|---|---|---|
| `mac` | `MC_mac.cfg` | `TypeOK`, `CsmaDiscipline`, `ImplementsMacTx` | the retry loop and CSMA-CA obey the rules above and every send returns, with receptions falling between any two steps of a send |
| `clp` | `MC_clp.cfg` | `TypeOK`, `LineBufferBounded`, `DispatchMatchesMenu`, `HelpWithinMargin`, `HelpTextKept` | every typed line keeps the buffer terminated; the call-back called is the one the line names from the current context, also below a call-back entry; a help print at offsets 4 and 5 keeps every line inside the margin and loses no character |
| `clp_help_hang` (violation) | `MC_clp_helphang.cfg` | `HelpLoopProgresses` | at offset `CLP_PRINT_MARGIN-1` the help loop stops advancing (finding 3) |
| `clp_backspace` (violation) | `MC_clp_backspace.cfg` | `LineIsTyped` | backspace clears the wrong slot (finding 1) |
| `clp_blank` (violation) | `MC_clp_blank.cfg` | `ParseHasToken` | a line of spaces reaches `strcmp(NULL, "..")` (finding 2) |
| `clp_menu` | `MC_clp_menu.cfg` | `ListMatchesRegistry`, `ChildrenFollowParent` | with one-level menus the list is terminated, holds exactly the accepted entries, unique per context, in pre-order, also across `clp_init` with reused structures |
| `clp_menu_ctxcb` (violation) | `MC_clp_menu_ctxcb.cfg` | `EntryKindAsDeclared` | a context call-back survives `clp_init` and a re-add as a menu (finding 4) |
| `lums` | `MC_lums.cfg` | `BootRestoresSaved` | the MAC address after start-up or `stkcfg save` is the one last saved, across resets at any step |
| `lums_shared` (violation) | `MC_lums_shared.cfg` | `HandledAsPosted` | a queued command is overwritten in the shared object (finding 5) |
| `lums_index` (violation) | `MC_lums_index.cfg` | `ClientTableSound` | `c s 2` addresses `s_clients[2]` (finding 7); the same property is broken by a third client stored at index 255 (finding 6) and by a client with address word 0 (finding 9), with longer traces |
| `lums_client` | `MC_lums_client.cfg` | `SensorReadBounded` | the sensor interrupt writes only inside its buffer, with timeouts, transmits and lost or reordered server commands in between |
| `lums_client_unterminated` (violation) | `MC_lums_client_unterminated.cfg` | `AppliedAsSent` | an `interval_set 1` becomes interval 17 (finding 8); a sync's year can run on the same way |

Bounds: `MIN_BE = 1`, `MAX_BE = 2`, `MAX_BACKOFF = 3`: four CCAs per access,
and the exponent reaches its cap after one busy CCA and then stays there, so
both the growth and the clamp of line 421 are exercised; delays 0..3. One
`mac_send` call of up to 4 attempts × 4 CCAs, with configuration calls
before it and receptions at any point. `PACKETBUF_SIZE = 2` with lengths
{0, 2, 3}: an empty frame, one that just fits and one a byte too long. A
second send adds no behaviour the properties distinguish: every call starts
from `CsmaStart` and resets its counters, and a second call with receptions
interleaved takes TLC over seven minutes.

Fairness: weak fairness on each step of `mac_send`. The code justifies it:
`mac_send` is a blocking call with no cancellation, the PHY calls return,
and nothing else runs in its context. No fairness is assumed for the
environment (configuration calls, new sends, receptions).

### `clp` (line editor and dispatcher)

| Code | Model |
|---|---|
| `gs_clp.c_cmdLine`, `i_cmdLineWriteIndex`, `p_currMenuParent` | variables of the same names; the buffer is a sequence, C index `i` is position `i+1`; NULL is 0 |
| menu list (built by `clp_menuAddEntry`) | constant `Menu`: entries `[cmd, parent, cb]` in list order (`cb` covers both call-back kinds) |
| `clp_cmdLineClear` | `EmptyLine`, index 0 |
| `strlen` | `Strlen` (first NUL) |
| `strtok_r(…, " ")` loop, 9-token cap | `Tokenize` (RECURSIVE), `MaxArgs` |
| `clp_findEntry` | `clp_findEntry` (first match in list order) |
| the `for(;;)` descent of `clp_parse` | `Descend` (RECURSIVE) |
| `clp_parse` | `clp_parse(line)`: `..`, descent, call-back or context switch, unknown command |
| `clp_rxChar` | `clp_rxChar_eol`, `clp_rxChar_bs`, `clp_rxChar_char(ch)` |

History variables: `typed` (the line as the user means it: characters with
backspaces applied), `lastCall` (context, tokens, entry and arguments of the
last call-back invocation) and `argNull` (clp_parse was handed a line with
no token). A line without tokens makes `clp_parse` call `strcmp(NULL, "..")`;
that is undefined behaviour, and the model continues as an embedded build
that reads no match there (unknown command) and records `argNull`.

`DispatchMatchesMenu` compares the parser with a reference written from the
menu's meaning rather than from the loop: `PathFrom(ctx, e)` is the sequence
of commands on the way from the context down to `e`, and `Named(ctx, args)`
is the deepest entry whose path is a prefix of the arguments.

The help printer (`clp_printHelp`, `clp_printHelpLine`) runs inside
`clp_parse`. On an unknown command, `clp_menuPrintHelp` prints each entry's
help at an offset of the longest command plus 3 (plus 2 for a child). The
model starts one help print there. The help string is an input from
`HelpTexts` and the offset an input from `HelpOffsets`. Each step is one pass
of `clp_printHelp`'s `while` loop. `clp_rxChar` runs in the UART interrupt,
so `Next` offers no new character until the print is done.

| Code | Model |
|---|---|
| `clp_printHelpLine(p, n)` | `HelpLine`: up to `n` characters, `\r` skipped, stops after `\n`; returns the text and the count consumed |
| roll-back loop to a space | `BreakAt` |
| "Skip any leading spaces" | `SkipSpaces` |
| the wrapping `else` branch | `WrapStep`: a break at a space, or a hyphenated cut of `MARGIN-off-1` characters |
| one pass of the `while` loop | `HelpIteration`, action `clp_printHelp_iter` |
| entry with `p_help`, `i_startOffset` | action part `clp_printHelp` (in `clp_parse`) |
| loop exit, prompt, return | `clp_printHelp_done` |

The variable `help` holds the string, the offset, the index of
`p_currentHelpWord`, the last line printed and (history) the characters
shown so far. `HelpWithinMargin` checks every line as it is printed.
`HelpTextKept` checks after every pass that the shown characters are those
of the string up to `p_currentHelpWord`. `HelpLoopProgresses` states that
the next pass from any point inside the string moves `p_currentHelpWord`
forward, so that every help print ends and `clp_parse` returns to the
interrupt. It is checked in `clp_help_hang` and fails there.

The bounds are `CLP_PRINT_MARGIN = 7`, every help string of up to 4
characters over {`a`, space, CR, LF}. The offsets are the constant
`HelpOffsets`: {4, 5} in `MC_clp.cfg` and {6} = `MARGIN-1` in
`MC_clp_helphang.cfg`. The smallest offset `clp_menuPrintHelp` passes is
`sz_cmdMaxLen + 3` = 4. Offsets 4 and 5 produce all the cases: a string
that fits, an exact fit, a break at a space, a hyphenated cut, CR and LF
inside a line, and runs of spaces. At `MARGIN-1` the hyphen branch asks
`clp_printHelpLine` for 0 characters, and the C loop never ends
(finding 3). Offsets above `MARGIN-1` wrap the unsigned length and are not
modelled. Every unknown command
fans out over 682 string and offset pairs; a fifth character made the run
take 14 minutes.

### `clp_menu` (the entry list)

Entry structures are the numbers `1 .. N` (1 is `gs_clp_helpCmd`, 0 is
NULL); their fields `p_next`, `p_parent`, `p_cmd`, call-back flags `cb`
(`pfn_menuCallBack`) and `cbCtx` (`pfn_menuCallBackCtx`) are functions over
all structures, because a structure keeps them when `clp_init` empties the
list and `lums_menuInit` adds the same statics again. `List` follows
`p_next` from `p_first` for at most `N` entries (a cycle comes out `N+1`
long). `clp_menuAddEntry(o, par, cmd, cb)` is one action: duplicate check,
parent check (`clp_menuEntryCheckInList`), the child walk `ChildSlot` or the
root append `AppendRoot`, then the fields; a call that returns -1 changes
nothing. Only structures not in the current list are passed as `p_entry`,
as every caller does. History: `registered` (entries accepted since
`clp_init`) and `declared` (the kind the API last gave each entry).

CLP bounds: a 6-byte buffer (`CLP_COMMAND_LINE_LEN = 6`: four characters
before the overflow reset, so the reset of line 953 happens), characters
`m`, `g`, `.` and space (enough for `..`, two-token lines and blank lines),
and a menu shaped like the one `lums_menuInit` builds plus one nested level:
a root command, a root menu with a command and a sub-menu, and the
sub-menu's command, all commands of the same name, so that the context
decides which one is meant. A sixth entry is a child of a call-back entry,
which `clp_menuAddEntry` accepts (against its comment at `clp.c:711-715`).
`clp_parse` descends below the call-back entry when the next argument names
that child, so `g m` calls the child and never `g` with argument `m`;
`DispatchMatchesMenu` checks that this is what happens. The 9-token cap needs a 19-character line and
is not reached. Menu list bounds: `N = 4` structures (help and three of the
caller's: enough for a root, a second root and a child inserted between
them, or a sub-menu with a child), commands `get` and `set`. The passing run
restricts parents to root entries (`FlatMenus`), as `lums_menuInit` does;
the violation runs lift it where the finding needs it. Lifting it for
`ChildrenFollowParent` shows what happens with a menu nested in a menu: a
later child of the outer menu is inserted after the outer menu's first run
of children, between the inner menu and the inner menu's own children, so
`clp_menuPrintHelp` lists it among them. Dispatch is unaffected, only the
help listing, and `clp.h` says nothing about the order, so this is recorded
as a hazard rather than a finding.

### `lums` (server build and configuration menu)

| Code | Model |
|---|---|
| `lumsMenuCfgDone`, `s_lumsCmdObj` | variables of the same names; the object is `[type, p1, p2]` |
| `gs_lumsCtx.s_clients[i].addr.u16[7]`, `.numRxMsg` | `s_clients`, `numRxMsg` (0 marks a free slot, as in the code) |
| `mac_phy_config` address bytes 6-7, `is_saved`; the info-flash copy | `macLsb`, `isSaved`, `flash` |
| evproc queue of `NETSTK_APP_EVENT_TX` events | `pending`: every event carries `&s_lumsCmdObj`, so a count loses nothing |
| `demo_lumsConf` → `lums_menuInit` (flash read, UART IRQ registration, menu, title) | `lums_boot`: `"off"` → `"init"`, the interrupt already live |
| `lums_menuRun` start: `lumsMenuCfgDone = FALSE` | `lums_menuRun_start`: `"init"` → `"conf"` |
| reset / power loss (no code: the RAM is lost) | `Reset`: back to `"off"`, only `flash` kept |
| `lums_menuRun` loop exit | `lums_menuRun_done` (`c exit`), `lums_menuRun_timeout` |
| `lums_menuCmdParser` (UART interrupt) | `lums_menuCmdParser(l)`, `l` the first three arguments of a `c` line |
| `lums_cmdHandler` | `lums_cmdHandler`: reads the object at handling time |
| `lums_serverSaveClientInfo` | `SaveClientId(a)` |
| `lums_serverRx` | `lums_serverRx(a, t)`, `t` in {data, interval_get, other} |
| `lums_menuSetDevAddr`, `lums_menuSaveStkCfg`, `lums_menuWriteStkCfg` | actions / operator of the same names |

Undefined behaviour is resolved as the target build resolves it:
`sscanf` of a missing argument (a NULL pointer) converts nothing and leaves
the field as it was; `sscanf("%s")` of `exit` into `type[3]` writes its
terminator over the low byte of `param1`; `sscanf("%04X")` of text that does
not parse leaves `addrLsb` uninitialized, so `mac set` may store any value
(`MacVals`). Message payloads, time stamps, printing and the UDP sends are
left out: nothing the properties compare depends on them.

History: `posted` (a bag of the commands posted and not yet handled),
`staleHandled`, `cmdIdx` and `savedIdx` (the last table index the handler
and `lums_serverSaveClientInfo` used), `rxCount` (data messages per client),
`lastSaved`, `dirty` (address changed since boot or save), and the bounds
counters `cmds`, `rxs`.

The session runs before `demo_lumsInit`, whose `memset` of the client table
writes the zeros the boot already holds. `bsp_infoFlashInit` and
`bsp_uartInit` are assumed to succeed: the `EMB6_ASSERT_RET` paths are not
modelled.

Bounds: client address words {0, 1} in the passing run and {0, 1, 2} in
`lums_index`. 0 is a value the address word can take (`mac set 0000`), and
it is also the free-slot marker of the table; commands `s`, `gi`, `exit` with parameters {0, 1} ({0, 1, 2}
in `lums_index`); up to two `c` lines and two messages per boot; one
non-default MAC value. Resets may happen at any step.

`lums_menuInit` registers the UART interrupt (line 229) before it builds
the menu and prints the title, and `lums_menuRun` clears `lumsMenuCfgDone`
only after that (line 316). A `c exit` completed in between is lost:
`lums_menuRun_start` overwrites it, and the session runs until the timeout.
The model has no clock, so this delay is a hazard with no property.

`ClientTableSound` (the `lums_index` run) joins `ClientIdInTable`, which
says every index used into `s_clients` is inside the table, and
`RxCountsMatch`, which says each client has at most one slot and a slot's
`numRxMsg` is the number of data messages its client sent.

The specification keeps weak fairness of `lums_menuRun_start`
(`demo_lumsConf` goes on from `lums_menuInit` to `lums_menuRun`), of the
timeout (the tick counter keeps running) and of `lums_cmdHandler` (the event
loop keeps dispatching). Resets, typing and radio messages get none. The
LUMS runs check invariants only, so the fairness does not affect them.

The CLP runs need no fairness: they check only invariants, and the CLP is
driven entirely by its caller.

### `lums_client` (client build)

| Code | Model |
|---|---|
| `gs_lumsCtx.ss1`/`ss2`: `wrPtr`, interrupt registered with `rxCb` | `ss[s].wrPtr`, `ss[s].irq` |
| `gs_lumsCtx.ssTxInterval`; the interval stored in `ssTxTmr` | `ssTxInterval`, `ssTxTmr` |
| UDP datagrams between the two builds | `net`, a set: delivery in any order, `udp_lose` drops one |
| `demo_lumsInit` (client half) | `Init` |
| `lums_clientReadSensor1Data`/`2Data` (UART interrupt) | `lums_clientReadSensorData(s)` |
| `lums_clientReadSensorTimeout`, `lums_clientSendSensorData` | actions of the same names |
| `lums_clientTx` | `lums_clientTx(m, routed)`: sent only with a global address and a DAG |
| `lums_clientRx` | `lums_clientRx(m, routed)`; `ApplyIntervalSet` is its `interval_set` branch |
| `lums_cmdSetInterval`, `lums_cmdGetInterval` | server actions of the same names |
| `lums_serverRx`'s time check and `lums_cmdSyncTime` | `lums_serverRx(m, sync)`, `lums_cmdSyncTime(rest, y)` |
| `lums_clientSyncTime` with `lums_readTime`, `bsp_rtcSetTime` | `lums_clientSyncTime(y)`; `rtc` is the client's clock |

Abstracted data: the sensor bytes (the sensor value is the constant 299)
and message formatting. A message is its type and, for `interval_set`,
`sync` and the `interval_get` reply, its number. A clock is its year. The
other five fields of a time stamp end at a `:` and are read exactly. The
year is the last number in a sync datagram, so it is the one the missing
terminator can extend. The server's `strncmp` of two `en_hal_rtc_t`
structures depends on their layout and padding, which are outside `src/`.
So after a data message, a sync may or may not be sent. The
missing terminator (finding 8) is modelled by what the parse can produce:
`ParsedNumber(v)` is `v`, or `v` with one more digit from `StackDigits`.

Bounds: intervals {1, 2} sent by the server, initial interval 15, server
year 17, client RTC year 0 before any sync, one possible stack digit (7). The buffer size stays at the code's 5, so every
wrap is reached. In-flight messages form a set, which bounds the state.
This run needs no fairness: it checks invariants only.

## Findings

1. `clp.c:932` — backspace writes the terminator at the write index (the
   free slot) instead of at the last character, then decrements the index:
   `m`, backspace, Enter hands `"m"` to the parser.
2. `clp.c:279` — a line of spaces passes the `strlen` test but has no
   token; `strcmp(p_args[0], "..")` dereferences NULL.
3. `clp.c:591` — `clp_menuPrintHelp` starts a help text at the longest
   command's length plus 3 (plus 2 more for a child). With a command of
   76 characters (74 for a child) that is `CLP_PRINT_MARGIN-1`. The hyphen
   branch then prints 0 characters of the text, and the loop prints hyphens
   forever inside the UART interrupt. `clp.h` sets no limit on a command's
   length.
4. `clp.c:847` — `pfn_menuCallBackCtx` is never reset; after `clp_init` an
   entry re-added as a menu keeps a stale context call-back.
5. `lums_menu.c:184` — every `c` command is posted as a pointer to the one
   static `s_lumsCmdObj`; a later `c` line overwrites it before the event is
   handled (always so during the configuration session, when no event is
   handled), and the handler executes the later command, or drops it as
   unknown.
6. `demo_lums.c:342` — a third client finds the table full; the address is
   written to `s_clients[255]` and 255 is used as the client id.
7. `demo_lums.c:742` — `lums_cmdHandler` uses the typed client id without a
   bounds check.
8. `demo_lums.c:597` — both builds send `olen` bytes, the length `sprintf`
   returned, which leaves out the terminating NUL. `lums_clientRx` (and
   `lums_serverRx`) copy exactly `len` bytes into an uninitialized stack
   `buffer[128]` and then parse it as a string. Digits left on the stack run
   on after the payload: `interval_set 1` can set the interval to 17, and a
   sync can set year 17 to 177. The unit tests C1 and C2 pass
   `sizeof(msg)`, which includes the terminator, so they do not see this.
   `AppliedAsSent` covers both: the client's interval and its RTC year are
   values the server sent.
9. `demo_lums.c:330` — `lums_serverSaveClientInfo` matches the sender's
   address word against every slot before it treats 0 as free. A client
   whose word is 0 matches a free slot: it is counted there, but its address
   is not stored. The next new client takes the slot and inherits the count.

Not checked by a run: `clp_menuSetCtxBasedCB` returns 0 in every case,
although `clp.h:238-239` promises -1 for an entry not in the list. No caller
reads the result.

## 4. Not modelled (yet) and why

* The PHY, frame parser, DLLC, packet buffer and event process are outside
  `src/`; they appear only as nondeterministic results.
* The rest of CLP printing (`clp_printFormatted`, `clp_output`, prompt,
  title) is formatting to the UART; it changes no state the parser reads.
  `clp_printHelp` is modelled (its line layout) at offsets up to
  `CLP_PRINT_MARGIN-1`. Larger offsets wrap the unsigned length, and the
  help string is read past its end.
  Two defects in that printing are listed as hazards only:
  - `clp_output` sends `vsnprintf`'s return value as the length, which
    reads past `buf[250]` for longer output. This is reachable:
    `demo_lums.c:84` defines `DBG_PRINTF` as `clp_output`, and line 607
    prints the received payload, whose length the sender chooses. Output
    text is outside the models, so no property covers it.
  - `clp_printFormatted` counts a negative fill down through the whole int
    range for a `$center` line of 82 or more characters. The LUMS title has
    no `$center` line, so this one cannot be reached from `src/`.
* `clp_echoEnable` and `clp_setTitle` only store the echo flag and the
  title pointer, which decide what is printed and nothing else. This is why
  the CLP component is marked partly modelled, together with the
  `CLP_SORT_ALPHA TRUE` insertion, which no build in `src/` selects.
* `thread_conf.h`, `tcpip.h`, `demo_sniffer.h`: constants and prototypes.
* The PHY's attributes in the packetbuf store are the constant `PhyAttrs`
  (a 2.4 GHz O-QPSK PHY, the values of the example in spec.md). Whether
  the PHY rewrites the symbol period on a mode change is decided outside
  `src/`. `mac_csma`'s `delay` counts unit backoff periods. The
  attribute width of packetbuf (also outside `src/`) is not modelled.
* `cc112x_frontend.c` is stateless: `cc112x_frontend_opModeSel` writes one
  constant row of a 5 × 3 table to three GPIOs. Nothing reads the pins
  back, and no control flow depends on them. A model could only restate the
  table, and no property could check it against anything but itself.
* The LUMS time sync (`demo_lums.c:412-421`) compares the two
  `en_hal_rtc_t` structures with `strncmp`. Between 00:00 and 00:59 both
  start with a zero byte, so `strncmp` reports them equal and no sync is
  sent, however far the client's minutes or date are off. It also compares
  padding bytes. `lums_client` abstracts the RTC values, so no run checks
  this; it is listed as a hazard.
* The client's sensor reading period: a timeout re-registers the interrupt
  without resetting `wrPtr`, so a period with fewer than five bytes leaves
  the next one starting mid-buffer. Nothing reads the buffer (the sensor
  value is the FIXME constant 299), so no property depends on it yet.
* `lums_cmd*` builders and `lums_serverRx`'s replies: UDP payload layout,
  sent through the stack outside `src/demo`.
