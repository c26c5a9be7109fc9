# TLA+ verification of WallaBMC

WallaBMC is a baseboard management controller: firmware on the Zephyr RTOS that
logs and forwards a host's serial console, switches the host's power, keeps a
configuration in flash, and offers a shell, a web interface and Redfish. This
directory holds TLA+ models of the parts that keep state, the TLC runs that check
them and TLAPS proofs about all of them. Paths below are relative to the repository
root (`src/...` in `PROJECT.json` is that root).

To check everything: `tlc -config X.cfg M` for each run of `PROJECT.json`, and
`tlapm M.tla` for each of the eight modules `*Proofs.tla`.

## Inventory

| Part | Source | State | Operations | Talks to |
|---|---|---|---|---|
| Console logger, receive | `src/console_logger.c` | ring, `allocated`, `received` | UART callback events, `host_console_read`, `host_console_seek_end` | UART DMA, both bridges, events |
| Console logger, transmit | `src/console_logger.c` | `tx_buffer`, `tx_sem` | `host_console_write`, TX_DONE | both bridges |
| Events | `src/synch.c` | one `k_event` | post, wait-and-clear | UART callback, both senders |
| Telnet bridge | `src/console_bridge.c` | `active_client_fd`, `new_client` | daemon thread, sender thread | log, events |
| Websocket bridge | `src/console_bridge_ws.c` | `fds[0].fd`, `new_client` | HTTP upgrade, socket service, sender thread | log, events |
| Configuration | `src/config.c`, `src/fs.c` | `config_data`, flags, NVS records | setters, `config_init`, `config_clear` | shell, Redfish, boot, button |
| Network interface, DHCP | `src/net.c`, `src/dhcp.c` | Zephyr's interface: two address slots, gateway, DHCP client | `net_init`, host name, static address, start, stop and restart of DHCP | config, boot |
| Clocks | `src/rtc.c` | RTC, system clock, one static `tm` | `rtc_init`, set from a DateTime, set from NTP | Redfish, NTP, boot |
| NTP | `src/ntp.c` | started, synced, interval, work item | handler, `start_ntp`, `stop_ntp` | config, clocks, work queue |
| Power and reset | `src/power.c` | pins, `system_power_state` | on, off, reset, `power_init`, `reset_init` | shell, Redfish, boot |
| JTAG | `src/jtag.c` | three output pins and their cached values | daemon thread, commands of one client | TCP clients, host's TAP |
| Button | `src/button.c` | two work items | interrupt, two handlers | config, work queue shared with NTP |
| Redfish | `src/redfish.c` | one `user_data` per resource, a 2 KiB heap | `redfish_handler` | HTTP server, config, power |
| Boot | `src/main.c` | `boot_finished` | initialisation order, reboot | all |
| HTTP | `src/http.c` | sessions of a websocket being upgraded | authentication | websocket bridge |
| Web resources, sensors, VPD, certificates | `src/*.c` | none that an operation changes | | |

What is hard here is that nearly nothing takes a lock. The UART callback runs in
interrupt context and its DMA writes the ring while readers copy from it. Telnet
has two threads, the websocket three, that share a descriptor and a flag. The
shell and the HTTP thread both call the setters and the power functions, and a
setter changes RAM, a running service and the flash in several steps. One work
queue runs the button and a network query that lasts seconds. The boot goes on while
what it has started already answers, and may end half way. Flash writes fail,
and power is lost between any two steps. A body arrives in pieces, and all
resources share a heap with a wait that nobody else can end.

Correct means, part by part: a reader of the log gets the host's bytes, and only
skips overwritten ones; no sender sleeps over unread output; a connected client
is served and a lost one closed; a setting that was accepted survives, and the
interface, NTP and the clocks do what it says; the reported power state is what the
pins say, the host comes back as the restore policy has it, a reset ends; a JTAG
client's bits are on the lines when TCK rises; NTP that is stopped is silent and NTP
that runs goes on; the configuration is cleared when, and only
when, the button is held; a request handler sees exactly its own body, gives its
buffer back, and answers.

## Modules

| Module | Models |
|---|---|
| `HostLog` | abstract: a numbered stream that keeps its last bytes, and cursors |
| `ConsoleLog` | the receive ring with the UART driver and DMA; implements `HostLog` |
| `ConsoleTx` | the transmit side and its two writers |
| `Events` | the `k_event` object |
| `ConsoleShared` | `HostLog`, which overwrites, and `Events` as the bridges use them, and the wake-up properties |
| `ConsoleBridge` | the telnet bridge |
| `ConsoleBridgeWs` | the websocket bridge |
| `HostConsole` | both bridges over one log and one event object |
| `Config`, `MCConfig` | `config.c` on `fs.c` on NVS; `MCConfig` chooses the settings |
| `Settings` | the threads that call setters, and the way a call runs through one |
| `Net`, `Clock`, `Ntp` | the interface and DHCP, the two clocks, NTP: the services and the setters that act on them, over `Settings` |
| `Services` | these three with the shell commands and Redfish PATCHes that call them |
| `Power` | power and reset control |
| `JtagWire` | abstract: lines driven for one client at a time, sampled by the host |
| `Jtag` | the JTAG daemon with its cached pins; implements `JtagWire` |
| `Boot` | `main` from reset to reset, over `Power` and `Jtag` |
| `Button`, `Redfish` | the source file of the same name |
| `ConsoleLogProofs`, `ConsoleTxProofs`, `ConfigProofs`, `BootProofs`, `ButtonProofs`, `RedfishProofs`, `ServicesProofs` | theorems about the module of that name |
| `HostConsoleProofs` | theorems about each bridge alone and about both together |

`PROJECT.json` maps every definition to the lines it stands for. Where a module
has program counters (`tpc`, `dpc`, `wpc`, `op`/`at`, `todo`/`pc`, `call`), a step is the code
between two accesses to shared state, so that every interleaving of those accesses
is a behaviour. Steps that are one in the model although they are several lines
are those under `rx_lock` with interrupts masked, in interrupt context, or of a
thread nobody else shares data with. Names starting with "Mutation of" in a
comment are broken variants of the definition that follows, used to show that the
properties notice.

External parts, modelled from the way the code uses them: Zephyr's UART driver
(two buffers, events), the delayable work items and the queue, NVS (atomic
durable writes, a write of no bytes deletes, clearing unmounts), sockets, the
network interface and its DHCP client (which may get and lose a lease at any time),
and the HTTP server (one thread; a resource is held by one client; a clean-up call
after each transaction). `Redfish` models `sys_heap` by placement: a block starts
at the front of a gap that holds it. Its 248 units are what remains of 2048 bytes
after the heap's own header; the finding below holds for any value up to the full
256.

One thing may be in two modules, each with the detail its properties need. `Config`
has the flash and the retries; for `Settings` a write succeeds or fails, and for
`Boot` the one setting that is read at boot is saved if the file system is mounted.
`Button` has the ticks of the button's two work items; `Boot` has their effect.

The bridges read `HostLog` and not the ring: `oldest` moves on at any moment, to one of
the places in `Chunks`, as long as the last `Keep` bytes stay, and a reader that was
overtaken starts at `oldest` (`console_logger.c:162`). `ConsoleLog` implements this for as
many faults as `ReadersBehindFewFaults` allows. With more of them a cursor may pass
`received` and a read return -EINVAL (`console_log_read`, and the senders' error paths at
`console_bridge.c:58` and `console_bridge_ws.c:140`), which the bridges do not have.

## Runs

Passing runs, with the bounds and why they are enough:

* **ConsoleLog**: ring of 14 in chunks of 2, one reader whose buffer takes 1 or 3,
  30 bytes and two faults (driver stops, refused starts or a refused buffer). 30 bytes
  are more than two laps, so reads wrap and the reader is lapped by the DMA; 2 faults
  leave up to six chunks behind, which the share of 7 still covers. The DMA stays in
  the ring, the cursor stays behind `received` while the faults are few for the ring,
  what is in flight is bounded per fault, the ring implements `HostLog`, and until the
  first fault a reader gets the host's bytes and none the DMA may be writing.
* **Telnet**: two clients, so one can be replaced; two bytes, read together or
  apart, of which the log keeps one for sure. No lost wake-up, no closed descriptor in
  use, output in order, every client caught up with, every lost connection closed.
* **Ws**: two clients and three bytes (a gap needs three), of which the log may give up
  the first two at any time once the third is there, with partial sends, sends that
  fail, poll errors, failed authentications and replaced connections: no lost wake-up,
  no byte skipped that the log still had, all the history it keeps for the active
  client, and an HTTP thread that is never held up for ever.
* **ConsoleTx**: two writers, writes of up to 3 with a buffer of 2, so writes in
  one and in two chunks; one transmit error.
* **Config**: an address, a flag and a string setting, a string that fits its field and
  one that `strlcpy` cuts to the first, two callers with two calls, four EIO errors (one
  more than `fs.c` retries away) and a loss of power or reboot anywhere, on a blank, an
  outdated and a current flash. An accepted setting is in flash, as its field holds it,
  and is loaded again, a clear is not undone, fewer errors than the retries are
  invisible. With a second address (`TwoAddresses`) all five hold as well, which takes
  `MaxErrors = 1` to check in minutes; the theorems are for any number. A caller is
  promised nothing if another call sets the same thing, or any address while it sets
  one.
* **Services**: two calls, of which a PATCH is several settings, and one failing
  operation, with any DHCP server, NTP server and initial settings. Two calls are
  what it takes for one to meet another or to build on what it left. `about` splits
  the behaviours in those that change the interface and those that change NTP and
  the clocks: the two share no state, so their product would add no behaviour of
  either. If no two calls overlapped, the interface, NTP and the clocks agree with
  the settings once they are done. Every call returns, also when two overlap, unless
  these initialise NTP's work item while it is in use (`corrupt`); nothing is said of
  the kernel after that. `overlapped` and `apart` are history variables that name
  the behaviours in which the code keeps less; the table below says how much less.
* **Boot**: two power pins, with and without reset pin, any restore policy, two
  commands or one command and a reboot, two JTAG clients, one failing stage or GPIO
  error. The restore policy's setter changes RAM and flash in two steps, between which
  everything else may come. `Bounded` keeps power commands and JTAG clients, which share
  only the boot, out of each other's behaviours. The reported power state is that of the
  pins, the host comes up as the policy says that was set when a setter last returned 0
  with the file system open and no other setter between RAM and flash, a reset ends, and
  the cached pins implement `JtagWire` over two clients and a reboot.
* **Button**: debounce 2 ticks, hold 4, any presses, bounces and releases, with NTP
  on the queue, from a button that is up or down when the BMC starts; `stalled` records
  whether the queue was ever late. `button_init` does not read the pin, so `HeldClears`
  is about a button that was seen up once.
* **Redfish**: two clients, two resources, bodies of up to 3 pieces where 2 fit,
  three requests, one password change.

The type invariants of `ConsoleTx`, `ConsoleBridge`, `ConsoleBridgeWs`, `Config`,
`Power` (`PowerTypeOK`) and `Redfish` hold in these runs as well when added to them.
Those of `Config`, `Power` and `Redfish` are proved; the others are kept as
documentation.

Deadlock checking is off where the system may rest: when the bound on bytes,
calls, requests or commands is used up nothing need happen.

Fairness: threads run (weak fairness of each thread's steps: Zephyr schedules them
by priority and they all block in the kernel), a peer takes what is sent or goes
away (TCP times out), a network query ends (`sntp_query` has a timeout), the wait for
a websocket's authentication ends (`http.c` gives it three seconds), a delayed
reboot comes, time passes. Clients, the host, DHCP servers, commands, faults and
presses have none. In `Redfish` a client that opened
a request goes on sending it (strong fairness, as the server takes one client at a
time), which is the assumption under which an answer can be expected at all.

Three runs end in a violation; `PROJECT.json` quotes the text each one disagrees
with under "findings":

| Run | What happens |
|---|---|
| ConsoleLogRestart | after the UART stops, reception goes on at `allocated` while readers go on at `received`: readers get bytes of slots the DMA did not write |
| HostConsoleWakeup | one sender takes the event bit both need; the other sleeps over unread output until more arrives |
| RedfishHeap | a body half received in the middle of the heap leaves no gap for a GET; the HTTP thread waits for space only it can free |

## What the code does not give

The modules also state properties that one would want and that the code does not
have. They are outside the runs; each fails when the configuration named here checks
it with the constants changed as said (`SomeKeys` and `TwoAddresses` are in `MCConfig`).
`Durable` and `DmaInBounds` hold in their runs and fail for the values given here.

| Property | In | How it fails |
|---|---|---|
| `TelnetOnlySubsequent` | `Telnet.cfg` | `new_client` is tested before the read and the descriptor loaded after it (`console_bridge.c:53`): a client accepted in between is sent output from before its connection |
| `TelnetServed` | `Telnet.cfg` | the sender's error path (`console_bridge.c:73`) shuts down and clears the descriptor that the daemon just installed; the new client gets nothing |
| `WsExactHistory` | `Ws.cfg` | a piece read for the previous client is sent to the new one before its history (`console_bridge_ws.c:134`), so it gets that piece twice |
| `WsOneConnection` | `Ws.cfg`, three clients, `MaxBytes = 1`, `Chunks = {}` | the sender ends a failed connection and resets `fds[0].fd` (`console_bridge_ws.c:52`) just after the HTTP thread has set it to the next client, whose connection stays open, not served and not kicked out by the one after it |
| `WsNothingMissed` | `Ws.cfg` | a client takes its bytes so slowly that the log overtakes it: the next read starts at the oldest byte kept (`console_logger.c:162`) and nothing tells the client |
| `ReadersBehind` | `ConsoleLog.cfg`, `LogSize = 8`, `RxBufShare = 4` | every restart moves the oldest readable byte towards `received` and, after as many as there are chunks for, past it (`console_logger.c:159`): a reader is put there (`console_logger.c:163`) and then gets -EINVAL until the host has sent as much; with the code's 16 chunks it takes more than seven faults |
| `InFlightBound` | `ConsoleLog.cfg` | each restart allocates again (`console_logger.c:104`) where the comment speaks of two chunks; `InFlightPerFault` is what holds |
| `DmaInBounds` | `ConsoleLog.cfg`, `LogSize = 17` | the last chunk runs past the array; `Kconfig` admits such sizes |
| `DurableWhileUsable` | `Config.cfg`, `SomeKeys` only flags, `FlashErrors = {"ENOSPC"}` | the flag setters return 0 when RAM has the value already: after a write that failed, at boot or in an earlier call, they report success with nothing in flash |
| `Durable` | `Config.cfg`, `AllowEmpty = TRUE` | a write of no bytes deletes the record; the default is back after a reboot |
| `DurableExact` | `Config.cfg` | a host name of more than 20 or an NTP server of more than 40 characters is cut (`config.c:199`, `config.c:536`), saved, and the setter returns 0 |
| `AddressAsAsked` | `Config.cfg`, `Keys <- TwoAddresses` | both callers' addresses pass through one static `in_addr` (`config.c:254`): one caller's gets into the other's setting |
| `UpgradePersists` | `Config.cfg` | on an outdated flash `config_clear` at `config.c:775` leaves the file system unmounted, so the version cannot be written; nothing is saved until the next boot |
| `DhcpFollowsSetting` | `Services.cfg` | two threads switch DHCP in opposite directions: one's setting is last in RAM, the other's call is last to reach the client (`config.c:428`); or the host name's setter has asked for the setting (`net.c:36`) and restarts the client another thread has just stopped |
| `LeaseKeepsGateway` | `Services.cfg` | the setters of the static address set the gateway (`net.c:62`) whether or not a lease has set it |
| `DefaultAddressWithoutLease` | `Services.cfg` | a lease takes the slot of the static address; when it is lost nothing puts the address back |
| `RtcAlwaysMatchesClock` | `Services.cfg` | a DateTime whose fraction is negative: the RTC is set (`rtc.c:118`) before `sys_clock_settime` refuses it; without such a DateTime, an NTP answer between the two settings of a PATCH leaves each clock with another's time |
| `PatchIsExact` | `Services.cfg` | a fraction is read as a number (`rtc.c:94`), so .05 s becomes 500 ms |
| `NtpAlwaysFollowsSetting` | `Services.cfg` | two overlapping calls (`config.c:488`): a stop finds `ntp_started` not yet set by a start that has scheduled the work already, and NTP runs against the setting |
| `KeepsSyncing` without `overlapped` | `Services.cfg` | a call that restarts NTP has scheduled the work (`ntp.c:159`), one that stops it cancels it, and the first then sets `ntp_started`: nothing is scheduled and a later start does nothing |
| `PolicyInRamIsSaved` | `Boot.cfg` | in the 100 ms after `bmc_reboot` has closed the file system a setter changes RAM (`config.c:648`), cannot write and returns an error; when it is called again it finds its value in RAM and returns 0 with nothing in flash |
| `StateIsTrueAfterBoot` | `Boot.cfg` | two overlapping commands (`power.c:52`): the pins of one, the state of the other |
| `ReportedStateIsTrue` | `Boot.cfg` | a shell command before `power_init` (`power.c:115`) |
| `ClearedOnlyIfHeld` | `Button.cfg` | an NTP query (`ntp.c:100`) delays the handlers; a release and a new press in that time pass for one hold |
| `HeldFromStartClears` | `Button.cfg` | the button is down when `button_init` arms the edge interrupt (`button.c:75`) and is not released: there is no edge, and nothing reads the pin |
| `ResyncsEverySixHours` | `Services.cfg` | each query first sets the interval to a minute (`ntp.c:129`) and only the first answer lengthens it (`ntp.c:131`): from the second query on it is a minute |
| `ClearedBeforeComplete` | `Redfish.cfg` | a password change between two pieces (`redfish.c:275`): the transaction completes with the buffer allocated; the server's clean-up call frees it |

With one client (`Clients = {c1}` in `RedfishHeap.cfg`) `Answered` holds: the heap
is only in the way when two bodies are received at once.

## Proofs

A theorem holds for every value of the constants that satisfies the named
assumptions of its module: any number of clients, writers, pins, callers, calls and
failures, any size of a buffer. None of the properties below is inductive as it
stands; each proof module starts with the invariant that is, which TLC has checked
on the instance of the run before it was proved. The proofs have one step per action.

`ConsoleLogProofs` (`SizeAssumption`, `BoundAssumption`):

* `TypeCorrect`: `TypeOK`.
* `InFlightPerFaultHolds`, and `InFlightBoundHolds` without faults. The bound on
  `allocated - received` is not inductive: a chunk reported in part, a queued
  chunk and a stopped driver each change what is owed. `InFlightInv` says it per
  driver state, counting reported bytes of the active chunk.
* `ReadersBehindHolds`: in any behaviour, a cursor is behind `received` in every state
  reached with at most `RxBufShare \div 2 - 1` faults, seven with the code's 16. After
  more the start of the window may pass `received`, as the table above shows.
* `HostLogRefined`, the refinement of `HostLog`, when no behaviour has more faults than
  that (`2 * (1 + MaxFaults) <= RxBufShare`).
* `DmaInBoundsHolds`, when the ring is a whole number of chunks (`Aligned`).
  `BufferInv` says that `allocated` is a multiple of the chunk and that the active
  and the queued buffer are consecutive multiples, modulo the ring; the rest is
  arithmetic of remainders (`ChunkSlot`, `NextChunkDiffers`). The assumption is
  needed: the table above has the counterexample.
* `ReadsUntilFaultHolds` and `ReadAvoidsDmaHolds`, with `Aligned`. `StreamInv`: while
  nothing failed the active buffer is the chunk the host's next byte belongs to, and
  the ring holds the last lap of what was sent, each byte in the slot that
  `console_log_read` computes from its position.

`ConsoleTxProofs` (`TxAssumption`): `TxBufferStableHolds`, `WireInOrderHolds`,
`NothingDroppedHolds` and `SemaphoreNotLost`. `BufferInv` says who has the buffer:
nobody (the semaphore is free), one writer, or the UART. `StreamInv` is about the
sequence of everything given to the UART: each writer's bytes in it are in order and
below what the writer has got past, and without an error they are all of those.
`SemaphoreNotLost` is the safety half of `WritesEnd`: a semaphore that is taken has
somebody who will give it.

`HostConsoleProofs` (`SharedAssumption`, `TelnetAssumption`, `WsAssumption`):

* `ActiveNotClosedHolds`, telnet: `DescriptorInv` ties `active_client_fd` to the
  daemon's local descriptor, which it closes only in a state where the former is -1.
  `TelnetNoLeak`: the connections that are open are the one the daemon serves.
* `NoLostWakeup`: with telnet as the only sender it never sleeps over unread
  output. `WakeInv` covers the window between the empty read and the wait: if
  output arrived there, the event bit is still set.
* `TelnetInOrderHolds`: `OrderInv` says that what any client got lies before the
  cursor and, while a read is on its way, before that read. It speaks of all clients,
  for the descriptor may change under the sender.
* `WsNoGapHolds`, for a log that gives up old bytes in any chunks at any time:
  `WsOrderInv` says that what the sender has in hand, or reads next, follows what the
  active client got, or lies where everything between the two is gone. It rests on
  `ConnInv`: a client whose credentials are checked has got nothing, and a descriptor
  that changes under a send names a client that has got nothing; and on `Failing`: after
  a send that failed the sender is on its way to end that connection.
* `WsNoLostWakeup`, the websocket alone, and `OneSenderAwake`, both senders. With two
  of them the event bit is no witness, as either may clear it. `AwakeInv` says that
  some sender looks at the log again: whoever clears the bit does.
* `NoClientOverlooked`: a sender that saw no client and waits for one is woken by the
  next, with both bridges running. Each bridge has an event bit of its own for this,
  which only its own sender clears; `TelnetToldInv` and `WsToldInv` say that a client
  installed after the sender looked has its bit set or not yet posted, and `WaitsInv`
  that a sleeping sender waits for that bit. Run HostConsoleWakeup shows that nothing of
  the kind holds for the bit the two share.
* `BridgesKeepApart`: `TelnetInOrder`, `WsNoGap` and `ActiveNotClosed` hold of both
  bridges together as well. The steps of one bridge are cited from its own lemmas, and
  those of the other leave its invariant alone.

`ConfigProofs` (`ConfigAssumption`), for any settings of the three kinds, callers,
calls, errors, restarts and initial flash:

* `ConfigTypes`. `TypeInv` adds to the types where in its setter a caller can be.
* `ClearedSafe`: `WipedInv` says that after a clear the file system stays unmounted
  until the next boot, whose writes `BootInv` limits to defaults.
* `RamFlashSafe`: not inductive, as a setter changes RAM before the flash. `SyncInv`:
  where the two differ, somebody is between the two (`Owed`). This holds for flags
  too, whose setters may return early.
* `SettingsKept`, `DurableSafe` and `ReloadedSafe`. `PromiseInv(K)` is about a set
  of settings: how far a call that no other disturbed has brought its value, through
  the parser's variable into RAM and into flash (`Brought`), and that a promised value
  is in flash and, once loaded, in RAM (`PromiseOf`), each as its field holds it
  (`Field`: host names and NTP servers are cut). A call is disturbed by one that sets the
  same thing, and a call for an address by one for any other. `SettingsKept` has no
  condition on the constants; it leaves out the empty string, which deletes its record.
  The other two are the run's properties, for callers that pass none
  (`AllowEmpty = FALSE`). The table above has the counterexamples to what they leave out.
* `RetryHidesSafe`, for a flash that fails with EIO only, the error that `fs.c` retries.
  `TryInv`: every retry has counted an error, whichever other threads met errors too.

`ButtonProofs` (`ButtonAssumption`): `HeldSafe`, for any debounce and hold time and any
bouncing. `QueueInv` says that a work item waits for its time or in the queue, and
there once. `HeldInv`: the reset timer has not run for longer than the button has been
held, and if the button is up while a reset is on its way then `button_work`, which
will cancel it, comes before the release is long enough to count (`ReleaseSeen`).
`InTime` claims this only while the queue has never been late (`stalled`).

`BootProofs` (`PowerAssumption`):

* `PowerTypes`. `StageInv` says which stages of the boot start what.
* `SequentialStateIsTrueHolds`: while a thread drives the pins in turn the reported
  state is wrong; `SequentialInv` says that the pins it is past have its level and
  that only one thread is at work, and what holds before `power_init`.
* `RestorePolicyAlwaysHolds`: `SavedInv` (the flash has the policy that was last accepted,
  RAM has it too while the file system is open and no setter is between the two, and
  nobody can set it before it was read) and `RestoreInv` (what `power_init` has made of
  it, pin by pin).
* `JtagWireRefined`: `JtagInv` says that a cached value is unknown or the level of
  its line, and that a line is driven exactly while there is a client.

`RedfishProofs` (`RedfishAssumption`, and `NoneAssumption`: the value for "no request"
is no request): `RedfishTypes`, `BodyIsWholeHolds` and `BuffersOwnedHolds`. `HolderInv`
ties a resource to the one client whose request has reached the handler, `BodyInv` says
that between two calls its buffer has exactly the pieces that client has sent, and
`HeapInv` that the blocks in use are those of the resources in use, apart from each
other. `OneClientNeverWaits` follows: with one client no other resource holds a block, so
the wait of run RedfishHeap takes two, whatever the sizes.

`ServicesProofs` (no assumptions on constants): `NtpFollowsSettingHolds`,
`InitOnlyIdleHolds`, `AsksCurrentServerHolds`, `RtcMatchesClockHolds` and
`InterfaceFollowsSettingsHolds`. The properties speak of a system in which no call is
running, so the invariant has to say what each service is at every place of every
setter. `CallInv` says where a thread can be; it makes a step of one setting one that
leaves the invariants of the others alone (`NtpFrame`, `RtcFrame`, `DhcpFrame`,
`AddrFrame`). `NtpInv` and `RtcInv` include the synchronisation, which may be anywhere
when a setter comes; `SlotInv` and `AddrInv` include leases that come and go while the
address is being replaced. As in the properties, `overlapped`, `apart` and `errors` say
where nothing is claimed: the table above shows that the code keeps less there.

Only model-checked are the liveness properties `TelnetCatchesUp`, `TelnetCloses`,
`WsAllHistory`, `HttpReturns`, `WritesEnd`, `KeepsSyncing`, `CallsEnd`, `ResetEnds` and
`HeldClears`: fairness is outside the prover. Every safety property of a passing run is
proved.

## Not modelled

* Web resources, sensors, VPD and certificates: static data, or reads for one
  response; nothing they do changes what another operation sees.
* The HTTP and HTTPS service tables and the registration of TLS credentials are
  calls of Zephyr. Of `http.c` the authentication of a websocket is modelled.
* Of Redfish the JSON descriptors and the response bodies. An empty list of NTP
  servers passes a NULL name on (`redfish.c:1278`) and a PATCH that does not name a
  field may use what the stack holds (`redfish.c:937`): what the C library does then
  is not something a model can say, so they are hazards without a property. That a
  password's failure is ignored (`redfish.c:805`) is left out with the answers.
* Of the network the DNS server. Of JTAG the reads of TDO, which change nothing, and
  a client that keeps its connection and stays silent: it holds the port, for there
  is no keepalive, and no property says otherwise.
* Of the boot `bmc_poweroff`, after which there is nothing, and the status LED. The
  HTTP server runs before `console_bridge_ws_init` (`main.c:258`); `Boot` has that
  window, but what ending descriptor 0 does is Zephyr's.
* The BMC shell's own websocket is Zephyr's shell backend.

## What could come next

* The type invariants of `ConsoleTx` and the two bridges as theorems.
* What a call in `Services` still guarantees when another overlaps it. The proofs
  claim nothing there and the table above lists what is lost.
