# TLA+ models of the MediaTek daemons of this OpenWrt tree

The repository is an OpenWrt SDK for the MT7628. Most of it is OpenWrt itself
and vendored packages. The code of its own is under
`openwrt-sdk/package/ramips/applications`: a family of daemons between the
wireless driver and the network, and some tools. This project models the five
programs there that have protocol, timer or storage logic: `8021xd`, `bndstrg`,
`nvram`, `mtkiappd` and the key negotiation of `wapid`.

Paths below are relative to `openwrt-sdk/package/ramips/applications`.

## 1. Inventory

### 8021xd, the core

A single-threaded daemon around a `select` loop. Supplicants talk EAPOL to it
through the wireless driver, it talks RADIUS to servers, and the driver tells it
of stations that have gone and of new configurations.

| component | state | operations | hard behaviour |
|---|---|---|---|
| RADIUS client, `radius_client.c` | `msgs` (retransmission list), `num_msgs`, `next_radius_identifier`, the server in use per BSS | `Radius_client_send`/`_list_add`, `_get_id`, `_receive`, `_timer`, `_flush`, `Radius_change_server`, `Radius_retry_primary_timer` | retries against late answers, failover of several BSSs in one callback, identifiers that wrap around, a counter kept apart from the list |
| EAPOL state machines, `eapol_sm.c` | four coupled machines per port, four one-second timers | `eapol_sm_step`, `eapol_port_timers_tick` | many flags pending in one step, states that re-enter themselves, a loop that must end |
| handlers, `ieee802_1x.c` | per station: `last_recv_radius`, `last_eap_supp`, `radius_identifier` | `ieee802_1x_receive`, `handle_eap_response`, `ieee802_1x_receive_auth`, `ieee802_1x_encapsulate_radius` | replies to an exchange that is over, duplicate responses |
| station table, `sta_info.c` | `sta_list`, `sta_hash`, `num_sta`, the session timer | `Ap_get_sta`, `Ap_free_sta`, `Ap_get_sta_radius_identifier`, `Ap_sta_session_timeout` | timeouts that outlive the station |
| event loop, `eloop.c` | sorted list of timeouts, readers, signal handlers | `eloop_register_timeout`, `eloop_cancel_timeout`, `eloop_run` | callbacks that register and cancel timeouts, signal handlers that run in the middle of a callback |
| daemon, `rtdot1x.c`, `config.c` | sockets, configuration | `Handle_read`, `Handle_reload_config`, `Handle_usr1` | reload while requests are outstanding |
| encoding, `radius.c`, `md5.c` | none | attributes, digests | none that a model checker reaches |

Interaction: a frame or a reply sets flags of a port and runs `eapol_sm_step`;
entering `BE_AUTH_RESPONSE` sends a request (which takes an identifier and adds
to the list); a reply is matched first with the list, by identifier, then with a
station, by the station's own copy of the identifier. The two copies are what
several of the findings below are about. The port timers and
`Radius_client_timer` are timeouts of the event loop.

What makes it correct: the list, its counter and its timer stay consistent; a
request is answered, given up or dropped; nothing is signed with a secret that is
no longer in use; a reply only reaches the station it is for; the port of a
supplicant is opened by the server's verdict on the exchange in progress and by
nothing else, closes on a logoff or a rejection, and does not stay open without
the server.

### bndstrg, band steering

A `select` loop around a netlink socket and a one-second timer (`bndstrg.c`). It
keeps a table of the clients the driver has heard on either band (a fixed array
threaded on hash chains, with a counter), decides once a second which client may
join on which band, ages entries out after asking the driver on both bands, polls
the interfaces until they are ready, and then switches steering on.
*Hard*: answers of the driver that arrive after the slot they are about has
another tenant; counters of retries that must end; decisions whose conditions
must leave no client without a band. *Correct if* table, chains and counter
agree, every new client is served, steering starts, and polling ends.

### nvram, the configuration store

A command line tool (`nvram.c`, `flash.c`); every call is a process that reads a
cache file in `/tmp`, changes one section, writes all sections back, and on
`commit` writes them to the flash, erase block by erase block. *Hard*: two
processes at once, a power loss anywhere, sections at their size limit.
*Correct if* it is a map with a volatile and a committed copy. The usage text
promises more of it than the code keeps: `loadfile` flushes not "into" the section it
is given but over all of them, read-only ones included, and stops at the first that does
not fit, with those before it replaced; `clear` does not reach the flash.

### mtkiappd, inter-access-point protocol

A `select` loop over its sockets (`rtmpiapp.c`) and a table of 802.11r clients
(`mt_iapp_util.c`). The driver signals associations; the daemons tell each other
by UDP broadcast and TCP, and have their driver drop a station that has moved.
They fetch PMK-R1 keys from the access point of the first association and forward
FT action frames. *Hard*: several daemons, datagrams lost and reordered, a
daemon that restarts while its driver does not, a full table. *Correct if* a
station that has settled is kept by one access point alone, the tables know
what the drivers have, and a key that is needed arrives.

### wapid, WAPI

Built like `8021xd`: certificate authentication and key negotiation, driven by
frames, by requests of the driver and by one retransmission timeout (`wapi.c`,
`main.c`, `mlme.c`, `sta_info.c`). *Hard*: lost frames answered by
retransmissions with new challenges; a retry counter that is also the state of the
handshake; timeouts that outlive their entry; updates of both keys at once.
*Correct if* both ends use the same keys when they are done, and a handshake goes
on or ends with the link.

### The other programs

* `btnd`, `watchdog`: small daemons around a GPIO signal and a hardware timer.
* `ated`, `nfc`, `handover`, `uci2dat`, `switch`, `hwnat`, `qdma`, `gpio`,
  `reg`, `mii_mgr`, `i2ctest`, `i2stest`, `pcmtest`, `mpstat`: tools that
  format text or perform one `ioctl`; there is nothing to model check in them.

The programs do not talk to each other: they meet in the driver, which each
model has its own external half of.

`PROJECT.json` lists every component with its status, and under `hazards` the
places in the modelled code where something can go wrong that a test would hardly
reach.

## 2. Modules

| module | models |
|---|---|
| `RadiusClient`, `RadiusClient_proofs` | the RADIUS client of `8021xd`, with the part of the station table and of the reload that it interacts with; its theorems |
| `EapolSm`, `EapolSm_proofs` | one port: the four machines of `eapol_sm.c` and the handlers that feed them; its theorems |
| `PortControl` | abstract: what the authenticator promises about a port |
| `StaTable`, `StaTable_proofs` | station table, event loop timeouts and reload of `8021xd`; their theorems |
| `BndStrgTable` | the client table of `bndstrg` as operators on a table |
| `BandSteering`, `BandSteering_proofs` | the daemon around it, with the driver's half; theorems about table and daemon |
| `Nvram`, `Nvram_proofs` | the `nvram` tool: processes, cache file, flash; its theorems |
| `NvramStore` | abstract: a store with a cache and a committed copy |
| `IappTable` | the client table of `mtkiappd` as operators on a table |
| `IappClients`, `IappTable_proofs` | that table under any sequence of arrivals and moves; lemmas about the operators and theorems |
| `Iapp`, `Iapp_proofs` | several daemons with drivers, stations and the LAN; their theorems |
| `Wapi`, `Wapi_proofs` | the key negotiation of `wapid`, both ends; its theorems |
| `MC...` | small instances for TLC |

### RadiusClient

`msgs` is a function from request numbers to entries. Requests are numbered in
the order they are sent and the code always adds at the head of the list, so the
list order is the descending order of the numbers and no sequence is needed. An
entry keeps the fields of `struct radius_msg_list`; times are relative:
`due` is `next_try - now` and `age` is `now - first_try`, both cut off where the
code cannot tell values apart. `timers[d]` counts the pending timeouts of
`Radius_client_timer` that expire in `d` seconds (there can be several: a list
that empties leaves its timeout behind). `server` is the index of
`mbss_auth_server` of every BSS, `conf` the secrets of the configured servers.

Each action is one callback, or the part of it that touches this state:

* `Send(s)` is `ieee802_1x_encapsulate_radius` to its end: the identifier, the
  removal of entries with the same identifier, the timeout of an empty list, the
  new entry and the eviction at the limit. `SendFail(s)` are its error paths.
* `Radius_client_receive(id, valid)` removes the entry and then routes the reply
  through `ieee802_1x_receive_auth`. What the port does about the reply happens
  in the same callback in the code, after everything here; in the model it is a
  `Send` or `Ap_free_sta` that follows. That adds behaviours and takes none away.
* `Radius_client_timer` is the whole pass: retransmit or give up every due entry,
  register the next timeout, then change the server of every BSS that fails
  over. `Radius_change_server` takes all the changes of one callback together:
  one change of secret drops the list whatever the others do.
* `Radius_retry_primary_timer`, `Handle_reload_config`, `Join`, `Ap_free_sta`.
* `Tick` is a second of the clock. It is not forced to wait for an expired
  timeout: callbacks may be late.

Assumed of the environment: every BSS has at least one server (the code
dereferences `mbss_auth_server[ApIdx]` without a check); registering a timeout
does not fail for want of memory; the requests of one run are told apart by
their number. `radius_retry_primary_interval` is either always or never set.

### EapolSm

The variables are the structs of `eapol_sm.h` with their field names. `pc` walks
through the machines in the order of `eapol_sm_step`, and a pass is repeated
until no state has changed; between `"idle"` and `"idle"` nothing else runs.
Every state has an entry action with the name of the code's `SM_STATE`, and
every group of transitions into it a guard (`PaeConnects`, `BeTimesOut`, ...)
with the order of the `else if`s spelled out. Handlers set their flags and start
the step; `then` says what the handler does after it (return, step again, or
free the station, which `ieee802_1x_receive_auth` does after an Accept when no
session timeout applies). Periods are `unsigned int` and timers `int`, and a
server can send any `Session-Timeout`: `Signed` is that conversion.

Abstracted: EAP identifiers (a response either carries the expected one or is
`OtherFrame`); contents of frames; the driver. In particular
`ieee802_1x_set_sta_authorized` only logs when a port closes: `portStatus` is the
daemon's own view, and what the driver lets through is decided by keys it is
given. `portControl` is `Auto` for ever, `portEnabled` and `portValid` are TRUE
once a port is set up, so the `FORCE_` states are unreachable and left out.

`denied` and `sta.answers` are history variables.

The keys of an Accept are a flag, `keyAvailable`, that `ieee802_1x_get_keys` sets
before the machines run, as the handler does.

### PortControl

Three variables: the port, the verdict of the exchange in progress, and whether a
question is with the server. `EapolSm` implements it with `Verdict` as the
refinement mapping: `"asked"` while the backend machine is in `RESPONSE` and the
reply is outstanding, `"accepted"` from the Accept until the PAE machine has used
it. An Accept that comes at any other time is a `Discard` and opens nothing.

### StaTable

`mem` is a set of memory blocks, so that a block that is freed and handed out
again is seen by whatever still points at it. `sta_list` and the chains of
`sta_hash` are sequences of blocks; `timeout` is the sorted list of the event loop
(`due` is relative). An action is a callback, except `Ap_get_sta`, which is split
(`LinkStation`) where a signal handler can see it half done. `Accept` is the
part of `ieee802_1x_receive_auth` that starts a session timer or frees the
station. `Handle_usr1` and `Handle_reload_config` free all stations and open new
sockets without closing the old. `left` is what the Accept promised, for the
properties.

### BndStrgTable and BandSteering

The table operators take a table and return the one the C function leaves; a walk over a
chain that would never end is the value `LOOP` and sets `hung`. `stale` is history: it
is set when a deletion by index removes the entry of another client than the one it
names, the code has no such flag and nothing reads it. The daemon's actions are the
cases of `event_handle` (each takes the head of `nl`, the netlink queue) and the four
paths of `bndstrg_periodic_exec`: give up, query, enable, decide. The driver (access
lists, associations, interfaces up, answers) is external. Requests are ioctls and take
effect at once. `Rssi` values, conditions and the comparison operators are those of the
code; `AuthReqCount` keeps its width (`AUTH_WRAP`). `BACKLOG` is the set of kinds of
messages that may wait in `nl` when the timer fires, `INPUT_MAX` the length of `nl` up
to which frames and commands come in; with `AllKinds` and `NL_MAX` neither is a
restriction. Time is in units that contain at least one call of the timer.

### Nvram and NvramStore

`proc[p].pc` walks a process through its phases: dump the flash into a new cache
file, parse it, run the command, save section by section, erase and write block
by block. Anything of another process, and a power loss, may come between. An
entry has a length, so that a section can overflow; `Image` is what is left of
entries that are written past the end. `Nvram` implements `NvramStore` with the
cache file, or the flash until the file is complete, as the cache, and the flash,
or what is being written once it is erased, as the committed copy.

`NvramStore` is the store that the code keeps, not the one of the usage text: a map per
section, and each way in which the code departs from a map is a step of its own, named
at the head of the module. `Load` replaces every section in order and `Fail` leaves it
half way; `Put` may mangle an entry of a section that is filled to its last four bytes;
`WriteFails` and `Torn` lose the block being flushed. What it still rules out is all
else: a command that changes another section, a commit that flushes anything but the
cache or skips a block, a loadfile that flushes before all sections have been loaded, a
power loss that leaves a cache of its own. Its `phase` is "load" from the first section that
`loadfile` saves, "write" while a block is erased and "flush" between two blocks.

### IappTable, IappClients and Iapp

`IappTable` is to `mt_iapp_util.c` what `BndStrgTable` is to its table; here a deleted
entry keeps its `next`. In `Iapp`, a handler of the daemon is one action, named as
in the code (`FT_ASSOCIATION`, `IAPP_RcvHandlerUdp`, `IAPP_RcvHandlerTcp`, ...): the
daemon is single-threaded and its ioctls are synchronous. Datagrams are a set
(delayed, reordered, lost), a TCP frame is one connection and connections of one
access point come in order. Assumed of the driver: it keeps keys and stations
when the daemon restarts; `STATION_NOTIFY` tells it the R0KH; an interface index
out of range makes the ioctl fail or hits the first interface. `IAPP_ASSOCIATION`
only logs, `IAPP_REASSOCIATION` is under `#if 0` and `KEY_TIMEOUT` is empty in the
code, so they have no action.

### Wapi

`ent` has the fields of `STA_TABLE_ENTRY` that the negotiation uses; `timer` counts the
registered `WaiKeyHSTimerProc` timeouts, which may fire early relative to frames and
are left behind by the code. A random number is a number used nowhere else, a
pairwise key the challenges it was made from, an authentication code the key it
was made with: so a check of a MIC or of a challenge is a comparison, and what the
model finds equal is equal in the code but for collisions. Handlers and tables keep the
names of the code. `Socket(p)` reads one frame of the driver or of the peer, in
their order of arrival. Assumed: `send` and `malloc` succeed, the WIE of both ends
match, both have the pre-shared key; a deauthentication makes both drivers
forget the unicast key and send 0xff, the removal of the entry, to their daemons.

## 3. Runs

| run | states | properties |
|---|---|---|
| `radius_client` | 49,162 | `TypeOK`, `CountCoversList`, `UniqueIds`, `TimerPending`, `SecretCurrent`, `LeavesWhenSettled` |
| `eapol_sm` | 290,816 | `TypeOK`, `DeniedPortClosed`, `MachinesAgree`, `PortOpensOnVerdict` (`EapolSm` implements `PortControl`), `StepTerminates`, `AuthorizedNeedsServer` |
| `sta_table` | 132,579 | `TypeOK`, `TableConsistent`, `OneTickEach`, `TimeoutsSorted`, `OneSessionTimer`, `SessionEnds` |
| `bndstrg_table` | 1,009,284 | `TypeOK`, `SizeCountsValid`, `ChainsIndexTable`, `DeleteFindsEntry` |
| `bndstrg_live` | 72,376 | `NewClientServed`, `SteeringStarts` |
| `bndstrg_poll` | 282,002 | `PollingEnds` |
| `nvram_store` | 31,011 | `TypeOK`, `EntriesWhole`, `StoreImplemented` (`Nvram` implements `NvramStore`) |
| `iapp_table` | 10,044 | `SizeCountsUsed`, `StationsFound` |
| `iapp_net` | 877,424 | `TypeOK`, `TableCoversDriver`, `OneHome` |
| `iapp_key` | 34,593 | `KeyArrives` |
| `wapi_keys` | 217,455 | `TypeOK`, `KeysAgree`, `GroupIdsAgree`, `LoneHandshakeEnds` |
| `eapol_state` | violated | `StateOnlyInReply` |

Some of these are stated with the condition under which the code keeps them, and
the configurations below show that the condition is needed: `LeavesWhenSettled`
(the servers stop changing), `AuthorizedNeedsServer` (no timer has become negative),
`TableCoversDriver` and `OneHome` (no restart and no daemon that goes round a chain;
`OneHome` also no lost datagram, since an ADD-notify is neither repeated nor
acknowledged, and every access point is told of a move, see below),
`ChainsIndexTable` and `DeleteFindsEntry` (until a late answer has removed the entry of
another client), `StoreImplemented` (one command at a time),
`LoneHandshakeEnds` (not both keys are updated), `GroupIdsAgree` (at most one update of
the multicast key, or no lost frame).

### What the code does not keep

Each line of the table is a property that a comment, a usage text or the README of a
program states, and a configuration with which `tlc -config <cfg> <module>` shows
a behaviour of the code that contradicts it (`tlc -continue` where one
configuration names several properties: it reports all of them). `findings` in
`PROJECT.json` quotes the lines.

| cfg, module | property | what happens |
|---|---|---|
| `EapolState`, `EapolSm` | `StateOnlyInReply` | a response that came too early is forwarded with the State of a later Challenge |
| `EapolKeys`, `EapolSm` | `KeysNeedSuccess` | keys of an Accept go out though the machines did not take it |
| `RadiusRetryBound`, `MCRadiusClient` | `RequestLeaves` | failover between servers of one secret resets `attempts` for ever |
| `RadiusReplies`, `MCRadiusClient` | `EvictOnlyWhenFull` | `Radius_client_get_id` forgets `num_msgs--` |
| `RadiusReplies`, `MCRadiusClient` | `ReplyToOwner` | the old station keeps its `radius_identifier`: a reply goes to it |
| `RadiusReplies`, `MCRadiusClient` | `RetransmitReachesWire` | `send()` on a socket that is not connected |
| `RadiusReplies`, `MCRadiusClient` | `RemovedWhenAcked` | a reply that fails verification still removes the request |
| `StaTableLeft`, `MCStaTable` | `TimerMatchesSession` | the session timer of a freed station fires for the next one in its block |
| `StaTableSignal`, `MCStaTable` | `TableConsistent` | SIGUSR1 in the middle of `Ap_get_sta` |
| `StaTableLeft`, `MCStaTable` | `SocketAfterReload` | reloads use up the descriptors |
| `BndStrgStale`, `MCBandSteering` | `AnyDeleteFindsEntry` | a late ageing answer deletes the next tenant of the slot |
| `BndStrgAging`, `MCBandSteering` | `AgedNotConnected` | an association between the two ageing answers is not seen |
| `BndStrgEdge`, `MCBandSteering` | `NewClientServed` | at exactly `RssiLow` a client gets no band |
| `BndStrgRestart`, `MCBandSteering` | `SteeringStarts` | after an interface was down steering does not start again |
| `BndStrgGiveUp`, `MCBandSteering` | `ReadyKeepsRunning` | query counters are never reset, and the daemon gives up with both interfaces ready |
| `NvramLost`, `MCNvram` | `StoreImplemented` | two commands at once lose an update |
| `NvramLimits`, `MCNvram` | `ReadOnlySurvives` | power loss between erase and write loses the boot loader's section |
| `NvramLimits`, `MCNvram` | `LoadKeepsOthers` | `loadfile` ignores the section it is given and replaces all, read-only ones included |
| `NvramLimits`, `MCNvram` | `ClearReachesFlash` | `clear` empties the cache file only |
| `NvramLimits`, `MCNvram` | `EntriesWhole` | the size test forgets the four bytes of the checksum |
| `IappLoop`, `MCIappClients` | `LookupsEnd` | a reused entry's stale `next` closes a chain to a ring |
| `IappStale`, `MCIapp` | `NewestKept` | sequence numbers are not compared |
| `IappFull`, `IappRestart`, `MCIapp` | `OneAp` | a station the table does not have is not dropped |
| `IappKey3`, `MCIapp` | `R0khAnswers` | the R0KH routes a key request by a table entry it has deleted |
| `WapiHang`, `Wapi` | `HandshakeEnds` | a request that is dropped has already reset `retry_cnt` |
| `WapiUpdates`, `Wapi` | `GroupKeysAgree` | a new multicast key is ignored until the port is secured |
| `WapiUpdates`, `Wapi` | `LastNotifyAnswered` | a late response to the last notify but one ends the handshake of the last: an index has one bit |
| `WapiHang`, `Wapi` | `NewIndexNewKey` | the station's own update installs the old key under a new index |
| `WapiOverlap`, `Wapi` | `KeysAgree` | a response of a former association changes the index of one end |

### Bounds

RADIUS: two or three identifiers and a list of two entries, so that both wrap
around and fill up within `MaxSends` requests (three to five), the only bound that
is not a constant of the code; two stations on one or two BSSs, so that one
BSS's failover meets the other's requests; `NumFailover` < `MaxRetries` as in the
code. The configurations of `radius_client` have a BSS whose servers share a secret
and one whose servers do not.

EAPOL: the periods are 2 or 3 instead of 30 to 3600 and `IntMax` is 3; the order
of expiries, not their length, is what the machines see. The server's timeouts
are 0, which fires at once, and 7, which is above `IntMax` and becomes negative.

Station table: three addresses of which two share a bucket, room for two, three blocks, so
that the table is full while a block is free; session timeouts of none, 0 and 2;
`ACCEPTS` bounds the Accepts.

Band steering: three clients on two chains and two slots in `bndstrg_table`, so that the
table is full and slots change tenants, with a socket that holds four messages and loses
the rest. Four is the fewest with which an answer becomes stale: two answers about a
slot, and the message by which the slot changed its tenant before the second is read;
frames and commands take two of the places at most (`INPUT_MAX`). The timer fires with
anything waiting that comes once steering is on (`KindsWhenOn`; the answers of the start
are read first), so stale answers are among the states of the run. `bndstrg_live` has
one client with changing signals on both bands and an authentication counter that wraps
at 2; `bndstrg_poll` has interfaces that go down and up at any time, parameter changes
and a termination; in these two the timer does not fire while a message that removes an
entry waits (`KindsOfAddition`). In `BndStrgStale` and `BndStrgAging` anything waits.

Nvram: three sections, one read-only and all in one erase block as on the device,
two keys, a short and a long value, and a section that two long ones do not fit;
a short and a long one fill it to the last byte. The file of `loadfile` has a last section
that does not fit, so that the command fails after two; `NvramLimits` has one that fits.
The power may fail while a block is erased (`TORN`), and the device may refuse a block.
One process; two are `NvramLost`. `NvramLimits` has lengths between the two limits of
`nvram_commit`: `EntriesWhole` fails there, `StoreImplemented` holds.

IAPP: `iapp_table` has four stations, two chains and three entries. `iapp_net` has
two access points with two hooked interfaces and one that is not, a station
that moves twice, a silent departure, a restart and an exchange of information;
the access points are symmetric. `iapp_key` has a lost datagram, a departure and an
FT action over the LAN instead. Three access points, and two stations with a full table, are
`IappKey3` and `IappFull`.

WAPI: two associations, one update of each key by either end, one lost frame, and one
retransmission (`RETRIES`, 3 in the code). The same properties were also checked on
instances too long for a listed run: the safety properties with three retransmissions
and one association (1.8 million states), and all of them with two multicast updates
and each of one association (608,992 states), no unicast update (172,515) and no
lost frame (859,024).

### Fairness

`8021xd`: `eloop_run` calls one expired timeout in every round, before it reads any
socket, and no callback blocks; so a pending timeout whose time has come is
called however many frames arrive. Hence weak fairness of `Radius_client_timer` and
of the clock in `RadiusClient`; in `EapolSm` weak fairness of the steps of
`eapol_sm_step` and strong fairness of the tick, which is disabled while a step runs;
in `StaTable` strong fairness of `RunTimeout`, weak fairness of the clock and of the end of a
callback that has begun.

`BandSteering`: weak fairness of `event_handle`, of the timer and of the clock: the
loop looks at its timer in every round and then serves its socket.

`Iapp`: weak fairness of every handler (`IAPP_RcvHandler` serves every socket that is
ready), and of a station that authenticates again while it has no key.

`Wapi`: weak fairness of each daemon's callbacks taken together: the loop goes on while
anything is registered or readable. Nothing is assumed about their order.

Nothing is assumed of supplicants, servers, drivers and stations beyond this.

## 4. Proofs

`tlapm <module>_proofs.tla` checks the proofs. Nothing in them depends on the sizes of
section 3: they hold for all values of the constants that satisfy the named assumptions
of the modules.

| module | theorem | states |
|---|---|---|
| `RadiusClient_proofs` | `TypeCorrect`, `CountSafe`, `IdsUnique`, `TimerSafe`, `SecretSafe` | `[]TypeOK`, `[]CountCoversList`, `[]UniqueIds`, `[]TimerPending`, `[]SecretCurrent` |
| `EapolSm_proofs` | `LoopInvariant`, `TypeCorrect`, `MachinesSettle`, `DeniedStaysOut` | `[]IInv`, `[]TypeOK`, `[]MachinesAgree`, `[]DeniedPortClosed` |
| | `PortImplemented` | `PortOpensOnVerdict`: `EapolSm` implements `PortControl` |
| `StaTable_proofs` | `TimerInvariant`, `SortedCorrect`, `OneSessionCorrect` | `[]TimerInv`, `[]TimeoutsSorted`, `[]OneSessionTimer` |
| | `TableInvariant`, `TypeCorrect`, `TableCorrect`, `TickCorrect` | `SIGNALS = "select"` implies `[]TableInv`, `[]TypeOK`, `[]TableConsistent` and `[]OneTickEach` |
| `IappTable_proofs` | `TableInvariant`, `SizeCorrect`, `LookupCorrect` | `[]TableInv(tbl)`, `[]SizeCountsUsed`, `[]StationsFound` |
| `Iapp_proofs` | `IappInvariant`, `TypeCorrect` | `[]IInv`, `[]TypeOK` |
| | `TableCovers`, `HomeAgreed` | `Room` implies `[]TableCoversDriver` and `[]OneHome` |
| `BandSteering_proofs` | `SteeringInvariant`, `TypeCorrect`, `SizeCorrect` | `[]IInv`, `[]TypeOK`, `[]SizeCountsValid` |
| | `ChainsCorrect`, `DeleteCorrect` | `[]ChainsIndexTable` and the action property `DeleteFindsEntry` |
| `Nvram_proofs` | `TypeCorrect` | `[]TypeOK` |
| | `EntriesStayWhole` | `RoomForChecksum` and `WholeContents` imply `[]EntriesWhole` |
| | `StoreRefined` | `Alone(q)` implies `StoreImplemented`: `Nvram` implements `NvramStore` |
| `Wapi_proofs` | `TypeCorrect` | `[]TypeOK` |
| | `KeysCorrect`, `GroupIdsCorrect` | `Separate` implies `[]KeysAgree` and `[]GroupIdsAgree` |

### RadiusClient

Assumptions: `StationAssumption` (every station has a BSS), `ConfigAssumption`
(every BSS has a server), `BoundAssumption` (the constants are numbers, the list
has room for one entry and twice the first wait does not exceed the longest).

The inductive invariant `IInv` is the conjunction of the five. None of the five
needs a strengthening that the runs do not check already, but they need each
other: that `num_msgs - 1` is a natural number when a reply is removed needs
`CountCoversList`; that the wait stays in range needs the type of the entry; that
a failover leaves a timeout needs `TimerPending` when no server changes.
`NextInv` has a case per action. Lemmas carry what several actions share:
`ChangeServerInv` (failover and return to the primary), `RestrictInv` (replies
and failed sends), `PrependInv` (a new head), `EmptyListInv` (flush and reload),
`StationInv` (steps that leave the list alone).

### EapolSm

Assumptions: `TimeAssumption` (periods fit an `unsigned int`; those the code sets to
constants fit an `int`) and `CountAssumption` (a request is sent at least once).
Nothing is assumed of the order of the periods, and the server may send any timeout.

The properties speak of the moment when the loop of `eapol_sm_step` has ended, so
the proof has to follow the loop. `IInv` says for every position of it which pairs of
PAE and backend states can meet (`Together`, and `PaeAhead` after the PAE has
moved and before the backend machine follows), which flags go with them
(`ExchangeFlags`), the counters state by state (`CountsInv`), and what a pass that has
changed nothing has established so far (`QuietInv`): that a machine is left in a
state it only passes through is excluded because the pass then counts as
changed. `DeniedInv` follows the flags of a logoff or rejection to the closed port, and
`ReplyInv` ties the outstanding reply to the backend state, which the refinement needs:
an Accept counts exactly while `Verdict` is `"asked"`.

### StaTable

Assumptions: `HashAssumption` (every address has a bucket), `TableAssumption` (the table has
room for a station, the interfaces are finitely many) and `TimeoutAssumption` (the session
timeouts are bounded). Stations, blocks and buckets may be infinitely many.

`TimerInv` is about the list of the event loop: sorted, and no two timeouts of one handler
for one block. The second part is more than `OneSessionTimer` says, and the ticks need it:
`eapol_port_timers_tick` registers itself again without cancelling, so that it
must know that the tick it runs as was the only one. It rests on lemmas about
`eloop_register_timeout` (the timeouts not later than the new one are an initial
segment, `InitialSegment`) and `eloop_cancel_timeout` (`KeepTimers`). `TimerInv` needs no
hypothesis on signals; of the memory that a signal in the middle of `Ap_get_sta` frees too
early, the model knows that it is free, not what a write to it destroys.

`TableInv` has `Agree`, which ties memory, list, chains and counter together with the
block that `Ap_get_sta` has allocated and not yet linked; `Linking`, that `Ap_get_sta` then still
holds the current list and there is still room; and `TicksMatch`, that a tick is pending for
the blocks of the list and for no other. There is one lemma for each thing that happens
to the table: a block is allocated, linked, freed, all are freed. All of it
needs `SIGNALS = "select"`, that no signal is handled inside a callback. The code
does not see to that, and `StaTableSignal` shows what follows; so it stays an explicit
hypothesis, and it is the only one: given it, the table is right for every
sequence of callbacks.

### The client table of mtkiappd

`IappTable_proofs` has the lemmas about the C functions, which `Iapp_proofs` uses too, and
then the theorems about the table alone. `TableInv` is: the types;
an entry is in use just if it has an address (so that the entry a look-up returns
may be counted down); the size is the number of entries in use; one entry per station;
each entry in use is on the chain of its address. The last survives although a
deletion leaves the `next` of the deleted entry in place and a reuse overwrites it
(which can turn a chain into a ring, `IappLoop`): the new head is in front of its own
chain, and a walk that reached an entry reaches it still.

### Iapp

Assumptions: `IappAssumption` (the hooked interfaces are numbered from 0, finitely many
access points, names that do not clash). `Room` says that the
table has an entry for every station; without it the insertion fails and
`TableCoversDriver` with it (`IappFull`).

`Cover` ties a driver to the table of its daemon through the queue between them: the
interface of a station is that of the last association signal that waits or, if
none does, that of the table. `Home` ties the driver to the switches: a
station that the switches have elsewhere is about to be announced here, or a notification
that will remove it is on its way. Both are stated for every access point at every
moment; `TableCoversDriver` and `OneHome` are what is left when the queues are empty.

`OneHome` was corrected by its proof. With three access points whose drivers
report the old access point, a MOVE-notify goes to that one alone, and it may come before
the old access point has handled its own association; the association is then
announced after the move, and the switches and the drivers disagree. `EveryoneTold` excludes
just that: the notification is a broadcast, or there are two access points. A daemon
that goes round a chain answers nothing, hence the condition on `hung`.

### BandSteering

Assumptions: `TableAssumption` (a slot exists) and `SteeringAssumption` (the limits are
positive, frames have the types of the C declarations, `AgeTime` is not raised above its
first value, which bounds the ages the model tells apart).

Types and the size need only `Sound`. For the chains, `Path` describes a chain as an enumeration
of slots from `Hash` to the end, and `Indexed` says that each chain has one that lists the
valid entries of its bucket without repetition. Insertion and deletion are shown to
keep it (`InsertIndexed`, `DeleteIndexed`) and the walks of the model to follow the
path. The invariant is `IndexInv`: as long as no stale answer has removed the entry of
another client, the table is `Indexed`. A deletion by address (`MeantByAddress`) finds
the entry of the client it names, so it never sets `stale`; a deletion by index does
exactly when the slot has another tenant, and otherwise the chain of the address is the
one the entry is on. The theorems hold for every `BACKLOG`, `NL_MAX` and
`INPUT_MAX`: whatever waits while the timer runs, a stale answer is the only way in which
the daemon can damage its chains or fail the assertion of `bndstrg_delete_entry`. That it
does so happens is `BndStrgStale`, where the assertion alone (`AnyDeleteFindsEntry`) is
refuted.

### Nvram

Assumptions: `NvramAssumption` (the layout is a sequence of sections, the blocks of
the flash hold all of them, the values are none of the two marks), `ContentsAssumption`
(`File` and `InitFlash` have a key at most once) and `CommandsAssumption` (what
`main_nvram.c` passes on). The number of sections, keys, blocks and processes and the
sizes are arbitrary.

`TypeOK` is inductive as it stands, for processes that interleave anywhere. It says more
than types: that no copy of a section has a key twice or too many entries rests on lemmas
about `_nvram_buf_set` (`SetContent`), `_nvram_buf_del` (`DelContent`) and `Image`.

`EntriesStayWhole` makes the fault of the size test (`NvramLimits`) exact:
`RoomForChecksum` excludes sections of whole entries within the four bytes between what
`nvram_commit` refuses and what it has room for, and then nothing is ever cut off. The
invariant `WholeInv` carries along that what a process has saved is written as it
is (`Fits`), because the flash is written from the process and not from the file.

The refinement assumes `Alone(q)`, one process, and nothing else: any layout, any
partition into erase blocks, any lengths, with a power loss or an error of the device at
any step, the one between erasure and writing included. `NvramLost` refutes
`StoreImplemented` for two processes, so the condition cannot be dropped. `nvram_commit`
rewrites every section for a change of one entry. So `CopiesInv` says how the copies are
related at every step of the loop: `Pending`, that what is in memory is what is in the
file but for the one change of the command, `Saved`, which sections have been written (and
may thereby have lost an entry to the checksum), `Waits`, what the command still owes, and
the same for the dump of the flash. Then exactly one write of the loop is `Set`,
`Del` or `Clear`, the others are `Rewrite`, and each write of a `loadfile` is `Load`. A
block counts as flushed from its erasure (`Flush`); the write after it is `Flushed`, and
what fails in between is `WriteFails` or `Torn`.

### Wapi

Assumptions: `BoundsAssumption` (the bounds are numbers), `RetriesAssumption` (1 to 9
retransmissions, 3 in the code: with ten the ranges of `retry_cnt` meet),
`OverlapAssumption` and `UpdatersAssumption` (the values of the switches). The numbers of
associations, updates and losses are arbitrary for the types.

`TypeInv` is inductive. `os_get_random` needs that what is in use is finite, so that
there is a number left.

`KeysAgree` follows the right to complete the handshake. It is in a first request of the
AE (`Offers`), then in the response the ASUE makes of it (`InResponse`), then in the
confirmation (`InConfirm`), and then it is used (`Used`): there is never more than one
frame that gives it, and each says what the entries and drivers hold meanwhile. It rests
on fresh random numbers. It has to exclude two things the code does:

* a response that is sent again has a new challenge under the key of the old
  one, so that its code is wrong and the AE, which stores before it checks, holds a key
  that nobody else has; `InResponse` and `InConfirm` say why it does not get further.
* the AE answers a request that comes to it, and the ASUE is then expected to
  confirm, which it never does. `Live` has this as its second case: the AE waits
  until the link is lost.

`Away` says what an association leaves to the next one: nobody triggers the ASUE
(`Untriggered`), the deletion of the entry is the last thing in the sockets (`Leaving`), the
first association finds nothing (`Unused`), and at most one timeout more than
there were updates is left to the ASUE (`Renewed`). The last matters because a stale timeout
counts in an idle entry, and with more than ten of them a station that nobody has asked
starts a handshake.

`Separate` is the hypothesis that is left: there is one association, or the
sockets are empty when the next one begins (`~OVERLAP`) and there are at most nine
updates. `WapiOverlap` shows that `KeysAgree` needs the former. The run `wapi_keys`
satisfies it with two associations and one update.

`GroupIdsAgree` adds to these invariants what becomes of a notify of the AE (`GroupInv`),
for each of its two conditions on the frames:

* Without a loss (`NothingLost`) the last notify waits in the socket of the ASUE, or the
  ASUE has its key (`Latest`). That the ASUE will take it needs the state of the unicast
  handshake: not asked yet, a response on its way, a confirmation in the socket
  in front of every notify, or done with the key under which the notifies are
  (`Unasked`, `Responding`, `Confirming`, `Level`; `Stuck` is an ASUE that waits for
  a confirmation that nobody sends and never gets done).
* With at most one update the indices only rise (`Rising`): that of the ASUE is not above
  any notify in its socket, those are in order and not above that of the AE, and no
  response is above what the ASUE has. So a late response to an earlier notify has a
  lower index and is refused. With two updates the index, one bit, comes round, and one
  lost notify lets the late response pass: `LastNotifyAnswered` in `WapiUpdates`.

`Indexed` says that an index is the parity of its key, at the ASUE as in a notify, and
`Plain` that the AE gets no confirmation, and a notify only once it is itself
waiting for a confirmation until the link is lost.

### What stays with TLC

* Liveness: `LeavesWhenSettled`, `StepTerminates`, `AuthorizedNeedsServer`, `SessionEnds`,
  `NewClientServed`, `SteeringStarts`, `PollingEnds`, `KeyArrives`, `LoneHandshakeEnds`.
  The prover has no rules for fairness and `ENABLED`.
* What a recursive function computes for every input is proved only where the
  argument can be put as a least counterexample in a set of numbers (`MinExists`, `UpTo`,
  `RecursionExists`): the walks over the chains and the messages of one run of the
  timer. The induction theorems of the library take an operator and cannot be
  used. What the fold `Total` of `Nvram` adds up to is not needed: the proofs take
  its two comparisons as they are.

## 5. Not modelled

* `8021xd`: contents of EAP and RADIUS packets and their digests; the driver's key
  table; start-up and parsing of the configuration; growth of the reader array.
* `bndstrg`: the commands that only print.
* `nvram`: the checksum, which the code compares and never acts upon.
* `mtkiappd`: encryption of the payload, the event log and the branches for VxWorks.
* `wapid`: certificate authentication (ASN.1 and elliptic curves around a handshake
  of its own), fragmentation, the hash table of stations, `WAI_MLME_UPDATE_BK`,
  which is empty.
* `btnd` and `watchdog`, and the tools of section 1.
* Memory exhaustion, except where the code has an error path of its own.
* Packages of OpenWrt and vendored code (kernel drivers, yaffs2, iwinfo): not part
  of this program's own logic.

## 6. Plan

1. Done: all models; proofs for `RadiusClient`, `EapolSm` with the refinement of
   `PortControl`, `StaTable`, the two client tables, `Iapp`, `BandSteering`, `Nvram` with the
   refinement of `NvramStore`, and both kinds of keys of `Wapi`.
2. `Dot1xd`: `RadiusClient` and `EapolSm` for two stations composed.
3. The certificate handshake of `wapid` on the same entry and timeout as `Wapi`.
4. `btnd` and `watchdog`.
