# nurdlib in TLA+

nurdlib is a readout library for nuclear-physics data acquisition: it sits
between a DAQ backend (MBS or drasi) and the electronics of one or more crates.
This directory holds TLA+ models of it, TLC configurations that check them on
small instances, and proofs that TLAPS checks for every instance. Paths below
are relative to the repository; `crate.c` is `src/crate/crate.c`.

## 1. The system

### Components, their state, and how they interact

| component | state | operations | interacts with |
|---|---|---|---|
| **Crate readout** `crate.c` | `struct Crate`: `state`, counters `cur`/`prev`, `dt_release` (`is_on`, `do_inhibit`, `for_it`), mutex; `struct Module`: `event_counter`, `this_minus_crate`, `crate_counter_prev`, `result`, `eb_final` | `crate_readout_dt`, `crate_readout`, `crate_readout_finalize` | called by the backend for every trigger; calls the module drivers; shares counters and buffers with the shadow thread |
| **Shadow readout** `crate.c` `shadow_func`, `shadow_merge_module` | two buffers per module, `buf_idx`, `data_counter_value`, `is_running`, `do_buf_rebuild` | a thread that empties modules between triggers | crate lock, buffer lock; started by `crate_init`, joined by `crate_deinit` |
| **Crate initialisation** `crate.c` `crate_create`, `crate_init`, `crate_deinit` | module list, tags, ids, the shadow thread | create from configuration; slow, fast, post init; retry | drivers, configuration, readout (on errors) |
| **Online re-configuration** `crate_config_write`, `crate_readout_finalize` | `module_configed_vec`, the configuration blocks | merge a configuration, apply it after the readout | control thread, readout thread |
| **Backend glue** `src/fuser/fuser.c` | `g_dt`, the status word of the event | `f_user_init`, `f_user_readout`, `untriggered_loop` | the DAQ backend; the early release of the dead time |
| **CMVLC sequencer** `crate_cmvlc_*` | position in the sequencer's words | fetch and split one event | drivers |
| **Module core and drivers** `src/module` | `event_counter.value`, `parse_counter`, block-transfer destinations; for PEX chains `buf_idx` and the board's request registers | `init_*`, `readout_dt`, `readout`, `readout_shadow`, `parse_data`, `check_empty` | mapped memory; the crate's checks |
| **Configuration** `src/config` | tree of blocks and items, `is_touched` marks, defaults | load, look up, merge, touch check | everything that reads settings |
| **Control** `src/ctrl` | a server thread; a client | datagram requests and replies, sequenced replies | crates, configuration |
| **Utilities** `src/util` | - | packing, UDP, threads, suppressed logging | everything |
| **Build and test support** `src/nconf`, `src/ntest`, `src/module/reggen*`, `src/mock`, `src/tests`, `src/tools` | - | compile probing, tests, code generation, mock hardware, command lines | - |

One cycle of the readout: the trigger logic raises the *dead time* (no event is
accepted), the backend calls `f_user_readout`, which calls

1. `crate_readout_dt`: read the master-start scaler, then wait for every module
   until its event counter and (with a shadow buffer) the counter of the data
   already fetched agree with the scaler; switch the shadow buffers;
2. `crate_readout`: read every module, or merge its shadow buffer; at a module
   position computed by 1 (`for_it`), release the dead time early if configured;
3. `crate_readout_finalize`: latch the counters; re-initialise if anything went
   wrong; otherwise, if the dead time is still on, apply pending re-configs.

The dead time ends when `f_user_readout` returns, or at the early release.

### What is hard, and what makes each component correct

- *Readout and shadow thread.* Two threads and the electronics work on the same
  modules; the dead time may end in the middle of a cycle. Correct means: a good
  cycle delivers exactly the events between two readings of the scaler, for
  every module; no event is lost, doubled or filed under another cycle; threads
  never touch the same buffer; the dead time is not released before what must
  be read is read, and always ends.
- *Failure handling.* Any step may fail; the crate re-initialises inside or
  outside the dead time and must come back with all counters in step.
- *Re-configuration* is asynchronous, must happen in the dead time only, and
  must not be forgotten.
- *Initialisation* retries for ever; it must not hold what others wait for.
- *CMVLC*: framed data that must stay in step module by module.
- *Drivers*: a module's count, the count in its data and the crate's count come
  from different places, with different widths; a transfer may end early, and a
  word may be taken for another. Correct means: what a driver accepts is what
  the module recorded for these triggers, and a good module is never refused.
- *PEX chains*: one board, one pair of request registers and one token per
  chain for a readout thread and a control thread, with two buffers in every
  front-end.
- *Configuration*: user blocks over defaults, unused settings must be reported,
  a merge must not half apply.
- *Control*: lossy, reordered datagrams; replies must belong to requests.
- *Numbers*: counters of different widths, packing at the end of a buffer.

## 2. Modules

| module | models |
|---|---|
| `CrateReadout` | the cycle above with the shadow thread, the control thread, the backend and the electronics; one action per critical step |
| `EventStream` | abstract specification: what the cycles promise about events |
| `MCCrateReadout` | instances for TLC, and the refinement mapping to `EventStream` |
| `CrateReadoutInv` | the invariants behind the properties, in named parts |
| `CrateReadoutProofs` | proofs about types, locks, the dead time, its release, re-configs and the buffers |
| `CrateReadoutData` | proofs about counters and data, and that the crate implements `EventStream` |
| `CrateInit` | bringing a crate up, taking it down and configuring its modules again, step by step, against the control thread |
| `CrateInitProofs` | proofs about `CrateInit` |
| `Ctrl` | the control interface: server thread, clients, and the network between them |
| `CtrlProofs` | proofs about `Ctrl`: types, that calls get their own answers, that a goc is executed |
| `CmvlcFetch` | the readout through the sequencer of an MVLC controller |
| `CmvlcFetchProofs` | proofs that what is accepted is whole and what is refused has a cause |
| `ConfigSnippet` | configuration written at run time: packing, the datagram, the merge in two passes |
| `ConfigLoad` | loading configuration files: defaults, user files, includes, files for a block, duplicates |
| `CrateCreate` | `crate_create` on the blocks of such a tree: tags, counters, barriers, ids; then triggers by tag |
| `CrateCreateProofs` | proofs that a tag serves its modules and that neighbours can be told apart |
| `CtrlData` | what the answers of the control server say, field by field, and how a client reads them |
| `ConfigPack` | packed lists of scalars, which snippets and answers share |
| `ConfigGet` | the getters by which the program reads settings, with units, ranges and `is_touched` |
| `ConfigProofs` | proofs that a getter gives what the file says and that nothing stays unread, and that a merge is exact or leaves no trace |
| `MCConfig`, `MCData`, `MCGet` | `ConfigSnippet`, `ConfigLoad`, `CrateCreate`, `CtrlData` and `ConfigGet`, side by side, with the trees, snippets, files, blocks, answers and uses TLC checks them on |
| `PexToken`, `MCPex` | TAMEX, FEBEX and CTDC chains behind a PEX board; the crates TLC checks |
| `PexTokenProofs` | proofs about what a token brings, alarms, and register accesses |
| `DriverReadout` | cycles of a crate with one module, its electronics, its faults and the crate's checks |
| `CaenV767a`, `CaenV7nn`, `CaenV830`, `CaenV1n90`, `MesytecMxdc32`, `GsiSam`, `GsiVftx2`, `GsiEtherbone`, `Sis3316`, `Sis3820Scaler` | the readout and parsing of these drivers, as operators `DriverReadout` puts together |
| `Settings`, `SettingsCaen`, `SettingsMesytec`, `SettingsGsi`, `SettingsStruck` | how thirty drivers pass their settings on to their structures and registers |
| `ModuleSettings` | a module of any of these drivers, created, initialised and re-configured while its settings change |
| `MCDrivers` | `DriverReadout` and `ModuleSettings`, side by side |

`DriverReadout` instantiates the driver modules; `CmvlcFetch` and `PexToken`
stand beside it, since they replace the crate's cycle by one of their own.
`CrateReadout` knows a driver only by what it does to counters and buffers, so
that what the driver models establish is what it assumes: a cycle whose checks
pass has the events between two counts.

### How `CrateReadout` corresponds to the code

*Granularity.* Everything a thread does while it holds the crate mutex, between
two points where the other can see it, is one action; where the code works
without the mutex (state writes at the end of `crate_readout_dt`, the merge of a
shadow buffer, the clearing by a new shadow thread) each access is an action of
its own. A copy to or from a shadow buffer takes two actions (begin, end), so
that a concurrent access to it would be seen.

*Data.* An event is its number. A module holds events being converted (`pend`),
then in its buffer (`fifo`) with its counter `cnt`; the shadow buffers and
`eb_final` hold the numbers of the events read. What the drivers do
(`readout_dt`, `readout`, `readout_shadow`, `init_*`, `check_empty`) is modelled
by its effect on these; a driver's failure is a fault drawn from a bounded
supply, at any call where the code looks at a result.

| code | model |
|---|---|
| `crate_readout_dt` | `DtEnter` (clear `eb_final`, re-init?), `DtLock` (lock, scalers), `DtSkip`, `DtOk`, `DtYield`/`DtRelock` (unlock, `sched_yield`, lock), `DtTimeout`, `DtFail`, `DtEnd` (inhibit, unlock), `DtState` |
| `crate_readout`, `dt_release`, `read_module`, `shadow_merge_module`, `check_empty` | `RoStart`, `RoRelease`, `RoSkip`, `RoRead`, `RoMergeBegin`, `RoMergeEnd`, `RoMergeFull`, `RoEndFail`, `RoEndCheck`, `RoEndReleased` |
| `crate_readout_finalize`, end of `f_user_readout` | `Fin`, `FinReconfig`, `FinState`, `Return` |
| `crate_deinit`, `crate_init` | `Deinit`, `DeinitModules`, `InitModules`, `InitRetry`, `InitLatch` |
| `shadow_func` | `ShZero`, `ShStop`, `ShLook`, `ShLock`, `ShSkip`, `ShBegin`, `ShCopy`, `ShFail`, `ShUnlock` |
| `crate_config_write` | `ConfigWrite` |
| the electronics, the trigger | `Accept` (faulty modules may miss an event), `Convert`, `Trigger` |

The one-second `DT_TIMEOUT` is long for the electronics and the shadow thread: a
time-out while one of them could still bring the module in step costs a fault
(`Hopeless` says when nothing can).

### How `Ctrl` corresponds to the code

The control thread of the DAQ answers requests over UDP. `Ctrl` models the path
of the datagrams (what they say is the subject of `CtrlData`): a datagram is "part *i* of the answer to
call *n* of client *c*", and `client_send_recv_seq` sees of it only what the code
sees, its number and id in eight bits each, and for a goc read the id of the call
in part 0. `net` holds what is under way *or waiting in a socket*: reordering
comes from its being a set.

| code | model |
|---|---|
| `ctrl_server_create`, `server_run`, `ctrl_server_free` | `Start`, `Handle` (with `Answer`), `Stop` (the byte in the pipe), `Quit` (the thread sees it, the socket is closed with what waits in it) |
| `udp_client_send` in `client_send_recv`, `client_send_recv_seq`, `ctrl_client_config` | `Call`, one request datagram |
| `client_recv` | `RecvOne`, `RecvSeq`, `RecvError` (ICMP error on a connected socket), `Timeout` (three periods) |
| the loop of `client_send_recv_seq`, `packer_lookup` | `RecvSeq` with `Acceptable`, `Whole`, `Unpacks` |
| the network | `Lose`, `Refuse`, and `Deliver` with or without keeping a copy |

A request that reaches the server between `Stop` and `Quit` is not handled:
`event_wait` prefers the pipe. The network and the server are *late* when
something of a call is still under way after `Patience` receive periods; each
such period costs one of `MaxLate`.

### How `CrateInit` corresponds to the code

`stage[m]` is how far a module has come (0 down, 1 slow, 2 fast, 3 post);
`hwc[m]` is the configuration that is in it, `conf[m]` the one in the tree. The
module list is walked one module per action, as the control thread can get at
the crate wherever the lock is open.

| code | model |
|---|---|
| `crate_init`: lock, `gsi_pex_init`, the loops over `init_slow`, `init_fast`, the batches, `post_init`, `check_empty` | `InitLock`, `InitPexOnce`, `InitPex`, `InitSlow`, `InitFast`, `InitBatch`, `InitPost`, `InitEnd` |
| its `init_done` label, `crate_deinit`, the wait | `UndoLocked`, `InitUndo`, `StopShadow`, `Down`, `Unmap`, `Sleep` |
| `crate_readout_dt` for a crate in `STATE_REINIT` | `Cycle`, `CycleReinit` |
| the end of `crate_readout_finalize` | `CfgLock`, `CfgModule`, `CfgSkip`, `CfgKeep`, `CfgEnd` |
| `crate_config_write` | `Merge` (`config_merge`, no lock), `LookUp` (the search of `module_configed_vec`), `AppendVec` |
| `ctrl` register and goc accesses | `Access`, `AccessRegs`, `AccessGoc` |

### How `CmvlcFetch` corresponds to the code

The sequencer delivers one list of words per event. A word is a count half, a
marker, or a block of data (named by its module and count); `Edit` loses,
doubles or replaces one, anywhere.

| code | model |
|---|---|
| `crate_cmvlc_free_running_fetch`, markers around an event | `NoEvent`, `GetEvent` |
| `crate_cmvlc_fetch_dt` for one module | `FetchDt` |
| `crate_cmvlc_fetch` for one module, `mesytec_mxdc32_parse_data` | `Fetch`, `Parsed` |
| the callers in `fuser.c` between and after them | `DtDone`, `DataDone`, `Return` |
| `f_user_init` on a crate that exists | `Reinit`; a backend that goes on regardless: `GoOn` |

### How the configuration models correspond to the code

`ConfigSnippet`: a client picks a list of items (`Pick`) and packs it token by
token: `PackNum` and `PackItem` are the loop of `pack_item_list`, `PackDup`,
`PackRaw` and `PackScalar` the runs of equal and of different scalars of
`pack_scalar_list`, `PackEnd` its return. `pack.rest` are the calls of
`pack_item_list` under way, with what each has left. A packed list is sent if it
fits into a datagram (`Send`) and dropped if not (`TooBig`). The datagram may be
cut short, as in the test's "Corrupt packer data". The server reads token by
token, once without writing and once writing, so that every early return is a
place where a partial merge would show: `ReadItem`, `ReadNum`, `ReadDup`,
`ReadRaw`, `ReadScalar`, `EnterBlock`, `EndConfig`, `EndBlock`. Scalars are type,
value and index. What a user sends has configs at the outermost level and in
blocks there, each config with scalars of different indices, or one empty scalar
(`SnippetAssumption`); that is what `scalar_get` and `parse_block` make of a
file.

`ConfigLoad`: statements instead of text. `IncludeFile`, `OpenBlock` (with the
search for a block of the same name and parameters, `assert_src_path` and the
files registered for the name), `CloseBlock`, `SetConfig` (`SetScalar` and
`SetVector` are the vector assignments by index), `EndFile`. `want` is the
reference definition: what the statements, in order, say about every path.

### How `CrateCreate` corresponds to the code

The blocks of a CRATE are read one after the other; `active` and `counter` are the
tags and the counter of the modules that follow, `tags` is the list of `CrateTag`
with its references, and `mods` the module list, with the tags each module was
written under (which the code does not keep). A signature is the set of its id
bits, the set of its fixed bits and those of them that are one.

| code | model |
|---|---|
| the cases of the loop of `crate_create` | `Tags` (`tag_get`, `get_counter` by name), `IdSkip`, `Barrier`, `GsiPex`, `AddModule` (`module_insert`, barrier check with `signature_match`, `trloii_multi_event`) |
| its checks at the end | `Created` with `Undefined` |
| `module_init_id_mark`, event_max of the tags in `crate_init` | `CrateInit` with `IdTaken`, `BusyLock`, `TagMax` |
| `g_tag` of `f_user_readout`, `crate_tag_counter_increase` | `Trigger`; a scaler counts or does not |
| `read_module` of the modules whose counter has moved | `Readout` |

### How `CtrlData` corresponds to the code

The server packs an answer field by field into datagrams (`Packed`, from
`packer_list_get`), and the client knows what comes next only from what it has
read: `due` is what it expects, and each action takes one field from the
datagram that `packer_lookup` finds for it. A field is its bytes, so that a
client that is out of step reads other numbers, not an error.

| code | model |
|---|---|
| `server_run`, the cases for crates, info, configuration, registers, accesses, goc reads | `Serve` with `AnswerFields`; `NotServed` where the server or the client ends the call before |
| `ctrl_client_crate_array_create`, `ctrl_client_crate_info_get` | `UnpackCrates`, `UnpackInfo` |
| `ctrl_client_config_dump` with its lists of items and of scalars | `UnpackConfigList`, `UnpackScalarList`, `UnpackScalar` |
| `ctrl_client_register_array_create`, `unpack_module_access`, `ctrl_client_goc_read` | `UnpackRegisters`, `UnpackAccess`, `UnpackGoc` |

### How `ConfigGet` corresponds to the code

One action per getter of `config.c`, with its checks in their order; where it
calls `log_die` the program is no longer `alive`. A double is an exact fraction;
a cast that does not fit into an integer is any of the results machines give.
`given` holds the items of which the program has all values, which the code does
not keep: it has `touched` (`is_touched`) only.

| code | model |
|---|---|
| `parser_create_bitmask` | `Loaded` |
| `config_get_int32`, `_uint32`, `_double`, arrays of them | `GetInt`, `GetDouble`, `GetIntArray`, `GetDoubleArray` |
| `config_get_keyword_` and `_boolean`, arrays, flexible arrays, strings | `GetKeyword`, `GetKeywordArray`, `GetFlexKeywordArray`, `GetString` |
| `config_get_bitmask`, `config_get_block_param_*` | `GetBitmask`, `GetBlockParam` |
| `config_get_block`, `_block_next`, and the end of a caller's loop | `GetBlock`, `GetBlockNext`, `Leave` |
| `config_touched_assert` | `TouchedAssert` |

### How `PexToken` corresponds to the code

The board's request and reply registers, the requests on the wire, the two
buffers of every front-end, and the `buf_idx` of the board and of each TAMEX are
variables; every register write is an action, since that is where the control
thread's access of the same registers can fall.

| code | model |
|---|---|
| `gsi_pex_readout_prepare` (no crate lock) | `Begin`, `PrepAddr`, `PrepData`, `PrepComm` |
| `crate_readout_dt`, `readout_dt` of the chains | `ReadoutDt` |
| `gsi_pex_token_issue_single`, `gsi_pex_token_receive`, the chains' `readout` and parsers | `ReadStart`, `Issue`, `Receive` with `ReadTamex`, `ReadCtdc`, `ReadFebex`; `Die` is `log_die` |
| `crate_readout_finalize`, `init_fast` of chains in the dead time | `Finalize`, `Reconfigured`, `Reinit` |
| `gsi_ctdc`/`tamex` goc accesses through the control thread | `GocClear`, `GocAddr`, `GocData`, `GocComm`, `GocRx` |
| electronics | `Trigger` (any set of chains may miss it), `Serve` |

### How the driver models correspond to the code

A word is a record: what it is (header, datum, trailer, filler ...), which board
or channel it claims, the count or number in it, and the event it comes from
(which the code does not see). Each driver module has operators for its
electronics (`Words`), its initialisation, its `readout_dt`, its transfers
(`Read`, per word or block, with the fillers `map_align` writes) and its parser.
The parsers are folds or recursive functions over the words with the states and
early returns of the code. `DriverReadout` gives each one an output buffer, a
counter, a way of transfer and a crate around it:

| code | model |
|---|---|
| trigger, module | `Event`; `Fault`: a trigger missed, one too many, a word or all words lost or repeated |
| `crate_tag_counter_increase`, scaler | `Begin` |
| `shadow_func` | `ReadShadow` |
| `crate_readout_dt` with `readout_dt` of the driver | `ReadoutDt` |
| `read_module` or `shadow_merge_module`, `parse_data`, `check_empty` | `Readout` |
| `crate_readout_finalize` | `Finalize`, and `Reinit` with what `module_counter_latch` takes |

### How `ModuleSettings` corresponds to the code

A register is represented by the settings (and fields of the driver) it was
computed from and what they were: equal contents mean that the code must have
computed the same. So the model knows when, on which condition and from what a
register is written, but not the number in it. `mod.my` is the driver's
structure, `mod.reg` the hardware, which stays on when the program ends.

| code | model |
|---|---|
| `config_write` through `ctrl`, or an edited file | `Edit` |
| `module_create` in `crate_create` | `Create` with `CreateModule`, `CreateRefused` |
| `crate_init`: `init_slow`, `init_fast` of the driver | `BringUp` with `Initialised`, `InitRefused` |
| `crate_readout_finalize` working `module_configed_vec` off | `Online` (which ends the program for a driver without `post_init`, see `null_call`) |
| the program ends, or `log_die` has ended it | `End` |

## 3. Runs

All runs but `cmvlc` set `CHECK_DEADLOCK FALSE`: when the bound on events,
calls, merges or files is used up and everything is idle the model stops, as a
crate without beam does. `cmvlc` has no such bound on events.

| run | question | instance |
|---|---|---|
| `readout_shadow` | do cycles deliver exactly their events (`Complete`), are counters aligned after re-init (`Aligned`), are buffers never shared (`NoOverlap`)? | 2 shadowed early modules, 3 events, 2 faults |
| `readout_mixed` | is the dead time released after the late module (`LateModulesInDeadtime`), are re-configs applied in the dead time only (`ReconfigInDeadtime`) and never passed over (`ReconfigNotSkipped`), does the cycle implement `EventStream` (`ImplementsEventStream`)? | late module, shadowed early module, barrier; 3 events, 1 fault, 1 re-config |
| `readout_overflow` | does the dead time always end, also when shadow buffers overflow? | 2 shadowed modules with one-event buffers, 2 events per trigger, 1 fault |
| `crate_init` | is a crate said to be prepared complete (`PreparedIsComplete`), is the lock held and given back (`LockDiscipline`), has the shadow thread modules (`ShadowHasModules`), which written configuration may be lost (`LostOnlyWhenLate`), does the crate come up (`ComesUp`) and is the list worked off (`WorkedOff`)? | 2 modules, PEX board, shadow thread, 2 failing steps, 2 configurations written |
| `cmvlc` | is an accepted event the whole event in step (`AcceptedIsWhole`), is an intact one never refused (`RefusedForCause`), does the fetch get back in step (`Recovers`)? | 2 modules, counters of 2 x 2 values, 3 callers, 1 edited event, 2 missed triggers |
| `config` | does a merge do exactly what was asked (`MergeIsExact`) or nothing (`RefusedLeavesNoTrace`), when does it end the program (`DownForCause`); does the tree say what the files say (`TreeSaysWhatFilesSay`), and which files are refused as duplicates (`OverwritingLoads`); does the tag of a trigger do for its modules what their readout relies on (`TagsServeModules`), and can neighbours be told apart in the data (`NeighboursDiffer`); is what a client has stored what the server has (`AnswerIsTrue`), and does no call fail without a cause (`FailsForCause`); does a getter give what the file says, in its unit and range (`GotIsMeant`), and does no setting stay unread unnoticed (`UnusedIsReported`)? | trees, snippets, files and blocks of `MCConfig`; 2 merges; 4 blocks in a crate, 1 trigger; answers of `MCData` in datagrams of 4 sizes; uses of `MCGet`, integers of 12 bits |
| `pex` | is what is delivered the event asked for (`AcceptedIsEvent`, `OtherEventForCause`), has every alarm a cause (`AlarmHasCause`), does a goc access reach its register (`GocIsTrue`)? | one chain of each kind, CTDC with TAMEX, TAMEX with FEBEX; boards old and new; 3 triggers, 1 missed, 1 goc access, 1 chain configured again |
| `drivers` | does an accepted cycle have its events, each once and in order (`AcceptedIsEvents`), and is none refused without a fault (`RefusedAfterFault`); has a module what a start with the settings in force would give it, whatever was there before (`AsStarted`), and does every setting make a difference (`ChoiceIsHeard`)? | every driver, transfer and mode but 64-bit transfers of the V1n90; 2 channels, counters of 16, event numbers of 4; 4 events, 2 in a cycle, 1 fault; without scaler and with one at 5 or 13; data of the V830 whose bits at the place of a header's count are 0 or 2. Thirty drivers, one setting edited |
| `ctrl_timely` | does every call get its own, whole answer, although the socket is never emptied? | 2 clients, one of another version (MD5); 2 calls each of one, two or more datagrams, a restart of the server, one lost datagram |
| `ctrl_lossy` | do calls return, and has a successful goc read been executed? | 1 client; one datagram lost, one doubled, one period late, a restart |

*Bounds.* Two modules are enough for one to be in step while the other is not
and for one failing while the other has switched its buffer; the mixed list has
one module of each kind. Three events give a failed, a re-initialised and a good
cycle in a row; two faults let the re-init itself fail. `EventMax` is the number
of events the electronics take per trigger. In `Ctrl` two calls let one leave
something for the next, answers of two datagrams can arrive in either order and
be mixed, and `NodeMax = 2`, `NumMod = 4` stand for 32 and 256. In `drivers` two
channels let words be exchanged inside an event, two events per cycle between
events, and four events give a fault before, in and after a good cycle; a
counter of 16 is wider than the parser's cut-off of 4 plus two events, as the
real one (2^24, 10000) is, and 5 and 13 are scalers outside and inside the
cut-off of the wrap. There the module's counter, the event number in its data and
the crate's counter have three widths; in `cmvlc` all counters have the same. In
`pex` three triggers fill both buffers of a front-end and
one of them again. In `config` `Room = 12`, `RawMax = 3` and `DupMax = 3` put the
limits of a datagram and of runs (128, 129) between what two items need; four
blocks are two modules with a barrier and a block of tags between them, or two
blocks of tags with a module each, and `Skips = {8, 31}` gives ids that two bits
of a signature share and such that have no room in five. `MaxCut = 3` takes the
end off a datagram in front of each kind of token. One trigger of any tag is enough there: what it
adds to counters does not depend on those before it. Datagrams of 8, 9 and 11 bytes cut an answer at every
field, the real 506 not at all or in a long list; a word of 12 bits lets values in a unit a thousand times
larger overflow when they are converted, negative ones wrap, and ranges of a bit
mask pass the end. In `drivers` one edited setting shows what a second start or a
re-configuration leaves behind of it (two were tried once, 2.5 million states,
with the same result). The type invariants of `readout_shadow`, `ctrl_timely` and
`crate_init`, and the lock and dead time of `readout_mixed`, are proved and no
longer run. In
`crate_init` two failures let the second attempt fail as well, two writes let
one come while the other is being applied.

*Fairness* (`FairSpec`). Each thread is scheduled (weak fairness); a thread that
waits for the mutex gets it in the end (strong fairness of the locking steps:
the other thread releases it and yields with `sched_yield` every time round);
conversions end; the clock runs, so a busy wait that lasts is timed out (strong
fairness of `DtTimeout`, as the wait alternates between having and not having
the lock). Triggers, faults and requests get no fairness. In `Ctrl` a client that waits
gets a datagram, an error or the end of its period (`poll` returns), and what is
under way is handled or refused; starts of the server and calls get none. In
`CrateInit` the readout thread's steps are weakly fair and its locking strongly,
as above; the control thread's steps are weakly fair once it has begun a request,
so that it gives the lock back. Failures are bounded, which is what "as soon as
the modules answer" means for a loop that tries for ever. In `CmvlcFetch` (`Next`
weakly fair) the backend calls again and again. `PexToken`, the configuration and
the drivers are checked for safety only, without fairness.

### What the code does otherwise than it says

Two disagreements are runs with `expect: violation`, whose counterexamples show
them:

- `late_after_barrier`: `for_it` counts waited-for modules in one loop and list
  entries in the other; a barrier or skipped entry before a module that does not
  support early release moves the release before its readout.
- `null_call`: `crate_readout_finalize` calls `post_init` of a module with a new
  configuration without the look at the pointer that `crate_init` takes.

The modules also state properties that docs or comments give and the code does
not have. They are not in a run; adding the definition to the configuration
named shows the counterexample.

| definition | configuration | what happens |
|---|---|---|
| `NoErrorWithoutFault` | `readout_overflow` with `MaxFaults = 0` | `shadow_func` looks at the space of buffer 0 only; while that is full nothing is read into the empty buffer 1, and the cycle times out |
| `GoodHeader` | `readout_shadow` | a REINIT set by the shadow thread between the two phases makes `crate_readout` return 0 without reading; the event is flagged good |
| `ReconfigNotSkipped` | `readout_shadow` with `EarlyDt = {1}`, `MaxWrites = 1` | a cycle that re-initialises in `crate_readout_dt` "waits until the next event", says the comment; the code goes on to `crate_readout` with the release point of an earlier cycle, `is_on` keeps the value 0, and re-configs stay pending |
| `OnlineIsServed` | `ctrl_timely` with `Lens = {1, 3}` | the client takes 32 datagrams, the server sends what it needs; the rest stays in the socket, and "is online" is answered by one of them even if the server has gone |
| `GocOwn` | `ctrl_lossy` | the id of a goc read is in its first datagram only; a late second part of an earlier read is returned with the present one |
| `NothingLost`, `NoFault` | `crate_init` | a configuration written while `crate_readout_finalize` works the list off is found "pending" and cleared with it; a goc access between `gsi_pex_deinit` and the end of `crate_deinit` finds an unmapped board |
| `EveryMismatchNamed` | `cmvlc` | an error of one module is taken for data out of place by the next, so the "check of all others" never happens |
| `MergeIsAtomic` | `config` | a list with more scalars than an item has passes the dry run and ends the program in the second |
| `RawRunComplete` | `config` | a raw run that reaches its limit announces 128 scalars and carries 127, so a long list of different scalars is refused |
| `BarriersDemanded` | `config` | a MADC-32 beside a V1190 under one tag needs a barrier and none is demanded |
| `ReopeningLoads`, `RepetitionIsCaught` | `config` | a block opened twice is refused only if its values are repeated by the same file, and the repetition of a block that an automatic file has opened is not seen |

In `CrateCreate` the properties have these exceptions. An automatic counter is
named after line and column of its TAGS block, not after its file
(`crate.c:512-519`), so that two blocks at the same place of two included files
share a counter (`SamePlace`), although "every combination of tags creates a
unique event counter" (`doc/index.tex:352`). An id is not checked against the
bits its module has for it (`TooWide`); only the V7nn and the V1725 report the id
they got. Two words without an id (`SameWord`: V767A, SIS 3316, dummy, and the
fillers of all) are the same whatever the signatures say. And there are neighbours
that no barrier is demanded between although their data can begin alike
(`Unasked`; `BarriersDemanded` above is the property without this exception):

- The Mesytec signatures have `0x2 << 30` (`mesytec_mtdc32.c` and the other four),
  where `mesytec_mxdc32.c:372` accepts `0x40000000` only, so 1 in these bits; that
  of the V1190 has `8 << 23` where a header is `8 << 27` (`caen_v1n90.c:659`). A
  V1190 and a Mesytec module have the same two topmost bits in the data and others
  in the signatures, which therefore never match.
- `dummy.c:240` has `0x1234` in the lower half, `dummy.c:534-540` writes it to the
  upper one; beside a V7nn with geometric address 2 this makes the difference.
- The MADC-32 has no `event_max` before `init_slow` (`mesytec_madc32.c:252`), so the
  check passes it over.

What answers and getters do otherwise than one would expect (exceptions of the
properties in brackets):

- *Answers.* `ctrl_client_crate_info_get` unpacks `event_max_override` and stores
  it nowhere (`ctrl.c:475-491`), although `nurdctrl` prints it (`nurdctrl.c:308`);
  the unit of an integer is stored in the member for doubles. An access list of
  255 reads is taken for an error, and one of 256 always fails, its index having
  8 bits. That a crate is not found is packed with 16 bits and read with 8. In an
  empty list `get_crate` and `get_module` walk from a null pointer
  (`NullDereference`). Of the registers of a module that is not mapped only the
  type is sent, and the client fails. A configuration with a raw run at the limit
  cannot be dumped (`Curtails`).
- *Getters.* A negative value for an unsigned setting becomes the maximum
  (`Wraps`: thresholds of the V895, `reset_time` of the MDPP). A value too large
  after its conversion is undefined, the smallest integer on x86 (`Overflows`).
  Doubles in lists of integers without unit are cut off, those in a unit are
  rounded (`CutOff`). A list with holes is stored by
  position (`Holes`); block parameters that are keywords or strings are found by
  position, integers by index. Ranges beyond bit 31 are taken modulo 32
  (`WideRange`).
- *`config_touched_assert`* is called for the blocks of a crate without their
  contents (`crate.c:730`) and for modules with them (`crate.c:1194`), but never
  for the outermost block, so that a misspelt setting there is not noticed; the
  parameters of blocks are not checked, and of a list only the first value may be
  read (`OnlyFirst`).

In `ModuleSettings`:

- *Settings without effect* (`Unheard`). `clock_input` of the V1725 is overwritten
  when the acquisition is started (`caen_v1725.c:919`), and its
  `trigger_flag_downscale` is clamped to code 0; the VMMR-8 does not use
  `trigger_output` and `trigger_output_src`, and checks `ecl[1]` three times; the
  `test_pulse_delay` of a TAMEX is always 0; `gate_time` of the VUPROM;
  `use_peak_charge`, `write_histograms` and `baseline_delay` of the SIS 3316.
  `init_sleep` is timing only.
- *Registers that one choice writes and another leaves alone* (`LeftBehind`): what
  was there before stays, until the power is switched off.
- `micro_init_fast` of the V1190 writes nothing. The MDPP check that a chosen
  trigger input is configured knows the codes 35 and 36 of a module with 32
  channels only (`mesytec_mdpp.c:271-272`). A negative
  `threshold_offset` of the CTDC is kept as a `uint16_t`. The four
  `internal_trigger_delay` of a SIS 3316 group are combined without a shift.

In the drivers, the following came up while translating; where a property has an
exception for it, its name is given.

- *PEX chains.* The FEBEX readout advances the pointer of the event buffer but
  not its size (`gsi_febex.c:736`), which `read_module` answers with `log_die`
  (`crate.c:2207`): a token that is answered ends the program (`Die`). It has no
  sequential mode, though `cfg/default/gsi_pex.cfg:21` makes that the default,
  and `gsi_febex.c:524` masks bits 12 to 15 and shifts by 16, so that every SFP but 0 is refused.
  The count that a TAMEX is compared with in the dead time is the driver's own
  count of buffer flips, so that check is empty; the CTDC compares the count in
  its data only if a channel has a trace. With an early release a chain that
  missed a trigger delivers the next event with a count that is right
  (`OtherEventForCause`). A parallel token before PEX5 is written without the
  lock, so its words mix with those of a goc access (`GocIsTrue`), which says
  success when it fails. A TAMEX accepts an event of no words.
- *V7nn.* The parser compares with the crate's counter as it is, not with
  `this_minus_crate` (`ScalerTooNear`). With a shadow buffer and block transfers
  the output pointer is never advanced (`caen_v7nn.c:746-754`). Transfers word by
  word and shadow transfers wait in vain for an event that has no data
  (`WaitsForNothing`). Block transfers without bus error write one word past
  their check of the space (`caen_v7nn.c:600-640`).
- *V830.* A word is refused as a header only if mark *and* board number are wrong
  (`caen_v830.c:234`; `PassesForHeader`). With a resolution of 32 bits the data of
  an event are skipped (280-282) without the looks at mark and channel that those of
  26 bits get: a header repeated by the module takes the place of a datum, and where
  the dead time is released before `check_empty` would find the word left over, the
  cycle is accepted with two headers of one event (`PassesForDatum`). The length of a
  block transfer is not looked at. An MBLT is rounded up to an even number of words
  (`map.c:103`), and the word behind the data, whatever was in the memory, must then
  be a header: an odd number of words, as of one event with all 32 channels, is
  refused as a rule (`RoundedUp`).
- *V1190/V1290.* Fillers of a 64-bit transfer to an unaligned buffer are compared
  with the number of the header; `was_full` survives `init_slow`.
- *V767A.* `init_fast` clears the module's counter but the crate latches the one
  that was last read (`LatchedStale`): after a re-initialisation it is out of
  step until the program is started again. Of several events one is read
  (`OneForAll`); a wrong number of hits is only logged.
- *Mesytec.* `mesytec_mxdc32_parse_data` has no case for the MDPP-32 QDC
  (301-346), which ends the program; a shadow buffer filled by block transfers
  advances by what was asked for plus a word (815-835); no words at all are an
  empty event; the filler of an MBLT is not in the check of the space.
- *SAM.* A trigger too many shifts all events that follow, with nothing to tell
  (`OneLate`); a second attempt of `readout_dt` waits for a flag that the first
  has cleared.
- *SIS 3316.* `sync` asks for the event counter for ever, with the lock, if it is
  not the one expected (about 2185; such states go no further in the model);
  `auto` delivers the last bank again if there was no switch (`SameBank`), where
  the comment says "return without any data"; `async` counts every event twice,
  in `readout_dt` and in the parser (`CountsTwice`), and disarms the bank it has
  swapped in, so that nothing is sampled until the next trigger. A hit that does
  not parse ends the program.
- *SIS 3820.* The parser counts the fillers of an MBLT (after a header of one
  word, or for an odd number of words) as data, and refuses the cycle
  (`FillerCounted`).
- *Vetar, Pexaria.* `gsi_etherbone_readout_dt` adds the fill level of the FIFO at
  every attempt (`gsi_etherbone.c:572`): when a timestamp is late the count
  overshoots and the cycle is refused (`AddedAgain`), or makes up for one that
  never comes (`CountedAgain`). `gsi_vetar_check_empty` always says empty
  (`gsi_vetar.c:44-49`), so a timestamp left behind goes out with a later cycle
  (`LeftOver`).

Read but not modelled: the VUPROM reports a counter that only its parser
advances, and never has data (`gsi_vuprom.c:294`, `414`); CROS3 clears a length it has just
set and writes a hit number past its array (`pnpi_cros3.c`, `rewrite_data`);
the SIS 3801 counts in the parser only, one behind the crate; `readout_dt` of
the SIS 3820 (not the scaler) ends the program. The VFTX2 compares no counter (its
mask is 0), so `DriverReadout` allows it what only a count would tell.

## 4. Proofs

All proofs are for every value of the constants that the modules' named
assumptions allow; the bounds of the runs (`MaxEvents`, `MaxFaults`, ...) are
arbitrary numbers in them. A theorem that needs more says so in its statement.

### `CrateReadout`

For every list of modules, buffer size, number of events, faults and re-configs
(`ListAssumption`, `ModeAssumption`, `SizeAssumption`):

- `TypeCorrect`: the type invariant.
- `LockIsHeld`, `DeadtimeIsHeld`, `ReconfigsInDeadtime`: the lock discipline; the
  dead time is on unless released by the cycle; re-configs happen inside it.
- `BuffersNeverShared`: no buffer is used by both threads. Assumes that no
  shadowed module has `skip_dt`: such a module's buffers are never switched.
- `LateModulesReadFirst`, `IsOnIsTrue`, `ReconfigsNotSkipped`: the release point.
  Assume what is needed: nothing is passed over before a late module
  (`NothingBeforeLate`; `late_after_barrier` shows why), and the list does not end
  in one (`LastNotLate`; `ReconfigNotSkipped` above).
- `CountersKept`, `CountersAligned`: the counters of scaler, crate and modules
  stay in step from one re-initialisation to the next.
- `ContentsKept`, `CyclesComplete`, `ImplementsStream`: every good cycle hands out
  exactly its events, and the crate implements `EventStream`. Assume
  `NothingBeforeLate` and `Shadow \cap SkipDt = {}`, since either failure lets data
  change while they are read.

*The argument for the buffers.* `NoOverlap` is not inductive. The readout thread
merges buffer `1 - buf_idx` after the switch in `crate_readout_dt`
(`OwnBuffer`), and the shadow thread begins a copy only with the lock
(`LockHeld`), so a switch cannot fall into a copy. What remains is a *new* shadow
thread, which clears all buffers without a lock. A cycle that merges has seen
every shadow counter in step with a crate counter that has moved
(`CounterMoves`, from `TriggerNew`: a trigger is for an event the crate counter
has not counted); but a shadow thread that has not run has no data, so its
counters are where `crate_init` latched them (`NotYetRunning`), hence the cycle
fails instead. `ReleasedOnce` and `ReinitPhase` say where a cycle can be when it
has released the dead time or re-initialises. Their conjunction
`BuffersApart` is inductive; `ReleasePoint` is the corresponding invariant for
the release point, with `DueInhibits`: the re-configs that `crate_readout_dt` has
seen keep `do_inhibit` set up to the place where the release would be, and
`is_on` says so to `crate_readout_finalize` from there on.

*The argument for the counters* (`Counting`). While the dead time is on the crate
counter is the scaler (`CounterIsScaler`). A module has counted, or is about to
count, exactly what the scaler has, shifted by the offset `crate_init` or
`crate_readout_finalize` latched (`Placed`), unless it missed an event; then it is
behind, and stays so: it can never pass the check of `crate_readout_dt` again.
So a module that has passed it has everything (`LatchedWhole`). This holds only
while the crate is not about to re-initialise (`Kept`), which is what
`REINIT` is for.

`Aligned` is about the modules that `crate_readout_dt` waits for. It does not hold
for one with `skip_dt` that has been re-configured: its counter is not read in
the dead time, so `crate_readout_finalize` latches an old value. Nothing compares
that counter afterwards.

*The argument for the data* (`Contents`). What a module is converting, what it
holds, and what is in the shadow buffer being filled is one run of numbers
without a gap, and the counters say where one part ends and the next begins
(`Held`). The batch of the cycle is a run as well: from the switch on in the
other shadow buffer, or at the head of what the module holds, however much comes
in behind it after an early release (`Left`); merging or reading it moves it to
`eb_final` (`HandedOut`). The refinement follows step by step: `Accept`, the
end of the dead time, a cycle that ends well and one that fails or
re-initialises map to the actions of `EventStream`, everything else stutters.

### `CrateInit`

For any number of modules, failures and configurations, with or
without a PEX board and a shadow thread (`SizeAssumption`, `SetAssumption`,
`ModeAssumption`): `InitTypes`, `Locked`, `Prepared`, `ShadowMapped` and
`NotLostUnlessLate`, that is `InitTypeOK`, `LockDiscipline`, `PreparedIsComplete`,
`ShadowHasModules` and `LostOnlyWhenLate`. *The argument:* the safety properties
are not inductive. `IInv` adds to the types what each
place of `crate_init` may rely on, the stages of the modules before and after the
one it is at (`Stages`: in the loop over `init_fast` all modules before are fast and
all others slow, and so on, including an attempt that is undone half way), and
when the shadow thread can run (`Running`); the lock's owner follows from the
places alone.

### `Ctrl`

For any number of clients of either version, any number of calls,
restarts and lost datagrams (assumptions `KindAssumption`, `SizeAssumption`,
`BoundAssumption`):

- `TypeCorrect`: the type invariant, with at most three periods per receive.
- `NothingIsStale`, `CallsGetTheirAnswers`: as long as the network has doubled
  nothing and has not been late, no datagram of an earlier call is about and
  every call that succeeds returns its own whole answer. Assume that the three
  periods of `client_recv` are no less than the network's patience (`Timely`),
  that the clients only read (`ReadOnly`: a new configuration is not answered,
  so the client does not know when it has been handled), and that no answer is
  longer than a client takes (`Short`; `OnlineIsServed` above shows why).
- `GocIsExecuted`: a goc read that returns a value has been executed, on any
  network; what a client has collected was sent for that call, since its id is in
  the first datagram (`ServedInv`).

*The argument for the answers.* `OwnReply` says nothing about what waits in the
socket. `Fresh` adds that whatever is under way for a client belongs to the call
that it is waiting for, and is either the request alone or parts of the answer;
that what the client has collected is no longer under way; and that an error is
pending only when the request has been refused. A sequence of its own parts is
never rejected, since the ids differ, so a call ends when all parts are in (and
none is left), when nothing can come any more, or when it was refused.

### `CmvlcFetch`

For any number of modules, counters of any width and any number of faults
(`SizeAssumption`, `ModeAssumption`, `BoundAssumption`): `AcceptedWhole` and
`RefusedWithCause`, from the inductive `Inv` (`FetchInv`). *The argument:* an event
that nothing was done to has each word at a place that depends on the module
only (`DtAt`, `DataAt`), and the position is that place all along (`Placed`), so
that a lost or a doubled word is found by the length at the latest. A word that
was replaced is one that is compared: a marker, a feed, a counter, or a block
that has another owner (`Framed`, `Counted`, `Taken`). A module that missed
triggers is behind by their number modulo the range of the counters (`Behind`,
`Lag`); `AcceptedWhole` assumes that this is not a whole turn (`MaxMiss < Mod`,
that is fewer than 2^32 triggers missed), where the code could not tell.

### `PexToken`

For boards with one to four adjacent chains of any kinds, in every configuration,
and any number of triggers, misses, accesses and new configurations
(`CrateAssumption`, `BoundAssumption`): `EventIsDelivered`, `TamexIsChecked`,
`NoFalseAlarm` and `AccessIsTrue`. *The argument:* one of the two threads has the
lock (`Locked`), and a cycle that the control thread has not disturbed has the
request registers for itself. The buffer index, the crate's count and the token
counts agree (`Cycle`); a chain that has missed no trigger has the event being
read and the one that waits each in its buffer (`InStep`), and nothing that any
chain holds is ahead of the crate (`Behind`). With what is on the wire and in the
reply registers of such a chain, these give what a readout can find. They also
give that the comparison of a TAMEX's counter in `readout_dt` never fails:
both sides count how often the buffers were switched (`CountersMatch`), so that a
TAMEX out of step is found by the event counter in its data.

### `CrateCreate`

For any blocks in any order and number, from any files, and any triggers
(`CreateAssumption`): `TagsServe` and `NeighboursAreTold`, that is
`TagsServeModules` and `NeighboursDiffer`. *The argument for the tags:* a
counter remembers the sets of tags it was made for (`Made`), a tag has the
counters that were made for it (`Linked`), and refers to its modules (`Listed`).
So a counter that was made for one set of tags advances with a trigger if and
only if its modules have the trigger's tag; between triggers no counter has
moved (`Running`), so a module that is read out was meant by this trigger, and its
tag announces it. What `crate_init` sets for a tag is the least that its modules
hold.

*The argument for neighbours* has two halves. The first is an invariant (`TellInv`,
`BarriersAreDemanded`): ids grow along the module list, a tag lists its modules in
that order (`Ordered`), so those of a tag behind a module are behind it in the list
as well, and if there is no barrier between them the module is one of
`SinceBarrier` when the next comes: it has been compared with it (`Demanded`). The
second is about words (`ToldApart`). Of any two first words either one has the
other's shape, or a bit that both have fixed is different (`FarOrNear`), and no
id can hide that (`ApartNotAlike`). Words of one shape are told apart by their
ids, if these have room: two numbers below `2^n` differ in one of `n` bits
(`BitsTell`). The pairs of shapes that remain are those of types whose signatures
match (`NearMatch`), for which a barrier was demanded, and of `Misdeclared`.

### `ConfigGet`

For any tree the parser makes, any requests in any order, and integers of any
width (`GetAssumption`): `GotAsMeant` and `UnusedReported`, that is `GotIsMeant` and
`UnusedIsReported`, from the inductive `GetInv` (`GettersKeepInv`). The assumption on
the trees (`IsItem`) is what the parser makes: an item is in a block of the list,
scalars have a known unit, numbers where they need some. The one on the requests
(`IsRequest`) is what the calls in `src/` have in common: a range is not empty,
fits the integers that the getter computes with, and fits the elements of the
array it is stored in (for an unsigned array, its upper end does).

*The argument.* A value in another unit is a fraction with a positive
denominator (`InUnitType`); rounding is off by a half at most (`RoundedIs`), so the
rounded value, limited to the range, is the nearest of the range
(`ClampedIsNearest`: a value below the range gives its lower end, from which every
other is further); it survives the limits of an unsigned getter and the width of
an element (`RegularInt`, `ElementKeeps`) unless it is one of the conversions the
property names. In the table of a flexible array, the keywords that
`config_get_flex_keyword_array_` looks through for the `j`-th value are those after `j - 1`
ends (`PartHolds`). A bitmask made when the file was read has the bits of the
list if no range is wider than the word (`BitmaskMeant`). For the unread settings,
`GetInv` keeps that a marked setting was taken whole or is a list read as one value
(`TouchedIsGiven`), that marks are never taken back, and that all that
`touched_traverse` came to in a block that passed is marked (`PassedIsTouched`).

### `ConfigSnippet`

For any tree, any lists a user writes, of any length, any limits of runs and of a
datagram, and datagrams cut short anywhere (`SnippetAssumption`,
`PackAssumption`): `RefusalIsClean`, `MergesExactly` and `GoesDownForCause`, that is
`RefusedLeavesNoTrace`, `MergeIsExact` and `DownForCause`. The inductive invariant is
`SnipInv` (`SnipInvIsInvariant`); for the first of the three its part `DryInv` is
enough: before the second pass nothing is written, and only the first refuses.

*The argument* for the other two must relate what the reader has at some token to
what the user gave, although the packing is a recursion over the list. It is done
without one. A *place* (`Shape`) is a point of the user's list: which item, in
which block, how many scalars are done, in a run or not, and how many tokens are
before it. `Leads` says which places may follow a place, `Says` which tokens are
packed on the way. `PackInv` keeps that the packer is at a place, and that every
place it was at leads to another one with the tokens `Says` tells in the packed list.
So a sent list is `Charted`: there is a set of places, with the first in it and
with a successor for each but the last, along which the datagram can be read.
The reader stands at a place of that set as well (`ReadsAt`). In the first pass
(`Tries`), the places behind it are those it has `Passed`: types, names and
lengths were accepted there. In the second pass (`Repeats`) it goes through the
same places, since the tree's shape and types have not changed (`SoFar`: an
item that is done, by `DoneAs`, has the list given for it, every other one is as it
was). What was passed once does not fail again, so the second pass can only go
down at an index that the item has not, and a first pass only at a scalar behind
the last of an item: the two causes `DownForCause` names. Parameters of blocks
are the third, and lists with them are set aside (`Usual`): their scalars stay in
`scalar_list` and are merged into the next config.

### What is only model-checked, and why

- *Liveness:* `DeadtimeEnds`, `CallReturns`, `ComesUp`, `WorkedOff` and
  `Recovers`. Liveness under fairness is out of the prover's reach.
- *Recursion over data:* the configuration's files (`ConfigLoad`), the answers of
  the control server (`CtrlData`) and the drivers' parsers (`DriverReadout`) walk
  trees, packed lists and buffers with `RECURSIVE` operators, for which the prover
  has no backend: `TreeSaysWhatFilesSay`, `OverwritingLoads`, `AnswerIsTrue`,
  `FailsForCause`, `AcceptedIsEvents` and `RefusedAfterFault`. What the files say
  and what the answers should be are themselves defined by recursion, so that
  an invariant alone, as for `ConfigSnippet`, would not replace it.
- `AsStarted` and `ChoiceIsHeard` of `ModuleSettings` are about finitely many
  drivers, one table each; the only constant is the number of edits of the
  configuration, so a proof would say little more than the run.

## 5. Not modelled

- *Crate*: free-running mode of the crate without a sequencer; counters without
  scaler and their masks; the adaptive conversion time (ACVT); several
  crates; in `CrateCreate` the settings that are only copied, and the readout of
  several tags at once; the memory of `module_configed_vec`; that a new shadow thread clears buffers one word at a
  time; the event buffer's layout. Batches of initialisation are one step.
- *Sequencer*: the upload of stacks; more than one kind of driver.
- *Control*: goc writes (which send a datagram whose length is not set,
  `src/ctrl/ctrl.c:572`).
- *Configuration*: what becomes of the bytes behind a run that carries one scalar
  less than it announces (`RawRunComplete`; the model refuses at that place); the lexer, and the setters `config_set_...`, which only tests
  use; how a double is rounded.
- *Drivers that are modelled*: the numbers that settings become in registers,
  memory tests, pedestals, log output; the `skip_dt` transfers; the external clock of
  the MxDC32; 64-bit transfers and TDC errors of the V1190 and V1290; SAM
  triggers other than 1 and the rewriting of CROS3 data; hits that reach an SIS
  3316 during its readout, its thresholds, discarding and the external gate.
- *Readout of other drivers*: the V1725 (whose readout takes whatever the module
  has), Vetar and Pexaria through the Etherbone library, the SIS 3820 scaler
  without latching (one snapshot for a cycle, no event to compare), TRLO II,
  VUPROM, CROS3, SIS 3801 and 3820. *Settings*: those of the SAM and of TRLO II.
- *Outside*: mapping and bus access, build support, tools, mocks; see the
  components in `PROJECT.json`.

## 6. Plan

1. Proofs: the readouts of `DriverReadout` that need no parser's recursion, and
   the answers of `CtrlData` by places, as in `ConfigSnippet`.
2. Free-running mode, and counters without a scaler, in `CrateReadout`.
3. The remaining drivers in `DriverReadout`: TRLO II, V1725, SIS 3801 and 3820.
4. Pure algorithms, one module: `COUNTER_DIFF` with masks of different widths,
   ACVT, pedestals, packing, suppressed logging, against reference definitions.
