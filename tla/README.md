# Verification of the oneplus6 device tree

TLA+ models of the programs in this repository, TLC runs that check them on
small instances, and TLAPS proofs for every value of the constants.  `src/`
below is the repository.

Check a run with `tlc -config <run>.cfg <MC module>.tla` and a proof with
`tlapm <module>.tla`.  PROJECT.json lists the runs, the mutants that show that
each property can fail, the source lines of every definition, the hazards of
the code, and the theorems.

## 1. Inventory

| Component | State | Operations | Interacts with |
|---|---|---|---|
| **Boot chain swap** (`gpt-utils.cpp`: `gpt_pentry_seek`, `gpt_boot_chain_swap`) | a partition entries array in memory | exchange the entries of `abl` and `ablbak`, … for each name of `PTN_SWAP_LIST` | called by `gpt2_set_boot_chain` |
| **Failsafe boot update** (`prepare_boot_update`, `prepare_partitions`, `gpt2_set_boot_chain`, `gpt_get_state`, `gpt_set_state`, `gpt_utils_set_xbl_boot_partition`) | on the device only: two GPTs per LUN, the UFS boot LUN | the stages `UPDATE_MAIN`, `UPDATE_BACKUP`, `UPDATE_FINALIZE` | called by the updater, which writes images between the calls; the boot loader reads the tables |
| **`gpt_disk` handles** (`gpt_disk_alloc` … `gpt_disk_commit`) | copies of the tables in memory | read, edit an entry, recompute CRCs, commit, free | the boot control HAL; the same tables as the boot update |
| **Charge cycle counts** (`health/CycleCountBackupRestore`, `cycle_count_backup`) | bins in memory, in a file of /persist and in the fuel gauge | `Restore` at start, `Backup` after a rise of the level | healthd; the fuel gauge driver, which counts meanwhile |
| **Learned capacity** (`health/LearnedCapacityBackupRestore`) | a number in memory, in a file and in the gauge | `Restore`, `Backup` at every battery update | the same |
| **Audio policy** (`policy_hal/AudioPolicyManager.cpp`) | phone state, `mvoice_call_state`, open outputs with their session and open count, inputs, `mIsInputRequestOnProgress`; the HAL's `rec_play_conc_on`, the capture state of the sound trigger service, the suspended primary output | `isOffloadSupported`, `getOutputForAttr`, `releaseOutput`, `getInputForAttr`, `startInput`, `stopInput`, `setPhoneState`, `setForceUse`, … | players, recorders and the telephony service through AudioPolicyService; the audio HAL, AudioFlinger, the sound trigger service; the base class `AudioPolicyManager`, not in the repository |
| **Audio configuration helper** (`policy_hal/APMConfigHelper`) | properties and build options, read once | getters | the audio policy |
| Partition map, device nodes (`gpt_utils_get_partition_map`, …) | none | look up paths over symbolic links | the boot update, `gpt_disk` |
| `sparse_crc32.cpp` | none | a CRC | |
| Storage info (`HealthServiceDefault.cpp`) | none | parse sysfs files | |
| Lights (`lights/Light.cpp`) | the last request of three RGB clients | `setLight` | sysfs LED files; HIDL threads under one lock |
| Key handler (`DeviceParts/.../KeyHandler.java`) | sensor registrations, proximity and torch flags, settings | key and gesture events, display on and off, uevents of the slider, settings changes | sensor and handler callbacks, the uevent thread |
| Settings, tiles and boot restore (`Startup.java`, the switches and tiles) | each mode three times: sysfs, Settings.System, preference | toggle, restore at boot | |
| Scripts, overlays, sepolicy, build files | none | | |

The components in bold are modelled, the audio policy in part (section 6).
What is hard in them, and what makes them correct:

* **Boot update.**  A power loss between any two of the four writes of a stage;
  a restart after which the stage is decided from two headers alone; some LUNs
  prepared and others not, or left out without an error; writes that reach the
  medium late or partly; the boot LUN, which is switched by a query of its own.  It is correct when every
  boot critical image always has a complete copy that boots, when "ready" means
  that the copies to be overwritten do not boot, and when an interrupted update
  can always be brought to an end.
* **`gpt_disk`.**  A header-then-array commit that is interrupted, stale handles.
  Correct: one valid table at any time; a commit that returned 0 lasts.
* **Health.**  Two copies of the data, each of which may be lost, one of which
  changes while they are merged.  Correct: no cycle is invented, no stored
  cycle is lost, the capacity only shrinks.
* **Audio policy.**  A direct output is opened for one session, reused, handed
  over and closed under conditions spread over 400 lines; loops that close
  outputs while they iterate over them; an answer (`isOffloadSupported`) used
  after the state has changed; early returns; a stop that has three paths;
  conditions for setting a flag and for clearing it that do not match.
  Correct: an open count is the number of the tracks it stands for, a session
  does not end another one's stream, nothing starts on the DSP while a call or
  a recording has it, and what the HAL and the sound trigger service were told
  is true.
* **Key handler, settings** (not modelled).  Registrations that depend on
  settings at the time of two different events; flags shared by two features;
  three copies of a mode of which not all are written.
* **Lights** (not modelled).  Arithmetic of the blink ramp.

The hazards with their lines are in PROJECT.json.

## 2. Modules

```
GptTable             entries arrays, gpt_boot_chain_swap      <- GptTableProofs
  GptSwap            its loop, one action a turn              <- MCGptTable, GptSwapProofs
  BootUpdate         prepare_boot_update, one action a write  <- MCBootUpdate
    FailsafeUpdate   abstract specification (INSTANCE)
    BootUpdateInv    the inductive invariant                  <- MCBootUpdateInv, BootUpdateProofs
    BootUpdateRetry  an updater that starts over              <- MCBootUpdateRetry
      BootUpdateRefines   proofs that both implement FailsafeUpdate
GptDisk              gpt_disk handles                         <- MCGptDisk, GptDiskProofs
CycleCount           health cycle counts                      <- MCCycleCount, CycleCountProofs
LearnedCapacity      health learned capacity                  <- MCLearnedCapacity, LearnedCapacityProofs
AudioOffload         configuration, mix ports, isOffloadSupported
  AudioFlags         the flags under which an output is looked for
    AudioPolicy      outputs, inputs and the phone state      <- MCAudioPolicy, AudioPolicyProofs
```

**GptTable.**  An entry is 128 bytes in the code; the code moves whole entries
and looks at the name only, so an entry is `[ptn, copy]`: the partition it is
named after (a name and its `bak` twin are found by the same seek) and the
image its extent designates.  `IsSeek` is `gpt_pentry_seek`, `BootChainSwap` is
`gpt_boot_chain_swap` in closed form, one exchange of all the pairs at once,
which is what the boot update's model computes with.
`Loads` is what the boot loader (not in the repository) does with an array: it
takes the first entry with the type GUID that both copies carry.

**GptSwap.**  The function as it runs, on the array in place: `at` is `i` of the
loop, `found` is `~backup_not_found`, `given` the array that was passed in.  A
`Turn` either goes on to the next name (`PassOver`, the three `continue`s) or
exchanges two entries (`Exchange`, the three `memcpy`s); `Call` passes the
result to the function again.  `SwapIsLoop` connects it to GptTable.

**BootUpdate.**  `disk[l]` holds the two tables of LUN `l` as `read(2)` returns
them, `media[l]` as a power loss leaves them.  A table is the state
`gpt_get_state` reports for its header (`st`), the array its array CRC was
computed from (`crc`), and the array (`arr`); a CRC thus names contents.  `pc`
is where `prepare_partitions` is:

| label | code | actions |
|---|---|---|
| `idle` | outside the call | `Call`, `BeginWrite`, `EndWrite`, `Decay` |
| `loop` | `for` over `lun_list` | `Open`, `OpenFails`, `Return` |
| `check` | 765–808 | `CheckRefused`, `CheckAlreadySet`, `CheckReady` |
| `xbl` | 810–829, 855–873 | `SwitchXbl` |
| `chainHeader`, `chainRows` | `gpt2_set_boot_chain` | `ChainArrayBad`, `ChainNoBackup`, `ChainHeader`, `ChainRows`, `ChainRowsShort` |
| `corruptPrim`, `fixPrim`, `corruptSec`, `fixSec` | `gpt_set_state` calls | `CorruptPrimary`, `FixPrimary`, `CorruptSecondary`, `FixSecondary` |
| `exit` | `EXIT:` | `Exit` |

`IoError` is any of the `goto EXIT` after a failed query, read or write.
The updater is the environment: after a success of `UPDATE_MAIN` (`grant =
"main"`) it overwrites main copies, after `UPDATE_BACKUP` backup copies, and it
does not ask to boot from copies it has not finished.  It may call the stages
in any order and any number of times.  `Kill`, `PowerLoss`, `Flush`
(write-back) and `Decay` are the other environment actions.

eMMC is the case of one LUN; on UFS the LUNs to visit are those with a
`<name>bak` link (`UpdateLuns`).  Each call gathers a list of its own,
`lunList`: a link whose `stat` or `readlink` fails, or that resolves to too
short a path or to a LUN that cannot be accessed, is skipped, and the call still
returns 0.  With the fault `lostLink` the list is any subset of `UpdateLuns`
(`LunLists`).  The updater is not told and writes all its images;
`exposed` keeps the LUNs whose images it wrote under a grant of a call that had
left them out.  A LUN with a backup twin but no pair is visited too:
`UPDATE_MAIN` leaves it as it is, and `UPDATE_BACKUP` then always fails on it,
as its primary header is not corrupted.

**FailsafeUpdate** says what the update promises with neither tables nor stages
nor faults: for every target one of two copies boots, it changes only towards
a complete copy, only the other one is being written.  `booted` is
refined by what the tables select (`BootedCopy`).

**BootUpdateRetry** drives BootUpdate with an updater that calls the stages in
order, skips a stage that is refused, and starts over after an interruption.
It counts the faults, so that a property may speak of what holds until the
first one.

**GptDisk** has one action per call and per device write of a commit; a handle
holds what was read.  A client may commit any handle that is initialized, as
`gpt_disk_commit` allows: also one filled from a torn table or from before
another commit, and one edited without `gpt_disk_update_crc` (`dirty`).  It
fills a handle once.  A `write` that accepts a part of the array is success to
`blk_rw`, so a commit returns 0 all the same (`CommitRowsShort`); `committed`
keeps what the caller of a commit that returned 0 had given (`Given`).  The disk
starts as shipped or as
`UPDATE_MAIN` leaves it.  `gpt_disk` never writes the secondary table, so on a
disk between `UPDATE_BACKUP` and `UPDATE_FINALIZE`, whose secondary table is
not valid, an interrupted commit has nothing to fall back on; this initial
state is left out.

**CycleCount** and **LearnedCapacity** have one action per access to the gauge
or the file, so that the gauge counts or learns, the service dies or the device
loses power between any two of them.  `WriteStringToFile` truncates, then
writes, and deletes the file on an error; it does not sync.  `file` is what a
read returns and `media` what a power loss leaves: the last contents that were
written back, or an empty file if there were newer ones.  A disconnected battery
(`GaugeReset`) is a power loss too.

In CycleCount, `flushed` is the most that was on the medium, and `failed` says
that an access has failed; both start again when the service starts with its
file on the medium.  Two copies are not lost at once: `GaugeReset` asks that the
medium has the counts (`media = flushed`), so that a battery pulled while the
truncated file is on the medium, which does lose the counts, is left out.  In
LearnedCapacity `GaugeReset` has no such guard; `stored` is the number the
service has written or read, or what is left of it after the process ends.

**AudioOffload, AudioFlags, AudioPolicy.**  AudioPolicyService calls the
manager under one lock, so an action is a whole call, and the interleavings
are those of calls.

| code | definitions |
|---|---|
| APMConfigHelper, constructor | `config`, a record of `ConfigType` that no action changes |
| `isOffloadSupported` | `IsOffloadSupported`; `AskOffload` keeps a yes in `grant`, one for each session, `GetOffloadOutput` uses it, perhaps after other calls |
| `getOutputForAttr`, `getOutputForDevices` | `FinalFlags` is the composition of the stages that rewrite the flags, in their order (`VoipFlags`, `VrFlags`, `CallFlags`, …, `DedicatedFlags`); `DirectPort`, `Reusable`, `HeldByOther`, `ReuseOutput`, `OpenOutput` are what is done with the profile found; `GetOutput` is all of it |
| `getInputForAttr`, `startInput`, `stopInput` | `GetInputForAttr`, `StartInput` and `StartInputFails` (`start()` of the input fails and the call returns in the middle), `StopInput` |
| `setPhoneState` | `SetPhoneState`: `CallClosesInputs`, `CallCloses`, `DsdCloses`, `CommunicationCloses` in their order, then `NewCallState`, `SuspendsPrimary`, `RestoresPrimary` |
| `setForceUse` | `SetForceUse`: the inputs it closes, all but sound trigger clients with the source HOTWORD; the outputs it reroutes are mixed ones |

`for (i = 0; i < mOutputs.size(); i++) … closeOutput(mOutputs.keyAt(i))` skips
the output after each one it closes; `Skipping` says which are closed then.
The base class is not in the repository; what its methods do to this state
(`getProfileForOutput`, here `PortsFor`; `closeOutput`; `releaseOutput`;
`closeInput`; `setMasterMono` and the effects) is taken from how this code uses
them and marked `base`.  The mixed outputs are always open and
have no state here, but for the primary one: `suspended` is AudioFlinger's
count of its suspensions (`Suspensions`), to which each entry to IN_CALL adds
one and the end of a call takes one off.  The mix ports that carry DIRECT are
those of the device's audio policy configuration, each of which may be open
once, but for `compress_passthrough`, which only an HDMI sink is routed to; a
compressed clip is one format, as AC3, DTS and the rest are treated alike.

## 3. Runs

| run | shows | bounds |
|---|---|---|
| `gpt_table` | the inductive invariant `LoopInv`; the loop computes the closed form (`SwapIsLoop`); a second call undoes the first (`SwapTwiceIsIdentity`); exactly the backed, not skipped names flip (`SwapFlipsExactlyBacked`); no entry is lost after any turn (`NoEntryLost`) | a list of three names, all tables of up to 4 entries: the smallest that hold two pairs, and a pair with entries in between |
| `boot_emmc` | types, `Failsafe`, `NoMixedChain`, `DamagedLunUntouched`, `NeverRewritesBootingTable`, the inductive invariant `IInv` with damaged tables, and that BootUpdate implements FailsafeUpdate | one device, two pairs (enough for a mixed chain) and an unpaired partition; power loss, kill, I/O error, decay |
| `boot_ufs` | the inductive invariant `IInv`, `FailsafeTables`, `SafeToWrite`, `NoBackupUntouched` | three LUNs, one with nothing to swap: two are needed for "one prepared, one not"; power loss, I/O error, lost links.  No boot LUN (`boot_writeback` and `boot_retry` have it): no property of this run is about it |
| `boot_writeback` | a ready stage is durable and safe whatever the kernel has written back | the boot LUN and one LUN with two pairs; kill, I/O error, short write, decay |
| `boot_retry` | `AlwaysFinalizesAgain`; until the first fault, with the boot LUN: `FailsafeUntilFault` and the refinement (`ImplementsUntilFault`) | a boot LUN and two LUNs, at most 3 faults: one during each stage |
| `gpt_disk` | `CommitIsFailsafe`, `CommittedIsDurable` | two interchangeable handles (one may be stale), two contents and a torn one; power loss, kill, failed and short accesses |
| `cycle_count` | `NoPhantomCycles`, `FlushedSurvives`, `StoredNeverGoesBack` | two buckets (a merge in both directions at once) of up to two cycles, levels 0–3, backup after a rise of 2 |
| `learned_capacity` | `StoredOnlyShrinks`, `GaugeIsBroughtDown` | capacities 1–4, at most 3 faults |
| `audio_policy` | `OutputServesItsSession`, `EachPortOpenOnce`, `NoSessionIsCutOff`, `NoOffloadStartsWhileBusy`, `PhoneStateEndsDsd`, `SuspendedIsRemembered`, `HalKnowsRecording`, `CaptureIsExact` | two sessions (symmetric), two handles, two tracks a session and output, up to three record clients, two suspensions at a time (a call, and one re-entry); five configurations, each with requests of its own |

The configurations of `audio_policy` are the build of this device (`Device`:
BoardConfig.mk, system.prop) and four with the concurrency features of the code
that it leaves out: a call that takes the DSP with a fallback to the fast
(`FastFallback`) or the deep buffer path (`DeepFallback`), recordings that do
(`RecordFirst`), and concurrent voice assistants (`VoiceAssistant`).  `Workload`
gives each of them the requests, clips and record clients whose branches it
reaches; what one configuration cannot do is not enumerated for it.  Two
sessions and two handles are the least for one to meet the output of the other,
two tracks for a count to differ from "open", three record clients for one to
stop while another of the same module, and one of another module, go on.

Three runs show a difference between a comment and the code:

* `boot_ready_xbl`: a power loss in `UPDATE_BACKUP` after the boot LUN was
  switched; the next `UPDATE_MAIN` sees the primary header still corrupted,
  says "already set - ready" and returns 0 while xbl boots from the main LUN.
* `boot_xbl_config`: the prefix comparison with `"xbl"` also leaves
  `xbl_config` out of the swap.
* `gpt_disk_backup_array`: the backup header of a handle is read with
  `PRIMARY_GPT`.

**Where the properties stop.**  They are stated so that they hold of the code;
what is left out of them is behaviour a reader should know of.

* `Failsafe` is checked with writes that reach the medium in the order they are
  made.  With write-back it does not hold: the only `fsync` of a stage comes
  after both the secondary table and the corrupted primary header were written.
  With a boot LUN for xbl it holds until the first fault (`boot_ready_xbl`).
* A LUN whose links were lost in a call is not protected: the call returns 0,
  and the images that LUN boots are overwritten.  `SafeToWrite` speaks of the
  LUNs on the list and `FailsafeTables` excepts the exposed ones; that they hold
  says that such a LUN hurts no other.  `AlwaysFinalizesAgain` and the
  refinements need a device whose links resolve: both copies of an image on a
  LUN that was left out may be torn, and then nothing brings it back.
* A short write is a success to `blk_rw`.  `SafeToWrite` and `GrantIsDurable`
  hold with it; `CommittedIsDurable` excepts the array it left torn.
* `FlushedSurvives` and `StoredNeverGoesBack` speak of counts that have been on
  the medium, between a start that found the file there and the next access that
  fails.  Counts that only the file had, and nobody synced, may be lost.
* `StoredOnlyShrinks` excepts a power loss before the file was written back: the
  larger number of an earlier save comes back.
* `PhoneStateEndsDsd` speaks of DSD, which one port carries.  With two
  offloaded streams side by side the skipping loops leave the second open.
  One port carries DSD to every sink but HDMI, which this device does not have.
* `NoOffloadStartsWhileBusy` speaks of the restrictions by
  `voice.playback.conc.disabled` and by recordings.  Under
  `voice.dsd.playback.conc.disabled` alone a stale answer of
  `isOffloadSupported` does open a DSD stream in a call.
* `NoSessionIsCutOff` leaves out the MMAP output, which the code closes for
  whoever asks for it next.
* `HalKnowsRecording` is one direction: after a failed `start()`, `startInput`
  leaves `mIsInputRequestOnProgress` and the HAL's `rec_play_conc_on` set.
* `CaptureIsExact` leaves out concurrent voice assistants, for which
  `stopInput` tests `(contains(device) && count) == 0` and so clears the
  capture state when an input of another module stops.
* `SuspendedIsRemembered` is a bound, not a promise that the primary output is
  restored.  Each entry to IN_CALL suspends it and only the change to NORMAL
  restores it, once: after IN_CALL, IN_COMMUNICATION (or RINGTONE), IN_CALL,
  NORMAL it is still suspended, with `mvoice_call_state` 0.  The property says
  that no more is forgotten than one suspension for each such re-entry.  A call
  that ends by way of RINGTONE leaves one pending until the next one ends.

**Fairness.**  `RetrySpec` assumes weak fairness of `Progress`: updater and
`prepare_boot_update` are one thread, which is scheduled; faults are not fair
and bounded (an update interrupted for ever never ends).  `FairSpec` of
LearnedCapacity assumes weak fairness of `Service`: healthd is a loop that
wakes up periodically for a battery update.  The gauge may learn for ever.
The other specifications assume none: a player, a recorder or a boot control
client may stop at any time, and nothing in the code promises that it goes on.

## 4. Proofs

All of them hold for any value of the constants that meets the assumptions of
the modules: any set of LUNs, names, tables, handles, buckets, sessions,
record clients, requests and configurations.

* **GptTableProofs.**  A seek has at most one result and the pairs of two
  names are disjoint (`SeekUnique`, `ExchangeUnique`), so each entry has at
  most one partner; the seeks look at names only, which no exchange moves
  (`NamesDecidePairs`).  From this
  `SwapInvolution` (a second swap gives the array back) and `SwapLoadsBackup`
  (every swapped partition is found at its backup copy).
* **GptSwapProofs.**  `LoopInv`: after each turn exactly the pairs of the names
  so far are exchanged, as they were found in the array that was passed in.
  It is inductive because a turn neither moves the entries an earlier one has
  moved nor changes what the seeks of a later one find.  From it
  `SwapIsLoopHolds`, which justifies the closed form for any list of distinct
  names and any array, `SwapTwiceIsIdentityHolds`,
  `SwapFlipsExactlyBackedHolds` and `NoEntryLostHolds` (the witness is the
  map from each slot to that of its partner).
* **BootUpdateProofs.**  `TypeCorrect`, under every fault.  `TypeOK` is not
  inductive: the arrays that `gpt2_set_boot_chain` writes come from the primary
  table.  `TypeInv` adds that nothing ever writes to a primary array.

  `IInvCorrect`, `FailsafeCorrect`, `NoMixedChainCorrect` and
  `NeverRewritesBootingTableCorrect`, under `OrderedWrites`, which allows lost
  links.  The invariant `IInv` says what the headers alone tell a caller after a
  restart: images of a LUN that is not exposed are incomplete only while the
  table that selects them is out of use (`TornImagesUnused`), a corrupted primary leaves a good swapped secondary
  (`SecondaryTakesOver`), a primary that went bad at rest leaves a good
  secondary and complete images (`PrimaryLost`); what each label knows
  (`LabelInv`); and which LUNs of its list a call has prepared
  (`ProgressInv`).  Without the last part a partial failure followed by a retry would be outside the
  invariant.  The runs `boot_ufs` and `boot_emmc` check IInv.
  `NoBackupUntouchedCorrect` adds that a call past the swap has found a pair
  (`PairInv`), and that no table goes bad: a damaged LUN is not left "as it
  was" by definition.

  `DamagedLunUntouchedCorrect` and `GrantIsDurableCorrect` hold for every fault
  and every order of write-back.  Their invariant `VisitInv` does not look at
  contents: a LUN on the list that the current call has visited without an
  error, or that a grant relies on, has no damaged header and both tables on the
  medium.
  `SafeToWriteCorrect` needs neither whole nor ordered writes, only that what
  is in the page cache is not lost (`PageCacheSurvives`): its invariant
  `CacheInv` speaks of the tables as they are read, and says of a swapped
  secondary header that its array vouches for the main copies not booting.
* **BootUpdateRefines.**  `RefinementCorrect`: BootUpdate implements
  FailsafeUpdate.  `OneCopyBoots`
  draws from `IInv` that each target boots exactly one copy, so that the
  refinement mapping is defined; then every step maps to a step of
  FailsafeUpdate or to a stutter.  `FailsafeAllCorrect` is `Failsafe` from the
  same invariant.  Both assume `OrderedWrites`, `LinksResolve` (so that no LUN
  is ever exposed: `AllListed`, `NotExposed`) and no boot LUN for xbl
  (`boot_ready_xbl` shows why).

  With the boot LUN, `FailsafeUntilFaultCorrect` and
  `ImplementsUntilFaultCorrect` prove the same of the updater of
  BootUpdateRetry until the first fault.  `IInv` says nothing of the boot LUN;
  `UndisturbedInv` does: without a fault the stages follow each other, so that
  every LUN still to be visited is in the state the last stage left all of them
  in, every LUN visited in the state this one aims at (`LabelOnTrack`,
  `OnTrack`), the images still to be written are those of the grant
  (`WritingOnly`), and the boot LUN has followed as soon as one LUN is done
  (`XblFollows`).  A fault ends the claim, not the specification: until then
  each step of the updater is a step of BootUpdate (`RetryIsNext`), so that
  `IInv` is at hand.
* **GptDiskProofs.**  `DiskInv` relates the commit in progress to its handle:
  what has been written is that handle's header, then its array or, if the
  write was short, a part of it; the CRCs agree unless the handle is dirty
  (`HandleInv`, `BusyInv`), and the backup table is never written
  (`BackupInv`).  From it `CommitIsFailsafeHolds`, `CommittedIsDurableHolds`
  and `TypeOKHolds`, for any number of handles and faults.
* **CycleCountProofs.**  The merge is the join of the order of bins
  (`LargerIsJoin`).  `PhantomInv`: every copy is below the real cycles, hence
  `NoPhantomCyclesHolds`.  `CopiesInv`, while `failed` is not set: which
  copies together cover `flushed` at each step of a backup; a start that clears
  `failed` establishes it, as `flushed` is then the medium.  Hence
  `FlushedSurvivesHolds` and `StoredNeverGoesBackHolds`.
* **LearnedCapacityProofs.**  `StoredInv`: a file that has a number has the
  stored one, and a service that has read it holds at most as much; only
  `FileLost` of a file that differs from the medium can raise it.  Hence
  `StoredOnlyShrinksHolds`.
* **AudioPolicyProofs.**  `PlaybackInv` (types, `OutputServesItsSession` and
  `EachPortOpenOnce`, none of which is inductive alone) is kept by closing any
  set of outputs, by reusing one and by opening one
  (`ClosingKeeps`, `ReuseKeeps`, `OpenKeeps`), so by every request, whatever
  the flags.  `RecordInv` does the same for `HalKnowsRecording` and
  `CaptureIsExact`.  `PhoneStateEndsDsdHolds` rests on `EachPortOpenOnce`: a
  loop that has one output to close skips nothing (`SkippingOne`).

  `NoSessionIsCutOffHolds` and `NoOffloadStartsWhileBusyHolds` follow the flags
  of a request through the nine stages that rewrite them.  A PCM client that
  asks for a direct output comes out with that flag and at most a decisive one,
  VOIP_RX only if the VoIP output is free (`PcmFlags`); an offloaded track comes
  out as it went in or with no direct flag, the latter whenever a call or a
  recording has the DSP (`OffloadFlags`).  So the output of another session on
  the port a request leads to is one that `HeldByOther` sees
  (`RequestSpares`), and what starts is on that port
  (`RequestStartsItsPort`).  `ClientInv` adds to `PlaybackInv` that
  `mvoice_call_state` is set during a call, on which the stage for calls
  relies, and that grants are for compressed clips.

`TableAssumption`, `BootUpdateAssumption` say what a device is (one LUN on
eMMC; the main copy comes first in a shipped table; a torn array is neither
the old nor the new one), `SwapListAssumption` that `PTN_SWAP_LIST` names each
partition once.  `AudioConfigAssumption` keeps
`audio.offload.min.duration.secs` below 4295, from where its product wraps.

Hypotheses of single theorems are definitions that a theorem names after
ASSUME.  TLC evaluates them on the instances that are run (MCBootUpdateInv,
MCBootUpdateRetry, MCAudioPolicy); those of `SafeToWriteCorrect` are the
constants of `BootUpdate_writeback.cfg`.

| hypothesis | says | without it |
|---|---|---|
| `OrderedWrites` | writes reach the medium whole and in order; any of power loss, kill, I/O error, lost link and decay; `OnlyXblSkipped` | write-back: one `fsync` after two writes, see section 3 |
| `OnlyXblSkipped` | no backed partition but xbl is left out of the swap | `boot_xbl_config` |
| `LinksResolve` (the theorems of BootUpdateRefines) | no link is lost on UFS | the images of a LUN that was left out are not protected |
| `PageCacheSurvives` | no power loss together with write-back | the same `fsync` |
| `~UsesXbl`, or "until the first fault" | | `boot_ready_xbl` |
| `BootLunHasLuns` | a device with a boot LUN has a LUN with backups | no LUN is visited, so xbl is not switched |
| `OffloadIsAskedFirst` | compressed tracks are created after `isOffloadSupported` said yes; other tracks are PCM | a compressed clip with the flag DIRECT alone is not stopped during a call |
| `RequestsAsUsual` | a PCM client adds to DIRECT at most MMAP_NOIRQ or HW_AV_SYNC; VOIP_RX is left to the manager | a client that sets VOIP_RX itself takes the VoIP output from another session |

Only model-checked: the liveness properties `AlwaysFinalizesAgain` and
`GaugeIsBroughtDown`, as the prover has no rules for fairness and ENABLED.
Every safety and action property of a passing run is a theorem.

## 5. Order of the models

The boot update comes first, as its failure leaves a device that does not
boot; then `gpt_disk`, which writes to the same tables, and the health service,
whose data outlives a reset; then the audio policy, by its size and its number
of flags.  Within a component: operations, invariants with their mutants,
faults, the abstract specification, proofs.

## 6. Not modelled

Of the components that are modelled:

* Short reads, and headers that are written partly (a header is one block).
* CRC collisions, and the layout of headers and entries.
* An `fsync` that fails: its result is ignored by the code.
* `prepare_boot_update` called by two processes at a time: there is one updater.
* A `gpt_disk` handle that is filled twice, and one used across a stage of a
  boot update: the repository has no client that does either.
* Audio: `setDeviceConnectionStateInt`, `startSource`, `stopSource`,
  `checkAndSetVolume`, `checkOutputForAttributes` and the outputs that
  `setForceUse` and `setPhoneState` reroute.  They route, mute and delay the
  mixed outputs by way of some twenty methods of the base class, which is not
  in the repository: a model of them would be mostly of code that cannot be
  read here.  What they do to the state above (a disconnected device closes its
  direct outputs) is a `closeOutput` of any output, which `ClosingKeeps`
  covers.

Components:

* **Lights.**  `setLight` runs a whole handler under one mutex.  The LED files
  are a function of the last request of each of three clients; no step comes
  between two of them, and no order matters but the last.
* **Key handler.**  Its state is driven by the window manager, the sensor,
  notification and camera services, of which the repository has only the calls.
  The hazards in PROJECT.json describe what the code does; that it should do
  otherwise is not said anywhere, so that there is nothing to state.
* **Settings, tiles, screens.**  User interface code.  The three copies of a
  mode do not agree, and nothing promises that they do.
* **Partition map and device nodes.**  Strings over symbolic links, without
  state.  When they fail, the call that needs the path returns an error, which
  is one of the failures of the boot update and of `gpt_disk`.  The links from
  which `prepare_boot_update` gathers its LUNs are another matter: losing one is
  not an error, and is modelled in BootUpdate (`LunLists`).
* **`sparse_crc32`, storage info.**  A CRC names contents in the models; the
  storage information is parsed and returned.
* **Scripts, resources, overlays, sepolicy, build files.**  Data, or straight
  lines run once at boot.
