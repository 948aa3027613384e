# A TLA+ model of ORANSlice

ORANSlice is an OpenAirInterface 5G gNB with RAN slicing: the MAC divides the resource
blocks (RBs) of every downlink slot among slices according to a policy, which a file or an
E2 control message can change.  This directory models the MAC of that gNB (the slice policy,
the choice of a UE's slice, the two schedulers, HARQ, random access and the life of a UE
context) and the two layers above it that carry a bearer, RLC AM and PDCP.  Everything is
translated from the C source under `src/oai_ran/openair2`; `PROJECT.json` maps every
definition to its lines.

## 1. The system and its parts

| Part | Source (`openair2/...` unless noted) | Modelled in |
|---|---|---|
| Slice policy: configuration, policy file, E2 slicing control | `GNB_APP/gnb_config.c`, `gNB_scheduler_dlsch.c`, `E2_AGENT/e2_message_handlers.c` | `SlicePolicy`, `SlicePolicyProofs` |
| Slice-aware downlink scheduler | `gNB_scheduler_dlsch.c` | `SliceSched`, `SliceSchedProofs` |
| Downlink HARQ and its feedback | `gNB_scheduler_uci.c`, `_dlsch.c`, `_RA.c`, `_primitives.c` | `DlHarq`, `DlHarqProofs` |
| `NR_list`, the linked list under the HARQ lists | `gNB_scheduler_primitives.c` | `NRList`, abstractly `IdList`; `NRListProofs` |
| Uplink HARQ, buffer accounting, UL failure detection | `gNB_scheduler_ulsch.c`, `NR_PHY_INTERFACE/NR_IF_Module.c` | `UlHarq`, `UlHarqProofs` |
| Uplink scheduler | `gNB_scheduler_ulsch.c` | `UlSched`, `UlSchedProofs` |
| Random access and UE contexts, F1 handlers of the DU | `gNB_scheduler_RA.c`, `mac_rrc_dl_handler.c`, `F1AP/f1ap_ids.c` | `UeLifecycle` (partly) |
| Choice of a UE's slice per slot | `gNB_scheduler_dlsch.c` | `SliceSelect`, `SliceSelectProofs` |
| RLC acknowledged mode | `LAYER2/nr_rlc/` | `RlcAm`, abstractly `Transfer` (partly) |
| PDCP | `LAYER2/nr_pdcp/` | `Pdcp`, `PdcpProofs` (partly) |
| E2 agent: message loop, UE reports, GBR | `E2_AGENT/` | slicing control in `SlicePolicy`, the rest not modelled |
| Provisioning CLI | `src/tools/cli/oranslice_cli.py` | not modelled |
| Link adaptation, power control, CSI | `gNB_scheduler_primitives.c`, `_uci.c` | not modelled: floating-point control loops |
| Broadcast (SSB, SIB1) | `gNB_scheduler_bch.c` | not modelled: appears as blocked RBs |
| RLC UM and TM, RRC, NGAP, PHY, nrUE, LTE stack, core network, start scripts | rest of the tree | not modelled (section 6) |

(MAC files without a directory are in `openair2/LAYER2/NR_MAC_gNB/`.)

The threads: a slot thread calls `gNB_dlsch_ulsch_scheduler` once per slot; PHY indications
(preamble, PUSCH, UCI) arrive on another thread; the DU's F1 task runs the handlers of
`mac_rrc_dl_handler.c`; the E2 agent is a further task.  The first three share `sched_lock`.
The slice policy is protected by nothing.

## 2. The modules

**SlicePolicy.**  State: `policy` (the ratios of each slice), the position of the file reload
(`upd`) and of the E2 handler (`ctrl`).  `Init` is what `RCconfig_nr_macrlc` installs.
`UpdStart`, `UpdWrite`, `UpdSum`, `UpdReset` are `nr_update_slice_policy`, one step per store
or per summand; `CtrlStart`, `CtrlMin`, `CtrlMax`, `CtrlSum` are `apply_slicing_ctrl`.  Ratios
and the sum of the control handler are `uint8_t`, modulo 256.  The reload is commented out in
this source (`gNB_scheduler_dlsch.c:1602`) and enabled by `doc/rrmPolicyJson.patch`, so
`writer` lets one of the two writers run in a behaviour.

**SliceSched.**  One downlink slot.  `SlotStart` picks the needs of the UEs and the free
symbols of each RB; `Retx`/`RetxSkip` are the retransmissions; `ShareStart`, `Share` compute
the shares of the slices; `CapReserve`, `CapMax` the cap of a slice, one step per subtraction,
so that the policy may change in between, also between the two reads of `max_ratio` that compare
and assign it (`raised` remembers that the second read raised a cap); `AllocUe`, `SkipUe`,
`SliceEnd` are `pf_dl_slice`.  A UE may be confined to a CORESET 0 (`CommonRanges`); an access
beyond the masks ends in the phase "overrun".  Ratios are taken to be percentages, 0 to 100.
Transport blocks are demands in RBs: `FindNbRb` is what `nr_find_nb_rb` may return for one.
The symbols of an RB fall into two groups (those of a shorter allocation, and the rest), which
is what the masks distinguish.  `max_prbs` of the slice sorted first is uninitialised in the
code and any value of `Garbage` in the model.

**DlHarq.**  The downlink processes of one UE: three lists, rounds, NDI, feedback times; the
slot scheduler, Msg4 of a random access, the UCI handlers bit by bit, the reset on a C-RNTI
list by list, a reconfiguration to more processes, and UL failure.  Time is a counter of
`Frames * Slots` slots that wraps, as `find_harq` sees it.  Abstractions: one random access at
a time; a released UE ends the context and is left out; contention-free access is left out.
`cut` holds the processes whose block a reset cut off, until they are sent anew.

**IdList, NRList.**  `NRList` is `head`, `tail`, `next[]` with the six calls of the code;
`IdList` is a sequence.  `NRList` implements `IdList` by following the links.

**UlHarq.**  The uplink processes of one UE with `sched_ul_bytes`, `estimated_ul_buffer`, the
scheduling request and the DTX count.  A report is `nr_rx_sdu` (`RxSdu`, `RxNothing`) and then
`handle_nr_ul_harq` (`HarqUnexpected`, `HarqNone`, `HarqPassed`, `HarqFailed`); between the two
the lock is free and the scheduler (`GrantRetx`, `GrantNew`) may run.  With an empty feedback
list `nr_rx_sdu` reads `ul_harq_processes[-1]`: any size and round.  `Starved` is the state in
which every process waits for a report that never comes.  Assumed: Msg4 of a random
access takes longer than PUSCHs already granted (`Msg4Ack`).

**UlSched.**  One uplink slot: `SlotStart` reduces `vrb_map_UL` to its largest free block
(`LargestFree`), `Retx`, `MinGrant`, `Enqueue` are the first loop of `pf_ul`, `NewData` the
second.  Masks and sizes as in `SliceSched`.  Transform precoding is off.

**UeLifecycle.**  Random access processes, UE list, F1 identities.  `InitiateRa`, `RxMsg3*`,
`Msg4Feedback` are indications; `SlotStart`, `UpdateTimers`, `ScheduleRa` with `SchedTell`,
`SchedForget`, `SchedLock` are the slot scheduler, which drops the lock inside
`nr_mac_release_ue`; `HandleCall`, `DlRrcAdd`, `Confirm`, `SendSdu`, `DuTell`, `DuForget` are the
F1 task.  The CU is external: it answers what it owes.  Left out: contention-free access, the
re-establishment branch of `dl_rrc_message_transfer`, the RRC processing timer, bearers and
cell groups.  A Msg3 arrives in its own slot; messages to the CU take effect at once, calls of
the CU queue.  A temporary C-RNTI is drawn against the UE list only, so it may be one that another
random access works with: `shared` remembers those.

**SliceSelect.**  Which slice each UE is served in, slot by slot.  `Preprocess` is the head of
`nr_fr1_dlsch_preprocessor`: `Stored` (sids of the bearers), `Active`/`Avail` (the list of
slices), `Status`/`Bytes` (what waits), `Choice` (the decision).  `Transmit` empties any of the
bearers that `nr_schedule_ue_spec` may take data from (`Allowed`).  `Arrive`, `Setup`, `Remove`,
`RrcTimer`, `UlFailure` are the other threads.  Buffers are empty or not; the resources are left
open (`SliceSched` has them); the table of slices is constant.  `chosen` is forgotten after the
slot, since it is written again before it is read.

**Transfer, RlcAm.**  `Transfer` is what RLC AM promises: an SDU is handed over once and whole,
and confirmed only after that.  `RlcAm` is the sending half of an entity and the receiving half
of its peer.  `RecvSdu`, `GeneratePdu`, `PollRetransmit`, `RecvStatus` are the sender,
`RecvData`, `ReassemblyExpires`, `GenerateStatus`, `ProhibitExpires` the receiver.  PDUs and
reports are in bags, so they overtake each other, and `Lose` drops some.  `rx_list` is the set
of bytes per SN.  The walk of `process_control_pdu` over its two lists is kept as a walk, since
what it skips and frees is the point.  Left out: `poll_byte`, `rx_maxsize`, the effect of
`max_retx_reached` (a report upwards), re-establishment, and `discard_sdu` (unit tests only).
`crashed` is the dereference of an empty wait list.  `passed` remembers the partly sent SDUs that
`tx_next_ack` went past, `overtook` what was sent without a poll ahead of a retransmission that did
not fit into the grant (section 5).

**Pdcp.**  One bearer in one direction: `ProcessSdu`, `RecvPdu`, `FirstTick`, `CheckTReordering`,
`ReestablishDrb`, `ReestablishSrb`, `Reconfigure`, `Release`, `RemoveUe`, `Create`.  The receiver is
at a UE or at a gNB (`is_gnb`): only a UE is reconfigured and releases single bearers, a gNB deletes
all bearers of a UE.  `ticks` says whether `nr_pdcp_tick` is called there.  It is in a gNB with a MAC
and in a standalone or noS1 UE, and is not in a CU, a CU-UP or a non-standalone UE.  `clock` is
`t_current # 0`: without it a started timer has the start time 0 and so does not run; `blind`
remembers that the last PDU was accepted in that state.  A PDU carries its true COUNT, of which the
receiver reads the SN only.  Assumed of the layer below (`Reachable`): what arrives is within a
window of `rx_deliv`.  The two ends are re-established together, with the RLC under them flushed.
Left out: ciphering and integrity, a change of the SN size, and what has no caller in this tree:
`nr_pdcp_entity_suspend`, and unacknowledged data bearers (`add_drb` creates `NR_PDCP_DRB_AM` only).

An operator named like a mapped one with a suffix, under the comment "Faulty variant", is a
plausible mistake in that code; putting it in place of the original must break a property.

## 3. The runs

| Run | What it shows | Bounds |
|---|---|---|
| `policy` | after a reload ratios are ordered and the last entry for a slice wins; neither writer leaves minima above 100%; the control handler ends the gNB only with reason | 2 configured slices and the default one, all files of up to 2 entries, ratios on both sides of every comparison |
| `sched` | whatever the uninitialised cap and however the policy changes within the slot: the PRB assertion fires only if retransmissions had already overdrawn the slot or a second read of `max_ratio` raised a cap; allocations stay in the band, but for a CORESET 0 that leaves out the first RBs and ends near the top; a slice has its own promise and, no cap being raised, leaves the later ones theirs; only free RBs are handed out (new data: if the first free run is long enough) | 6 RBs, minimum 2, 2 UEs, 3 slices, 4 masks, a CORESET 0 at either end |
| `sched_uninit` (violated) | the slice sorted first can take the minimum of the others, through its uninitialised cap | 6 RBs |
| `harq` | no process is lost or on two lists, no assertion fires, the NDI tells new from old but for a block that a reset cut off; undisturbed, each HARQ bit reaches its process and each process is handled | 2 processes, 8 slots of time that wrap, 1 fault: a lost indication or a further random access |
| `list_sequence` | `NRList` implements `IdList`, with links and tail consistent | up to 5 ids |
| `ul_harq` | every process is on one list; `sched_ul_bytes` is what is outstanding, until a loss or reset (with 4 rounds or more, at most that); a missed report frees its process and a UE that has left is noticed, unless as many reports went missing as there are processes | 2 processes, 2 lost reports, 1 random access, blocks of 2 bytes, buffer of 3 |
| `ul_sched` | no grant leaves the band, new data gets free RBs only, grants are disjoint where the free block ends with the band | 8 RBs, minimum 2, 3 UEs, 2 DCIs, 6 resource maps |
| `ue_lifecycle` | temporary C-RNTIs are not those of contexts, unless two random accesses drew the same; no context is orphaned; every random access ends; every context is connected or removed in the end | 2 preambles, 2 RNTIs that may coincide, room for 1 or 2 contexts, 1 event, timers of 1 to 3 slots |
| `slice_select` | a UE is not given an empty slice while another of its slices waits; data is charged to its bearer's slice; the assertion on three slices is out of reach; both slices get their turn | 1 busy and 1 other UE, 2 slices and an NSSAI without one, 2 data bearers, slots of both parities |
| `rlc_am` | `RlcAm` implements `Transfer`; no byte is freed before the peer has it; lists, byte counts and timers stay consistent, the windows until `tx_next_ack` passes a partly sent SDU | 3 SDUs of 3, 1 and 1 bytes across the wrap of the SN (6 values), which fill the window; 1 loss, 2 PDUs, or a PDU and a report, on the air |
| `rlc_ack` (violated) | `tx_next_ack` can pass an SDU that is only partly sent | the same |
| `pdcp` | COUNTs are rebuilt right; delivery is in order and once; held SDUs are thrown away only with a signalling bearer that restarts or a UE that the gNB removes; where ticks come they are not held for ever | 4 SDUs per epoch, window 4, 1 restart of the numbering, every kind of site |

Seven more configurations have a counterexample and are kept to reproduce it:
`MCSlicePolicyWrap.cfg`, `MCSliceSchedReread.cfg`, `MCDlHarqStall.cfg`, `MCUeLifecycleTwice.cfg`,
`MCUlSchedOverlap.cfg`, `MCRlcAmEmptyWait.cfg` and `MCPdcpNoClock.cfg`, each to be run with the
`MC` module its name begins with (section 5).

The types.  `TypeOK` is a conjunct of the invariant about the data structure in `DlHarq`,
`NRList`, `UlHarq`, `UlSched` and `RlcAm`.  It is proved in `SliceSchedProofs` and
`SlicePolicyProofs` and, as part of an inductive invariant, in `UlSchedProofs`, `UlHarqProofs`,
`DlHarqProofs`, `NRListProofs` and `PdcpProofs`.  In `UeLifecycle` and `SliceSelect` it holds on
the instances of the runs but is not among the listed properties.
The properties `ListsAgree`, `SharesKept`, `GrantsInPlace`, `ListsExact`, `WindowsAgree` and
`TimersAgree` are conjunctions whose parts are named and explained one by one in the modules.

Sums.  What slices are promised (`SharesKept`, `NotOvercommitted`) and what is outstanding in the
uplink (`BytesAccounted`) are sums over a set.  They are written as the number of elements of a set
with n pairs for each summand n, which TLC counts and the theorems on finite sets can reason about.

Why the bounds are enough.  Two processes give a head and another entry of each list; one
process in `InitHarq` makes the resize happen with the only process in use.  Four frames have
a past half, a future half and the distance in between.  One fault at a time keeps `harq` short;
its safety properties have also been checked with two faults of either kind (2.3 million
states) and are proved for any number.  As many lost reports as processes in `ul_harq` reach the
state it excepts.  Six or eight RBs with a minimum of two hold
two grants and a rest that is too small.  Two UEs compete for two DCIs with three kinds of
need; three UEs in the uplink make one find no DCI.  The timers are short but differ, so that
every order of expiry occurs.  Three bytes in an SDU give a
segment in the middle, and three SDUs a second gap while `t_reassembly` runs for the first.  A
report of nine bytes has room for one NACK with offsets, so that reports with two gaps are cut; one
of twenty bytes is not cut.  `rlc_am` has also been checked with SDUs of 3, 2 and 1 bytes
(1.6 million states).  `rlc_am` and `pdcp` start just below the wrap of their SN.

Deadlock is checked in `harq`, `ul_sched` and `slice_select`.  The others may really stop: the gNB
ends with an assertion (`policy`, `sched`, `ue_lifecycle`), all SDUs are confirmed or delivered
(`rlc_*`, `pdcp`), the bound on preambles is used up, a failed UE is no longer scheduled
(`ul_harq`), or a list rejects what it asserts against.

Fairness.  `DlHarq`: weak fairness of the slot scheduler, which the slot clock calls, and of the
UCI handler.  `UlHarq`: weak fairness of the scheduler (the cell is not overloaded for ever), of
the passing of frames, of the receiver, and of the end of Msg4.  `UeLifecycle`: weak fairness of
the slot thread and of the CU's answers, strong fairness of the F1 task, which competes for
`sched_lock` with a thread that takes it in every slot.  `SliceSelect`: weak
fairness of the slot.  `Pdcp`: weak fairness of the expiry of t-Reordering where the millisecond
tick is called, none elsewhere.  No fairness on UEs or losses.  `RlcAm` claims no liveness.

## 4. What is proved

`SliceSchedProofs`, for every number of UEs, slices and RBs, every mask, every set of
percentages and every value of the uninitialised cap:

* `TypeCorrect`: `Spec => []TypeOK`.
* `Budget`: `Spec => []BudgetKept`.  The assertion "PRB Violation" is unreachable unless the
  retransmissions have overdrawn the slot or a second read of `max_ratio` has raised a cap.
* `StaysInBand`: `Spec => []InBand`.
* `GivenWereFree`: `Spec => OnlyFreeRbs`.
* `PromisesKept`: `Spec => SharesKept`.

`BudgetKept` says nothing before the last slice, so it is strengthened to `BudgetInv`: the prefix
sums `tot` of what the slices have used never exceed the RBs at the start (`Prefix`); the cap of
slice i is the slot less the sum of the first slices while the loop runs over them, and can only
shrink afterwards, unless it is raised (`CapInv`); a slice stays within its cap (`AllocInv`).  The
uninitialised cap only concerns the slice sorted first, and is still limited by its `max_ratio`, a
percentage of the slot.  The one assumption is `SchedAssumption` of `SliceSched` (ratios are
percentages, sizes are natural numbers).

`SharesKept` needs the cap exactly (`ShareInv`): once the loop over j has passed i, the cap of
slice i is the slot less what the slices before i have used and less what is promised to those
between i and j (`PrbsAdd` adds one more).  At the end of the loop nothing of the promises to
later slices is left in the cap, so neither `max_ratio` nor `pf_dl_slice`, which can only use
less, touches them.

`InBand` rests on `BandInv`: `n_rb_sched` never exceeds the number of free RBs, because an
exclusive-or with an allocation takes at most its size off them (`ToggleCount`).  So where
`pf_dl_slice` asks for `min_rbSize` RBs and the first free run is shorter, that many free RBs
lie between `rbStart` and the end of the band (`CountFromStart`): the allocation may overlap
another, but not leave the band.  That counts from RB 0, so it says nothing of a CORESET 0 that
leaves out the first RBs, which `InBand` excepts where it ends too near the top.  `OnlyFreeRbs` only
needs the types.

`SliceSelectProofs`, for every number of UEs and bearers and every set of slices (from
`SelectAssumption`): `ChoiceIsWorkConserving`, `TwoSlicesSuffice`, `ServedInOwnSlice`.  The
inductive invariant adds to `WorkConserving` and `NeverFatal` that the sids a slot works with
are those of the bearers' NSSAIs, except for a bearer that was not looked at (`Refreshed`).  The
heart is `ChoiceConserves`: with at most two active slices the first two entries of the list are
all of them, so one of the fallbacks finds the bytes.

`UlSchedProofs`, for every number of UEs, every band, resource map, demand and transport block
size (from `UlSchedAssumption`):

* `GrantsPlaced`: `Spec => []GrantsInPlace`.
* `NewDataFree`: `Spec => NewDataOnFree`.

Retransmissions and minimum grants are compared with the end of the band only, so that they
stay apart needs an invariant on the mask, `MaskInv`, where the free block ends with the band:
nobody asks for the symbols "t" alone, so an RB with "h" left is untouched in all symbols; each
grant takes the first such RBs, so those that remain reach up to the end of the band; no grant
overlaps what the mask holds to be free.  Without the condition on the free block the claim is
false (`MCUlSchedOverlap.cfg`).  `MinNat` and `MaxNat` obtain the least and the greatest RB
from the well-foundedness of the natural numbers.

`UlHarqProofs`, for every number of processes and rounds, any transport block sizes and any
bounds on lost reports and random accesses (from `UlAssumption`): `ListsPartition`, that is
`Spec => []ListsAgree`.  `ListsAgree` is inductive as it stands once the concatenation of the
three lists is taken apart (`ListsSplit`): a grant, a report and a reset each move a process
from one list to another, and `TailRemoves`, `AddTailAdds` and `ConcatParts` say what that does
to the elements.  That `add_tail_nr_list` ignores an id that is the tail already never matters,
because the id is on another list.

`AccountHolds` there is `Spec => []BytesAccounted`: until a report is lost or a random access
resets the lists, `sched_ul_bytes` is never more than the sum of the blocks on the feedback and the
retransmission list, and equal to it for a `harq_round_max` below 4 (section 5).  The two halves of
a report (`nr_rx_sdu`, then `handle_nr_ul_harq`) disagree in between, so `SumInv` adds what the
first half has taken off already (`Taken`), and that the PUSCHs on the air are those of the
feedback list in its order: the head that `nr_rx_sdu` reads the size of is the process reported.

`DlHarqProofs`, for every number of processes and rounds, every frame length, feedback delay and
PUCCH size, and any number of lost indications and random accesses (from `HarqAssumption`):

* `ListsPartition`: `Spec => []ListsAgree`, and `AssertionsHold`: `Spec => []NoAssert`.
* `NdiTellsNewData`: `Spec => NdiTells`.
* `VerdictIsRight`: `Spec => []VerdictMatches`.

The lists alone are not inductive.  Msg4 takes a process without looking at the lists it is on, so
`Access` says that until Msg4 is acknowledged its process is the only one in use, and `Marked` that
the waiting mark and the round tell which list a process is on.  `NdiInv` relates the NDI the UE
saw last to the round of the process and to whether a reset cut it off.  `VerdictMatches` is the
deepest: a HARQ bit names no process, and `handle_dl_harq` gives it to the head of the feedback
list.  `PucchInv` says that no acknowledgement is due behind a PUCCH with room, so that a new one
goes to the last occasion in use or to a later one; hence the occasions under way (the indication
being handled, those in the PHY, the PUCCHs to come) cut the feedback list into consecutive blocks,
and the feedback time of each process is that of its block (`OrderInv`).  `find_harq` therefore
never skips an entry.

`NRListProofs`, for every length of the list (from `ListAssumption`):

* `TailIsTheEnd`: `Spec => []TailAndLinks`.
* `ListRefinesSequence`: `Spec => ListImplementsSequence`, the refinement of `IdList`: the initial
  states map to initial states, and each call to the same call on the sequence or to a stutter.

The walk along `next[]` is the sequence that follows the links up to the end; that there is only
one such sequence comes from the least position at which two could differ.  The
invariant (`Listed`) says that the walk has no repetition, ends at `tail`, and that ids off it have
no link; each call is then a lemma on what it does to the walk.

`SlicePolicyProofs`, for every set of slices, of files and of control messages (from
`PolicyAssumption`):

* `PolicyTypes`: `Spec => []TypeOK`; no sum of the reload overflows an `int`.
* `OrderedBetweenReloads`: `Spec => []FileOrdered`, `LastEntryDecides`: `Spec => []LastEntryWins`.
* `ReloadFitsTheCarrier`: the reload leaves guarantees of at most 100%.
* `FatalIsJustified`: `Spec => CtrlFatalIsJustified`.
* `GuaranteesFitTheCarrier`: `Spec => []NotOvercommitted` for both writers, if no two slices have
  the same NSSAI and no message stores a minimum ratio above 155 (100 + 155 does not wrap).

The invariants say how far each writer has come: which stores of the entry are done
(`OrderInv`), which slices have seen the entry (`LastInv`), which summands are in the sum
(`SumInv`); for the control, that the `uint8_t` sum is at most the true one (`CtrlInv`), and that it
is exact under the two conditions, because a message raises the total only once (`ExactInv`).
`MCSlicePolicyWrap.cfg` shows that the condition on the ratios is needed.

`PdcpProofs`, for every window, hyper frame number range and number of restarts (from
`PdcpAssumption`: the COUNT does not wrap):

* `CountRebuilt`: an SN within a window of `rx_deliv` determines the COUNT; `CountsAgree` is
  its consequence for the entity.
* `TimerRunsAtGap`: the timer runs exactly while there is a gap and the last PDU was accepted
  after the first tick of the entity.
* `DeliveryInOrder` and `NothingDisappears`, the two action properties.

The inductive invariant adds where PDUs on the air come from (`AirSent`), that what was
delivered lies behind `rx_deliv` (`DeliveredBehind`), the bound on the SDUs of an epoch, and that a
timer runs only in an entity that knows the time (`Bounded`).

Only model-checked:

* All liveness: `FeedbackHandled`, `RaEnds`, `ContextSettled`, `NoStarvation`, `HeldIsReleased`,
  `WaitingEnds`, `SilenceNoticed`.  Fairness is outside the prover's reach.
* `RlcAm`, with its refinement of `Transfer`.  The channel is a bag and the walk of
  `process_control_pdu` a fold over two sequences: what a fold computes needs an induction that
  takes an operator as its parameter, which the provers do not have.
* `UeLifecycle` (`TcRntiFree`, `NoOrphan`).  Its steps drop the lock in several places, and an
  inductive invariant would have to describe each of them; it has not been written.

## 5. What was found

* The cap of the slice sorted first is uninitialised (`gNB_scheduler_dlsch.c:1506`; run
  `sched_uninit`).
* `dl_sched_unit` compares `max_ratio` and reads it again to assign the cap; changed in between, it
  can raise the cap and end the gNB with "PRB Violation" (`MCSliceSchedReread.cfg`).
* `tx_next_ack` is computed from the wait and retransmit lists only (`nr_rlc_entity_am.c:729`; run
  `rlc_ack`): if `t_reassembly` expires while the tail of an SDU is unsent, its SN is passed over.
* With a stalled window `check_t_poll_retransmit` can meet an empty wait list, the question its
  todo at `nr_rlc_entity_am.c:1845` leaves open (`MCRlcAmEmptyWait.cfg`).
* A gap that a PDU finds before the first tick of its PDCP entity is not timed, and none is in a CU
  or CU-UP, because the timer then starts at 0, its mark for "not running"
  (`nr_pdcp_entity.c:212`; `MCPdcpNoClock.cfg`).
* Ratios above 100 wrap the `uint8_t` sum past the over-commitment check
  (`e2_message_handlers.c:208`; `MCSlicePolicyWrap.cfg`).
* A lost UCI indication followed by half of the frame range of silence stalls downlink HARQ
  (`gNB_scheduler_uci.c:999`; `MCDlHarqStall.cfg`).
* `nr_mac_release_ue` fetches an identity another thread may have removed
  (`gNB_scheduler_primitives.c:3048`; `MCUeLifecycleTwice.cfg`).
* Uplink retransmissions and minimum grants are not compared with the free block
  (`gNB_scheduler_ulsch.c:1618`; `MCUlSchedOverlap.cfg`).

Limits that appear as conditions of a property, not as runs of their own:

* Downlink new data can cross blocked RBs when the free run is shorter than the minimum
  (`OnlyFreeRbs`).
* `sched_ul_bytes` is reduced twice for an aborted block with `harq_round_max` 4, the default;
  with more rounds it is reduced after round 3 for a block that is sent again; a reset does not
  reduce it at all (`BytesAccounted`).
* After a reset a HARQ bit can be credited to Msg4 (`VerdictMatches`).
* New data sent in a grant too small for the retransmission before it carries no poll; if a report
  then makes the retransmission superfluous, nothing asks for it until the next SDU
  (`UnackedIsPolled`).
* As many missing reports as uplink processes leave a UE without a free process, which `pf_ul` then
  skips for ever; a comment there calls it a design flaw (`Starved`).
* Two random accesses can draw one temporary C-RNTI, which is compared with the UE list only
  (`TcRntiFree`).
* A reset does not toggle the NDI, so the next block of a process it cut off looks like a
  retransmission to a UE that has not flushed its buffers (`NdiTells`).
* With a CORESET 0 that leaves out the first RBs and ends near the top, new data can reach beyond
  the bandwidth part (`InBand`).
* A gNB that removes a UE frees held SDUs undelivered (`NoneSwallowed`).
* While the RRC processing timer runs, the first data bearer is served by its old slice and
  buffer status (`OwnSliceOnly`).
* A data bearer whose NSSAI no slice has starves beside one of a configured slice; and the turn
  of two slices does not pass if all downlink slots have one parity, or if another UE's uplink
  keeps failing in step (`NoStarvation`).
* `nr_pdcp_reconfigure_drb` may change `sn_size` without `sn_max` and `window_size`, and an
  infinite t-Reordering holds SDUs until the gap is filled (`HeldIsReleased`).
* `nr_pdcp_entity_suspend` delivers the list only if the timer runs; if it gets a caller, an SDU held
  without a timer would meet the next numbering.

## 6. Not modelled

The map covers three tenths of the lines of the files it touches, and under one per cent of
the whole tree, which is a complete OpenAirInterface checkout: LTE, PHY, the UE, simulators, and
ASN.1 and NAS codecs.  Most of that is signal processing, encoding or another program, with no
state that a property here is about.

* E2 agent beyond slicing control: `get_ue_list` (`e2_message_handlers.c:344`) and `set_gbr_ue`
  read the UE list without a lock while UEs are removed.  The two writers of the policy would
  also interleave if the reload were enabled (`e2_message_handlers.c:204`).
* Provisioning CLI: its state is in a database, files and namespaces; `create_ue` commits the
  subscriber before it writes the file (`oranslice_cli.py:192`).
* Random access: contention-free access, the re-establishment branch, the position of Msg2
  (`gNB_scheduler_RA.c:1280`).  The pointer to a UE used after an unlock
  (`mac_rrc_dl_handler.c:652`) is left out; the unimplemented failure message (`:378`) ends the gNB
  in `UeLifecycle`, with no property about it.
* A full slice table without a terminating NULL (`gnb_config.c:1317`).
* RLC UM and TM, and RLC re-establishment; security and SDAP around PDCP.
* Link adaptation, power control, CSI: floating-point control loops.  Broadcast: blocked RBs.
* RRC, NGAP and E1AP: the models take what they ask of the MAC as arbitrary calls.

Next would be an inductive invariant for `UeLifecycle`, and RLC re-establishment composed with
PDCP's.
