# Verification of the communication operators and of the MLA Prolog pipeline

The repository holds Ascend NPU operators.  Nearly all of them are numerical kernels that keep
no state from one call to the next.  Three families are different, and they are what this
project models:

* the **attention / FFN disaggregation** operators (`src/mc2/attention_to_ffn`,
  `src/mc2/ffn_to_attention`, `src/ffn/ffn_worker_scheduler`, `src/ffn/ffn_worker_batching`,
  `src/attention/attention_worker_scheduler`, `src/attention/attention_worker_combine`): a
  distributed protocol over shared windows, flags and a schedule context that outlives calls;
* the **operators in which the ranks of a communicator meet**: `distribute_barrier`
  (`src/mc2/distribute_barrier`) and the mixture-of-experts exchange
  (`src/mc2/moe_distribute_dispatch_v2`, `src/mc2/moe_distribute_combine_v2`), which write flags
  and data into each other's windows without asking and without acknowledging;
* the **MLA Prolog V3 kernel** (`src/attention/mla_prolog`), the operator the repository is
  named for: a pipeline of cube and vector cores that share one workspace over all steps and are
  ordered by a few hardware flags.

## 1. Inventory

### 1.1 The attention / FFN pipeline

```
 attention worker (one per session)                     FFN worker (one per node)
 -----------------------------------                    -------------------------
 AttentionToFFN ----- tokens, ids, flag, layer ----->   window  [session][micro-batch]
                                                          |
                                                        FfnWorkerScheduler: out lists, flags down
                                                          |            (or the batching operator itself,
                                                          |             need_schedule = 1)
                                                        FfnWorkerBatching: sort by expert, gather
                                                          |
                                                        FFN (grouped matmul)
                                                          |
 window [micro-batch][row][slot] <--- data, then flag --- FFNToAttention
   |
 AttentionWorkerScheduler: wait for all flags, name the micro-batch
   |     (or the combine itself, need_schedule = 1)
 AttentionWorkerCombine: weighted sum of the slots of every row
```

| component | state | operations | hard behaviour | what makes it correct |
|---|---|---|---|---|
| AttentionToFFN | descriptors in the FFN windows (flag, layer id, expert ids, data); status rows in the workspace; slots of masked tokens in its own window | every vector core: wait for the descriptor's flag to drop, write its tokens; barrier; write flags and layer ids; mark masked slots | many writers of one descriptor; flags set for nodes nobody has waited for (synchronous scene); selection of nodes added up over cores (asynchronous scene) | a flag covers the whole round; no token overwritten or wiped before it is seen; each node is told once, masked slots are complete |
| FFN worker scheduler (AICPU) | `run_flag`, `polling_index`, `out_num`, output lists; reads and resets the window | `Compute`, the polling loops, `CheckSessionsReady`, `ToOutput` with a parallel `CopyAndResetSessions` | concurrent writers, parallel shards, stop at any moment, lists built over several groups, early release of the flag | no descriptor touched from both sides, lists exact, every round answered once, stop returns |
| FFN worker batching | `polling_index`, the scheduler's lists, workspace lists and counters (valid ids, tokens per expert), window flags and ids | scan or the scheduler's list, sort on one or several cores, merge, flag reset, gather, group listing on one or several cores | cores read the context on their own, merge and reset by different cores, padding in row ids, counters that outlive a launch and are added to by several cores | all cores on one ready micro-batch; every token gathered once with its indices; group list cuts the rows by expert |
| FFNToAttention | slots of the attention window | strided token loop of every core, data then flag | several cores and nodes write one window | every result is sent once and its flag follows its data |
| Attention worker scheduler (AICPU) | `run_flag`, `micro_batch_id`, window flags | wait loop, reset of flags | wait without timeout, order of micro-batches | micro-batches in the order sent; a stop returns |
| Attention worker combine | window flags, `micro_batch_id` | scan of flags, sum, reset of own flags, barrier | core 0 moves the shared id on while others read it | only complete, current data are summed |

### 1.2 The ranks of a communicator

```
 distribute_barrier, on every rank            MoE layer, on every rank
 core 0: look at the clock, count cores       dispatch: tokens to the experts' ranks | SyncAll |
 core 1..n: raise my flag in their windows              status per expert | wait for statuses,
            wait for their flags in mine                lower their flags | SyncAll | copy out
            report to core 0, lower the flags experts
 SyncAll, return                              combine:  rows back, then their flags, in batches |
                                                        wait per token, lower, add up
```

| component | state | operations | hard behaviour | what makes it correct |
|---|---|---|---|---|
| distribute_barrier | flags and finish cells in the two halves of every rank's window; a marker for the half in turn | `Init` (marker, elastic tables, share of ranks), `SetStatus`, `WaitStatus`, `CleanStatus`, `TimeOutTest` | flags are overwritten and lowered blindly; ranks run ahead into the next launch; worlds shrink and ranks are renumbered; idle cores; clock against count | a barrier; no arrival swallowed; the clock is watched as long as anyone waits; every launch ends |
| MoE dispatch V2 | data and status windows in two halves, marker, workspace sums | tokens, statuses, waiting and clearing, copying, expert counts | tokens of one expert from many cores, announced by one; statuses cleared apart from reading them; blocks by rank against statuses by expert; ranks without tokens run ahead | what comes out is exactly what was routed here in this round |
| MoE combine V2 | row windows and flags in two halves, marker | rows and flags in batches in a permuted order, waiting per token, adding up | no barrier at all; the number of flags decides | each token gets exactly the rows of its experts; nobody hangs |

### 1.3 MLA Prolog V3, split-N kernel

State: the workspace tensors `mmCqRes`, `mmCkvKrRes`, `rmsNormCqRes`, `mmQcQrRes`,
`mmQcQrResDequant`, `mmQnRes`, reused by every step; the counters of the cross-core flags; the
place of each core in `AicProcess` / `AivProcess`.  Operations: the products and vector stages
between two waits.  Interactions: flags of mode 2 (a cube core and its vector cores), flags of
mode 0 (barriers of all vector or all cube cores).  Hard: columns are split over cube cores and
rows over vector cores, so most hand-overs cross core groups; the next step overwrites what
slower cores may still read; one flag id has several meanings; flags are thinned out when a
counter would overflow.  Correct when every stage reads the complete result of its own step,
flags pair up, and all cores get to the end.

### 1.4 Engram fetch, training mode

Every rank holds `num_entries` rows of a table and fetches rows by global index.  State: in the
window of every rank the counts with their flags, a ring of indices per asking rank, and a ring
of rows per owner and sub-stream, each with a count of what was written and of what was read; in
the workspace the sorted indices, the ready flags and the gathered counts; the outputs.
Operations: sort by owner, announce counts, gather counts, send and receive indices, send and
receive rows.  Interactions: one-sided writes with a notifying count; the count of what was read
is fetched back over the network (the credit).  Hard: credits are asked for ahead and are old
when used; sender and receiver cores pass the ranks with different strides; rows are announced
at marks; counts have one buffer for all launches.  Correct when every token has the row of its
index, the context for the backward pass is that of the launch, and every launch ends.

### 1.5 Not modelled

`PROJECT.json` lists the rest with reasons: the other communication operators (MoE EP dispatch
and combine, the inference mode of Engram fetch, the V2 operators over URMA), which have
protocols of their own and are in the plan; collective matmuls, whose communication is done by
HCCL outside the repository; and the numerical kernels, registration, shape inference, build,
documents and tests.

## 2. Plan

Order of work, most important behaviour first.  Done: 1 to 20.

1. `FfnWorkerScheduler`, with `RoundMailbox` as its abstract specification.
2. `FfnWorkerSchedulerProofs`: inductive invariant and safety theorems.
3. `AttentionToFFN`: the sending side, both scenes.
4. `AttentionWorker`: receiving side, scheduler, combine, FFNToAttention.
5. `WorkSplit`, `WorkSplitProofs`: how work is split over cores, for all sizes.
6. `FfnWorkerBatching`.
7. `MlaPrologPipeline`.
8. `RankBarrier` and `DistributeBarrier`, and `DistributeBarrierProofs`: the safety properties
   and the refinement for all worlds.
9. `MoeDispatch` and `MoeDistribute`: the exchange of a mixture-of-experts layer, composed.
10. The order in which combine sends its rows, in `WorkSplitProofs`.
11. `MoeDistributeProofs`: no status of the exchange is lost, and dispatch is a barrier.
12. The output lists and the refinement in `FfnWorkerSchedulerProofs`: every property of the
    scheduler that the prover can reach.
13. `MlaPrologPipelineProofs`: the flag protocol of MLA Prolog for all sizes.
14. `AttentionWorkerProofs`: the safety of the receiving side for all sizes.
15. `FfnWorkerBatching` behind the scheduler (`need_schedule = 0`), with its tiling in
    `SortTiling`.
16. `AttentionToFFNProofs`: the safety of the sending side for all sizes.
17. `EngramFetch`: the training mode of Engram fetch.
18. `FfnWorkerBatchingProofs`: no round is lost in batching; `SumOrder` and the lemmas about
    sums and sorted lists in `WorkSplitProofs`; the counters of MLA Prolog in `TypeCorrect`.
19. The tokens of a dispatch and the rows of a combine, in `MoeDistributeProofs`:
    `DispatchExact`, `CombineExact`.
20. The exactness and the types of batching, in `FfnWorkerBatchingProofs`: `GatherExact`,
    `TypeOK`.
21. Next, proofs: the two safety invariants of `EngramFetch`, for launches in which every pair
    of ranks exchanges something (section 6 says why they need that).
22. Next, models: MoE EP dispatch and combine; elastic worlds in the exchange; a composition of
    `AttentionToFFN`, `FfnWorkerScheduler` and `AttentionWorker` with several FFN nodes; the
    variant of batching for long rows, its path for few experts and the arch35 kernels; the
    group-compute branch and the split-M kernel of MLA Prolog; the size checks of the schedule
    contexts (32-bit products) and the workspace layout of batching; the V2 operators over URMA;
    the inference mode of Engram fetch and its backward pass.

## 3. Modules and how they correspond to the code

`map` in `PROJECT.json` gives the lines of every definition.

| module | what it models |
|---|---|
| `FfnWorkerScheduler` | `ffn_worker_scheduler_aicpu.cpp`. `pc`, `grp`, `mb` are the loops of `DoCompute`, `DoComputeAllSync`, `CheckHandleSessions`; `shard[s]` is the progress of `CopyAndResetSessions` for one session in `ParallelFor` (copy out, wipe the ids, drop the flag, as separate steps, shards interleaved); `outNum`, `out`, `pollingIndex`, `runFlag` are the context. The attention workers are `WriteTokens` and `WriteFlag`, the rest of the FFN worker is `Respond`. |
| `RoundMailbox` | the promise: one mailbox per session and micro-batch; post, take a whole group at once, answer all that was taken. |
| `FfnWorkerSchedulerProofs` | theorems about `FfnWorkerScheduler`: what its output lists contain, how sessions and polling index stay in step, and that it implements `RoundMailbox`. |
| `AttentionToFFN` | the kernel of all vector cores: `SendToken` (wait and write of one token), `ArriveAtSync`, `PassSync`, `SetFlagToFFN`, `SetFlagInAttn`; with the FFN nodes' scheduler (`CopyOut`, `ResetIds`, `ClearFlag`), the answers and the collecting attention scheduler. |
| `AttentionToFFNProofs` | theorems about `AttentionToFFN`. |
| `AttentionWorker` | `AttentionWorkerScheduler`, `AttentionWorkerCombine`, FFNToAttention on the other side, and the host that sends rounds and stops. Host variable `host`; every combine core has a `pc`, its own `mbId` and its share of the rows and blocks. Split by rows and split by k take the same steps; split by hidden blocks (`Wide`) clears the flags behind the barrier. |
| `AttentionWorkerProofs` | theorems about `AttentionWorker`. |
| `CombineTiling` | the host's `DoOpTiling` of the combine, with `SelectBestHCore`, as the record `Tiling`, and which rows, blocks and flags the kernel takes from it for a core. |
| `WorkSplit`, `WorkSplitProofs` | `SplitToCore`, the strided token loop, the shares rounded up of combine and gather, the two-fold rounding of the sort split, the permuted order of the MoE combine; theorems for all sizes. |
| `FfnWorkerBatching` | Both paths of the operator, chosen by the launch.  `need_schedule = 1`: `ReadContext`, `Scan`, `Sort`, `ClearFlags`, `Merge`, `Gather`, `ListGroupChunk` (one chunk of the listing, with the run that stays open in `openRun`), `ListGroups`, with the barriers between them; `SpinOnFlags` is the polling loop while it waits. Nothing in the kernel orders a core's reading of `polling_index` and `Scan`'s moving it on, and nothing in the module does; the history variable `late` remembers that a core has read it after that (`ReadsLate`). `need_schedule = 0`: `Schedule` is the call of `FfnWorkerScheduler` before the launch, as its contract has it (a flagged micro-batch of some sessions, out of the window and into `out`), the cores sort the shares of that list, and a long one is listed by `CountExperts` on several cores and `ListCounts` behind one more barrier. |
| `FfnWorkerBatchingProofs` | theorems about `FfnWorkerBatching`: no round is lost, a launch gathers exactly what it was launched for, its lists and counters stay within their sizes; with the lemmas about the shares of `SortTiling` and about runs of a sorted list. |
| `SumOrder` | the sum of some entries of a table, and a list sorted by a key: what dispatch and batching do with their counts and ids. |
| `SortTiling` | `TilingSort` of that path: the number of cores, the share of each, the loop that makes shares smaller, as functions of the length of the list. |
| `RankBarrier` | the promise of a barrier: enter, leave when all of the round's world have entered, give up. |
| `DistributeBarrier` | `distribute_barrier.h`, all cores of all ranks. `Launch` is `Init`; `pc` and `idx` of a core are its place in `BarrierProcess` and in the loop of `SetStatus`; `status[p][h]` and `finish[p][h]` are the flags and finish cells that are 1.0 in half `h` of rank `p`'s window; `stateFlag` is the marker of `InitStatus`. `Size`, `Member`, `Index` are the elastic tables of each round. |
| `DistributeBarrierProofs` | theorems about `DistributeBarrier`. |
| `MoeDispatch` | `moe_distribute_dispatch_v2.h`. `SendToken` is a turn of the loops of `AlltoAllDispatch`, `SyncSent` the first `SyncAll`, `SetStatus` a turn of its second loop, `WaitStatus` and `ClearStatus` are `WaitDispatch`, `SyncCleared` the second `SyncAll`, `LocalWindowCopy` the copy to `expandX` with the running sums. |
| `MoeDistribute` | `moe_distribute_combine_v2.h` behind it in the stream of every rank: `SendRow`, `SendFlag` are the two loops over a batch, `WaitDispatch` and `ProcessExpert` the loop of `LocalWindowCopy`; `NextRound` launches the next layer. |
| `MoeDistributeProofs` | theorems about the statuses, the tokens and the rows of `MoeDistribute`. |
| `EngramFetch` | `engram_fetch_train_arch35.h`, all cores of all ranks. `core[r][c]` is the place of a core: its phase, the rank it works with, what of it is done, the end of the chunk at work, the last credit and the one in flight. `Launch` is `InitFlagsAndCounters`, `SendCounts` to `SyncCounts` are `SendCountPhase`, `SendSlot` and `RecvSlots` a turn of the loops of `ExchangeIndices`, `SendRows` and `RecvRows` of those of `ExchangeTokenWithLocalRead`; `PeersFrom` is the order in which a core comes to the ranks, each core to every `Stride`-th, where the stride is the number of the rank's senders or of its receivers; `Ask...`, `Take...` and `DeliverCredit` are the credit counters. |
| `MlaPrologPipeline` | `kernel_mla_prolog_split_n_arch35.h`: `AicProcess`, `AivProcess` and the flags of `mla_prolog_comm_arch35.h`. |
| `MlaPrologPipelineProofs` | theorems about `MlaPrologPipeline`. |
| `MC...` | finite instances: routes, loads, launches, orders. `MCFfnWorkerScheduler` puts both modes of the scheduler into one run: `allSync`, chosen at the start, tells whether there is one group of all sessions (`OneGroup`) or a group for each. |

Representation of data.  A payload is the number of the round or step that wrote it, so that
stale, fresh and overwritten data can be told apart.  Expert ids are round numbers in the
scheduler, experts in batching.  A token of the MoE exchange is `<<round, rank, token, k>>`, the
triple that `FillTriple` writes behind its data and the round in place of the data.
Quantization, addresses and the arithmetic are left out.

Granularity.  A scan of flags that only one actor resets is one step: a scan that succeeds
agrees with the state at its last read, one that fails with the state at the failing read.
Copy, wipe and flag reset are separate steps, as are data and flag writes, and as are reading
flags and lowering them where others may write in between.  In the MoE exchange the poll of a
core's share of the statuses is one step: a status stays up until its only reader lowers it, so
the last read of the loop sees what the earlier ones saw.  In the MLA pipeline a product or a
vector stage happens at one instant between the wait before it and the flag behind it.  In the
Engram fetch a core passes over the ranks with which it has nothing to exchange in the same step
(`HasWork`, `ToPeer`): it neither waits nor writes there.

## 4. Runs

| run | instance | question |
|---|---|---|
| `sched` | 2 sessions, 2 micro-batches, 2 rounds; two groups of one session, or one group of both and rounds with and without tokens for this node | several groups, and polling mode, under fairness: is anything lost between scan, check of `run_flag`, copy and answer; ownership, data, exact lists, answers, stop; do the sessions of one group stay at one layer and in step with `polling_index` (`OneGroupInStep`); refinement of the mailbox (`ImplementsMailboxes`) |
| `worker` | 3 rows of 2 results on 2 combine cores, 2 sending cores, 2 micro-batches, 2 rounds, `need_schedule` = 1 with a row in one piece or in 2 blocks, `need_schedule` = 0 with 2 blocks on 5 cores, of which 4 work, two orders of results | does the attention worker combine exactly the last round of every micro-batch, in turn, and does the wait end on a stop |
| `send` | 2 sending cores, 2 FFN nodes, 2 micro-batches, 3 slots, 2 rounds, both scenes; one token with two masked slots, or three tokens | do flags cover rounds; is anything lost; is the right set of nodes told; are rounds collected |
| `batch` | 2 sessions of 3 slots, 2 micro-batches, 3 cores, three launches: padded rows of the window sorted on one core or on several, 2 rounds; the scheduler's list of up to 2 sessions, sorted on one core or on several and listed by one or by two, 1 round | is every token gathered once, under the right expert and with its data; is a round dropped on the way; is every round answered; all as long as no core has read `polling_index` late |
| `batch_late` | same | **violation** of `ReadyBatch` |
| `barrier` | 3 ranks of 3 cores, 4 launches in worlds of 3, 2, 2 and 1 ranks, with and without a time limit | is it a barrier; is an arrival swallowed; is the clock watched; does every launch end |
| `moe` | 3 ranks of 2 cores; 3 rounds with an expert on every rank and masks that leave whole ranks idle, or 2 rounds with a shared expert on two ranks and two experts on the third | does every expert get its tokens, and every token its rows, and only those; is a flag swallowed; does anyone hang |
| `engram` | 3 ranks of one sender core and two receiver cores, 2 launches, 5 tokens, a ring of 4 rows and of 2 slots of 2 indices | is the saved context that of the launch; has every token its row; does every launch end |
| `engram_ring` | 4 rows through a ring of 2 | **violation** of `Fetched` |
| `mla` | 2 cube cores with 2 vector cores each, 4 rows then 3, 3 heads of 3 units in blocks of 2, five launches of three branches | does every stage read its own step (`HandOversOfStep`, six hand-overs); do flags drain; does the kernel end |
| `mla_steps` | same, MXFP4 launch | **violation** of `CkvKrOfStep` |
| `mla_heads` | 16 heads on one cube core, `MAX_SYNC_FLAG_COUNT` = 15 | **violation** of `HeadsDequantized` |

Bounds and why they are enough to be interesting.  `RoundNum` bounds the rounds of each pair:
two rounds are the least that let a stale flag, id or datum of one round meet the next.  Two
micro-batches make the order of micro-batches matter and let the index wrap.  Two sessions in
one group make a group partly ready, two groups make one ready without the other.  Rows and
cores are chosen so that the tail core of combine has the smaller share, by rows and, with five
cores and two blocks, by groups of cores; slots so that the two sending cores have unequal work;
pads and sort limits so that both sort paths run.  Behind the scheduler the list has three ids
or six: three fit one sort, six do not.  The sessions have unequal loads, so that the tokens of
a launch are none, one, three or four: one is listed by one core, three are counted by two cores
with a remainder for the last, and of four a run of one expert crosses from one core to the
next.  One round of each pair (`ListRoundNum`) is up to four launches that take something, which
is enough for counters of one launch to meet the next.  In `mla` the second step has fewer rows
than vector cores, one cube core has no columns of the down-KV product, heads are split 2 and 1,
and blocks end inside heads.  `mla_heads` uses the real limit of the counter.  In `barrier` one
launch has fewer ranks than sending cores, which makes cores idle; the same world twice in a row
lets a rank run ahead on unchanged numbers, and four launches use each half of the window twice,
the least for a stale flag to meet its second use.  In `engram` a rank asks another for five
rows, one more than the ring has, in three slots, one more than fit, so that indices and rows
wait for credits.  The ranks have unequal strides: the sender core of a rank goes through all
three, one receiver core looks at ranks 0 and 2, the other at rank 1 alone, so that a sender
owes its rows to receivers that serve its peers in another order, and a receiver that serves two
ranks may hold up one sender while the other waits for the first.  Rank 1 gets rows of both
others and rank 2 owes rows to both; every two ranks exchange something in every launch.  In
`moe` some ranks have no tokens and some tokens no experts, so ranks get through a round as
early as the protocol lets them; one setup has several experts on a rank, where the order of
blocks and of statuses differ, and several rows on a core, so that a batch of two
(`SendSlotNum`) is followed by another.  Deadlock is checked in every run but `mla`, `barrier`
and `moe`: the ends of the bounded models are stuttering actions (`Finished`, and `SpinOnFlags`
where an operator polls for a round that is beyond the bound).  The MLA kernel really stops when
all cores are done, so `mla` has `CHECK_DEADLOCK FALSE`, and `KernelEnds` says that it stops
nowhere else.  So it is with `moe` and `RoundsEnd`, and with `barrier`, which stops after the
last launch or when a rank has timed out and `BarrierEnds` says who must have come out by then.

### What the runs show to be wrong

1. `batch_late`: core 0 stores the next `polling_index` when its scan ends
   (`ffn_wb_scan_token_info.h:141`), before the first `SyncAll` of the kernel
   (`ffn_worker_batching.cpp:124`), and every core takes its micro-batch from that word when it
   starts (`ffn_wb_get_schedule_context.h:123`).  A core that comes to it after the store takes
   the next micro-batch, whose ids no flag vouches for, and sorts, wipes and gathers that one.
   The launch in batch mode (`ffn_worker_batching_tiling.cpp:204`) starts the cores together but
   orders none of these reads, so it needs a core that is slower to its first read than core 0
   is through a scan that finds all flags up.  `ffn_wb_a5_prepare.h:86-93` has the same order on
   arch35.
2. `engram_ring`: a sender waits until one row of the ring is free (`totalSent` against
   `remoteReadCnt + maxTokensPerSlot_`) and then writes a whole chunk of up to
   `indicesBatchSize_` rows.  Once the ring has wrapped, rows that nobody has read are
   overwritten, and tokens get the rows of others.  Needs a share that exceeds the ring by at
   least two rows; `FetchedWithinRing` (run `engram`) asks for the row of every token as long as
   the share exceeds the ring by at most one.
3. `mla_steps`: `MatmulCkvKr` of step k+1 waits only for `FINISH_VEC_CKVKR` of the cube core's
   own vector cores, the vector cores of other cube cores may still read step k.  With
   `enableDequantOpt` (MXFP4 included) no barrier of all vector cores follows the read.  Needs
   more tokens than `stepBatchSize` (128) and one core group that lags a whole product chain
   behind another: rare in time, but nothing excludes it.  In the branch with
   `FINISH_VEC_DEQUANT_QC` later barriers do (`CkvKrOfSyncedStep`, run `mla`).
4. `mla_heads`: with more than 15 heads on a cube core only even heads and the last are
   announced and awaited, each before its own product, so an odd head is multiplied when only
   the head before it is known to be dequantized.  The split-M kernel has an extra gap flag for
   this.

## 5. Fairness

* `FfnWorkerScheduler`, in both modes: the operator's thread and `Respond` are weakly fair, and
  so is each shard (the AICPU thread pool runs all of them) and each attention worker.  `Stop`
  is not fair: the host need not stop.
* `AttentionWorker`: weak fairness of the host's stream, the scheduler's loop, and that some
  combine core and some sending core goes on as long as one can: a core has only a bounded
  number of steps in a launch, so that in the end each has taken its own.  The FFN node's answer
  to a micro-batch is strongly fair until the stop, because it takes the micro-batches in any
  order and one of them may be disabled while another is on its way; after the stop it may stay
  silent for ever, and the wait of the scheduler must end then too (`RoundsCombined`).  The host
  need not stop.
* `AttentionToFFN`: weak fairness of every core in its kernel, of every FFN node's polling and
  answers, and of the collecting attention node.  The host is not made to send another round.
* `FfnWorkerBatching`: weak fairness of the launch as a whole (its cores, its barriers, the host
  that launches it again; a core has a bounded number of steps between two barriers, so all of
  them get there), of the answer, and of each session.  The scheduler's call is strongly fair
  for each session: `FfnWorkerScheduler` walks over all groups of sessions in every scan, so it
  does not pass a flagged one over for ever, but the operator may be busy in between.
  `SpinOnFlags` is not fair.  `RoundsAnswered` is asked of the behaviours in which no core ever
  reads `polling_index` late.
* `DistributeBarrier`: weak fairness of each rank's running operator (`RankStep`: any of its
  cores, its clock, its `SyncAll`).  No launch is fair: a rank need not come, and `BarrierEnds`
  asks only for launches whose round all have entered or that have a time limit.
* `MoeDistribute`: weak fairness of the whole next step.  Every rank is launched for every
  round, nothing can stop or repeat, so it is enough that something goes on.
* `EngramFetch`: weak fairness of every core in its kernel (the delivery of a credit it waits
  for included), of the launch and the barriers of every rank: each rank is launched as often as
  the others, as a collective call is.
* `MlaPrologPipeline`: weak fairness of each core.  Flags are counters that only the waiter
  decrements, so a wait whose flag is set stays enabled and weak fairness suffices.

## 6. Proofs

`FfnWorkerSchedulerProofs`, for all numbers of sessions, micro-batches, slots and rounds, for
each group size that divides the sessions, from `ContextAssumption` only:

* `TypeCorrect` (types; in particular `out_num` stays within the output buffers), `Ownership`,
  `DataStays`, `Conserved`, `AnsweredOnce`.

`TypeOK` is not inductive: that `outNum + SyncGroupSize` stays in range needs that groups are
served in order.  The inductive invariant is

    IInv == TypeOK /\ ControlInv /\ ListInv /\ CopyInv /\ RoundInv /\ EntryInv /\ WriteInv

* `ControlInv`: where the shards run (of group `grp`, in `"output"`, nowhere else), and that
  `outNum` is 0 before the group loop and at most `Start(grp)` in it;
* `ListInv`: listed sessions are strictly increasing and below the group being served, which
  gives "each session once";
* `CopyInv`: what a shard that is past its copy has put into the list;
* `RoundInv`: `sent = answered` plus one exactly for pairs that are flagged or in hand, with the
  layer and data of that round still in the window;
* `EntryInv`: an entry carries the round its session waits for;
* `WriteInv`: a pair being written is unflagged, not in hand, and has nothing outstanding.

The proof has one lemma per action (`WriteTokensInv` ... `StopInv`), each with one step per
conjunct that the action disturbs, `NextInv` collects them, `Invariance` is the temporal step,
and the theorems follow from `IInv` and PTL.  `GroupNumFacts`, `StartFacts`, `GroupFacts` are
the arithmetic of the groups.

* `MeetsMailbox`: the refinement `Spec => Mailbox!Spec` (the property `ImplementsMailbox`, which
  the run `sched` asks of either mode as `ImplementsMailboxes`).  `WriteFlag` is the mailbox's
  post, the step that forks the shards its take, `Respond` its answer, and everything else
  stutters.  That the late `ClearFlag` stutters is the point: the flag it lowers belongs to a
  round that is in hand since the fork, and no new round can have been flagged in between.

`OutputCorrect` proves `OutputFaithful`.  `IInv` says where a round is; `OInv` says what its
expert ids are on the way: those of the round from the flag until the shard wipes them, none
between two rounds, and whole groups in the list.  The part between two rounds is needed because
a session writes only the slots of its own workload: the rest must already be empty, and it is
because the operator wiped it.

`AllSyncCorrect` proves `AllSyncInStep` (in the run, `OneGroupInStep`): with one sync group all
sessions have had `k` rounds answered, and `k + 1` on the micro-batches below the polling index
(`ServedUpTo`), or one call has listed the next micro-batch and is on its way to the answer.

`WorkSplitProofs`, for all numbers of items and cores: `StridedCovers`, `StridedWithin` (the
token loop of AttentionToFFN takes its length from contiguous shares but walks with a stride; it
covers each token once all the same), `ChunksCover`, `ChunksDisjoint` (FFN nodes and masked
slots), `LastCoreWorks`, `CeilChunksCover`, `CeilChunksDisjoint` (combine, gather),
`SortSplitWorks`, `SortChunksCover` (sort cores).  The modules of the senders, the combine and
batching use these definitions.

Sums over a set (`SumOf`) and lists in order (`InOrder`) are recursive or made by choice in the
community modules.  What the proofs need of them is derived here from scratch: natural and
finite-set induction by a least element outside the set of good ones (`NatInduct`, `SetInduct`),
sums of disjoint pieces and of successive entries (`SumUnion`, `SumPieces`, `SumUpTo`,
`SumPlace`), and the places of a strict order (`RankFacts`, `InOrderFacts`).

`PermNeverRepeats` and `PermCovers` are about the MoE combine, which sends the `n` rows of its
chunk with a stride near `n / 2`: for every `n` and every phase each row is sent once.  The
argument is that the stride is coprime to `n`, by an explicit inverse (`StrideInverse`), and not
by the theory of common divisors.

`DistributeBarrierProofs`, for all numbers of ranks and cores, all sequences of shrinking worlds
and all numberings, from `BarrierAssumption` only: `TypeCorrect`, `FlagsKept`, `ClockWatched`
and the refinement `IsBarrier`.  None of the properties is inductive: that a flag about to be
raised is down depends on how far the two ranks can be apart, and that on who has seen whose
flag.  The inductive invariant `IInv` says, besides the types, how the marker follows the number
of launches, where the cores of a rank can be together, and that the flags and finish cells that
are up are determined by control: the flag of rank `p` for round `n` at rank `q` is up exactly
when the core of `p` that serves `q` has passed it in its loop and the core of `q` that serves
`p` has not lowered it (`FlagInv`).  From it follows that ranks are never more than one launch
apart within a world, so that a half is free again before its next use.  One lemma per action
(`LaunchInv` ... `ReturnInv`), collected in `StepInv`; the refinement adds one step per action
to `IInv`.

`MoeDistributeProofs`, for all numbers of ranks, cores, tokens, experts, rounds and batches, all
layouts and routings of `Setups`, from `DispatchAssumption` and `CombineAssumption` only:
`StatusKept` (the property `StatusNotLost`) and the refinement `DispatchMeets` (the property
`DispatchIsBarrier`).  The barrier is nowhere written in the kernel: a rank gets through a
dispatch because it has counted a status of every rank.  The inductive invariant says so for
every round: what a rank has counted, and every flag that is up, was sent by the rank and for
the expert that its place stands for (`CountedInv`, `FlagInv`); a half is empty once it is
lowered (`LoweredInv`), and what is counted stays until then (`ClearInv`).  Hence no rank is two
rounds ahead of another (`RoundsClose`), and the place of a status about to be written is free
(`SenderFacts`).  `PlaceFacts` shows that rank and place of a status determine sender and
expert, shared experts included; `ChunksDisjoint` and `ChunksCover` give each status to one core
on either side.  Steps that touch no status are handled at once (`CalmRank`); the four that do
have a lemma each.

What the tokens are plays no part in `IInv`.  `DispatchCorrect` (the property `DispatchExact`)
follows from a second invariant, `DInv`, that rests on the first; all of TLC's states of the run
`moe` satisfy it.  It says where the tokens are: a token that was sent is in its cell, in the
half of its round, until the receiver has left that round (`DataInv`), and so is the count of
its status (`CntInv`); what a core has counted are the counts of the routing (`CountsInv`), what
it has put into the workspace is their sum over its share (`RecvInv`), and what it has copied is
in place (`Copied`).  The work is in the layout, which is stated for a setup and a round alone,
away from the state: the tokens of a status have the slots from 0 on, one each (`SlotFacts`),
cells of different tokens differ (`CellFacts`), the shares of the sending cores cover every
entry and every shared-expert token (`EntryWritten`), the count that a rank sends is the number
of its tokens (`StatusCntIs`), the workspace sums of the cores before a core are the rows before
its share (`FirstRowIs`, from `SumOfShares`), and the rows of two statuses are apart
(`RowsApart`).

`CombineCorrect` (the property `CombineExact`) adds a third, `CInv`, which all of TLC's states
of the run `moe` satisfy too.  Combine has no barrier and no acknowledgement: a rank writes rows
and flags into the windows of others that may be a round ahead, and lowers flags while others
raise them.  What the invariant follows is therefore how far the loops have come (`RowsOut`,
`FlagsOut`): every cell of a rank belongs to one turn of one core of one rank (`TurnFacts`, from
`TokenOfCell`, `StatusOfToken`, `PermCovers` and `PermNeverRepeats`), and its row or its flag is
out when the loop is past this turn (`RowSent`, `FlagSent`).  The flags that are up are those
that are out and whose token is not counted (`UpInv`); a row that is out stays in its half until
the round is over (`WinInv`); a token that is counted, and every token of a round that is over,
has all its flags (`TakenInv`, `GoneInv`).  Rows go out before flags (`FlagsBehind`, from the
batch arithmetic of `RowStep` and `FlagStep`), so what is counted has all its rows.  That a flag
about to be raised is down follows from two facts of other parts: a rank that combines has got
through the dispatch, so all ranks are in its round or one ahead (`AllMet`), and a rank that is
one ahead has counted this very flag (`FlagDown`).  And the half that a rank turns to is empty,
as nobody sends rows of a round that this rank has not entered (`NothingYet`).

`MlaPrologPipelineProofs`, for all numbers of cube and vector cores, rows, columns, steps, heads
and blocks and for every launch: `HandOversCorrect` (`HandOversOfStep`), `DrainedCorrect`
(`FlagsDrained`) and `TypeCorrect` (`TypeOK`, which bounds every flag counter).  The flags of
one id are told apart by nothing but their number, and a flag says only that it has been set.
The inductive invariant therefore counts.  How often a core has computed a stage, set a flag or
taken one is a function of its place and step (`CqDone`, `NormTaken`, `Roped`, ...); a flag
counter is the difference of what one side has set and the other has taken (`FlagsOf`), so a
cube core and its vector cores are never more than one step apart (`Lead`); a core behind a
barrier has seen the counts of all cores (`CubeBarrier`, `VecBarrier`); and the workspace holds
what the counts say (`CubeData`, `VecData`).  One lemma per action (`MatmulCqKeeps` ...
`EndQuantQnKeeps`) keeps the invariant, one per hand-over (`CqHolds` ... `QnHolds`) reads the
property off it.  The counters follow from the same differences: one that is set once a step is
bounded by the steps two cores can be apart (`OnceBounds`, `StepBounds`), one that is set in a
loop by the length of the loop (`LoopFlagBounds`, with `LoopInv`), and the barriers by how far
the cores of a kind can be apart (`BarrierBounds`, `CubeBarrierBounds`).  The three theorems
assume `FewHeads`: no cube core has more than `MAX_SYNC_FLAG_COUNT` heads.  With more the heads
are only partly announced, and the run `mla_heads` shows that the property then fails.
`CkvKrOfStep`, which the run `mla_steps` refutes, is no part of `HandOversOfStep`, which asks
for it only in the launches whose later barriers give it.

`AttentionWorkerProofs`, for all numbers of micro-batches, rows, results of a row, cores and
rounds, from `WorkerAssumption` and `OrderAssumption` (an FFN node lists every slot once):
`TypeCorrect`, `FlagsCorrect` (`FlagsFresh`), `RoundRobinCorrect` and `CombineCorrect`
(`CombineExact`).  Waiting for a flag and using what it stands for are many steps apart, in
different actors, and what bridges them is `Arrived`: the slot holds the result of the round
under way and the FFN node has nothing more to write into it (`Pending`), since it lists every
slot once and no round is answered twice.  The inductive invariant says that every flag means
`Arrived` (`FlagInv`), that what a core or the scheduler has waited for stays so until it is
combined (`ReadyInv`), that what it has cleared stays cleared (`ClearInv`), and what the output
holds meanwhile (`OutInv`).  `TurnInv` ties the counts of all micro-batches to `micro_batch_id`,
on either side of the step that moves it, and `PlaceInv` says where host and cores can be
together: a core past the barrier leaves none behind that has not read the context.  One lemma
per action (`ScheduleInv` ... `WriteTokenInv`).

That the cores leave out no row and no block is proved of the tiling itself (`WholeRows`,
`TwoBlocks`, gathered in `TilingSound`).  It holds under `FewBlocks`, which all four theorems
assume: the launch waits for its flags itself, or its hidden dimension has at most two blocks.
Without it the lemma is false, by the inconsistency of `SelectBestHCore` described below.

`AttentionToFFNProofs`, for all numbers of FFN nodes, micro-batches, slots, cores and rounds,
for all routes and both scenes, from `SendAssumption` only: `TypeCorrect`, `NothingLostCorrect`,
`FlagCorrect` (`FlagMeansComplete`) and `CollectCorrect` (`CollectComplete`).  Many cores write
one descriptor, one of them raises its flag, and in the synchronous scene nobody need have
waited for that flag before.  The inductive invariant follows a slot of the round under way,
which is unwritten, in the window, listed or answered: whatever is found in a descriptor or in a
node's list belongs to the round under way and is not answered (`ThereInv`), and an id that is
listed is still in the window exactly until the node wipes it (`IdsInv`).  Reader and writers
are kept apart by the flag alone: a node that is not watching has it up (`ReaderInv`), and the
flag of a node with a token already written stays down until the core that has this node in its
chunk comes to it (`FlagInv`, which uses `ChunksCover` and `ChunksDisjoint`).  That the flag
then covers every token rests on the barrier: nobody is past `SyncAll` while a core still sends
(`CoreInv`), so that no flag shows the round under way before (`LayerInv`), and the cores behind
it have been through all their tokens (`StridedCovers`).  One lemma per action (`CallKeeps` ...
`CollectKeeps`), with `SlotsSame` for those that touch no slot.

`FfnWorkerBatchingProofs`, for all numbers of sessions, micro-batches, slots, experts and cores,
for both paths and every list the scheduler may hand over, from `BatchingAssumption` only:
`AllRoundsKept` (`RoundsKept`).  What is said of rounds and rows does not hold once a core has
read `polling_index` after `Scan` moved it on, as `batch_late` shows; `RoundsKept` and
`GatherExact` say so (`late \/ ...`), and the invariants below are proved as `late \/ FInv`.
That `late` stays, once it is true, is `LateKept`; that it becomes true in the very step in
which a core takes another micro-batch than core 0 is what `ReadContext` and `ReadsLate` give.
The condition is on the order of two accesses that the code leaves open, not on the code:
whoever makes the cores read the word before `Scan` stores it has the theorems without it.  With
`need_schedule = 0` no core reads the word, so a run with such launches alone is never late.

The cores derive the micro-batch for themselves, and the one that lowers the flags is not the
one that found them up.  The inductive invariant says that the cores are in one stage of the
launch (`StageInv`), all on the micro-batch core 0 waits for (`BatchInv`), that a round out is
flagged with its ids or in hand (`RoundInv`), what has been wiped in which stage (`WipedInv`),
and what the scheduler's list carries (`ListInv`).  That a round in hand is wiped when it is
answered, so that the next one starts from an empty window, needs that the sort cores leave out
no session (`AllSorted`, from `SortChunksCover`).

What a launch computes is in a second invariant, `WorkInv`; the two together, `FInv`, are
inductive (`WorkInvariance`; all of TLC's states of the run `batch` satisfy `FInv`, with a bound
on the lengths that it quantifies over), and `GatheredExactly` (`GatherExact`) and
`BatchingTypes` (`TypeOK` until a core reads late; TLC finds it to hold after that as well)
follow from them, for both paths.  The first half gives what the second stands on: from the
scan, or the scheduler's list, to the answer, the ids that a launch works on stay what the
sessions have sent.  The second half then says stage by stage how much of them is done.  The
part of a core that has sorted is its share of the ids (`SortInv`) and the valid count is the
sum of these shares; the merged list has the row number of every id once, and the experts in
order (`MergeInv`); a core that has gathered has written the rows of its share, with the
session, slot and data of the sender (`GatherInv`); the counts of the experts are those of the
places that the cores past `CountExperts` had to count (`TallyInv`); the list of the last core
has the runs of the places listed so far, the last of them still open (`GroupInv`, `OpenInv`).

Two kinds of lemmas carry the work.  The shares of the window and of the list (`ListChunksPart`,
`SortChunksPart`), of the rows and of the counting (`BlocksPart`) leave out nothing and have
nothing in common, so that what the cores do each for itself adds up to all of it.  The runs of
a list in order have one entry for every expert in it, with the number of its places
(`RunsOfInterval`, `RunsCut`), and the runs of two adjoining pieces are joined at the seam,
where the run that ends one piece may go on in the next (`JoinRuns`): that is what
`ListGroupChunk` does chunk by chunk, however the expert runs lie to the chunks.  `WorkSend` ...
`WorkRespond` take the invariant through the actions one by one; `OneStage` says which cores may
be where meanwhile.  `InvExact` reads `GatherExact` off the invariant at the end of a launch.

Only model-checked: all liveness, which is outside what the proof system does under fairness,
and everything about `EngramFetch`.  Its two invariants do not follow from the code alone.
`ContextExact` holds because two ranks that exchange something in a launch wait for each other;
ranks that exchange nothing may drift apart (section 7), so a proof needs a condition on the
indices of every launch, which the run `engram` meets by its choice of indices.
`FetchedWithinRing` follows the rows through a ring whose credit may be from an earlier launch;
its inductive invariant would need that same condition, and the credits read late as well.

## 7. Assumptions that a reader should know

* `FfnWorkerScheduler` models one FFN node: a session sends its next round on a micro-batch when
  the round before is answered, and that is after this node listed it.  With several nodes in
  the synchronous scene a session may be answered by others before this node has taken a round
  without tokens; `AttentionToFFN` models that skew (property `NothingLost` there), with the
  whole set of nodes.
* The sizes and pointers that `InitAndCheck...` verifies are assumed to be right; the 32-bit
  products in those checks are named below.
* `FfnWorkerBatching` models the arch22 kernels.  With `need_schedule = 1` what is said of a
  launch is said under a condition: that no core has read `polling_index` after core 0 moved it
  on (`late`).  `RoundsKept`, `GatherExact` and `RoundsAnswered` have it, and the theorems too.
  What follows a late read is in the model, action by action, and `batch_late` shows the first
  step of it; of it `TypeOK` alone claims anything.
* In batching the row numbers, `SessionNum * SlotNum` of them, are 32-bit integers
  (`ffn_wb_sort_multi_core.h:96`).  `BatchingAssumption` bounds them by `LargestPower`, 2^30, up
  to which `SortTiling` enumerates the powers of four that the loop of `PowerOfFourCeil` goes
  through; between 2^30 and 2^31 rows nothing is claimed.
* Lists in the workspace and outputs of batching go back to their initial values when a round is
  answered, because a launch writes before it reads them; the counters stay as they are, since
  launches add to them.  Merging the lists of the cores is one step of core 0, which has the
  last of the merges; the ones before work on the same lists between the same barriers.
* Behind a scheduler that has been stopped, or whose ids all belong elsewhere, one-core listing
  writes a pair of no tokens for an expert read from a buffer into which nothing was copied
  (`ffn_wb_group_listing.h:309`); `ListGroups` lets it be any expert.
* Two places of batching that the model's small sizes do not reach.  The last core of a sort may
  get one loop above `sortLoopMaxElement` (`ffn_wb_common.h:238`): its loops are counted by the
  share of the others, so that 245761 ids on 40 cores with a limit of 6144 give it 6145 in one
  loop, rounded up to 6176.  And a token that needs several blocks is read at a byte offset to
  which `hStart`, a number of elements, is added (`ffn_wb_gather_out_all.h:191`).
* With `need_schedule = 1` the rows of `group_list` behind the one end row `[0, 0]` keep what
  they held before (`ffn_wb_scan_group_listing_one_core.h:80`), while the operator's README
  (line 96) fills unused experts with `[0, 0]`; `GatherExact` reads the list up to the end row.
* `EngramFetch`: a posted write lands at once, in the order of its channel; only the read of a
  credit takes time.  What the run leaves out by its bounds: every rank has one sender core, and
  these go through the ranks in the same order, 0 first; several senders per rank, each with
  some of the ranks (four cores or more), and several sub-streams for a pair (`GroupSize` above
  1, four cores per rank) are not run.  A pair of ranks that exchanges neither indices nor rows
  in a launch is not kept together by anything, so that the count of its next launch may
  overwrite one that is not gathered yet, or its flag be wiped with the old ones
  (`ClearStatusFlags`); and with a number of cores that is not a multiple of the ranks, as 72
  cores for 16 ranks, the last group of tokens has no core for some owners, whose tokens are
  never sorted (`CountGatherToTemp`).  A negative index goes to rank 0 and fetches its first
  row, where `torchapi_ElasticBuffer.md` promises zeros for any index out of range.
* The local list of the groups with `need_schedule = 1` is written out only at the end, and its
  buffer has room for 1024 pairs and 32 bytes (`ffn_wb_scan_group_listing_one_core.h:54`), while
  the tiling accepts up to 8192 experts (`ffn_worker_batching_tiling.cpp:40`); `groups` has no
  such limit in `FfnWorkerBatching`.
* `DistributeBarrier`: the windows belong to the barrier alone (the operator has a communicator
  of its own); a rank that has timed out does not come back into it; worlds only shrink, and
  between launches; the time limit is set on all ranks or on none.  The markers of the cores of
  a rank, one word per core that turn together, are one marker.  Waiting for the share and
  reporting to core 0 are one step, because no other core reads or lowers these cells in
  between.
* `MoeDistribute`: dispatch and combine of a layer come in pairs with the same parameters, as
  their documents demand (`aclnnMoeDistributeDispatchV2.md`), and the expert in between keeps
  the order of the rows.  The experts of a token are distinct.  One- and two-dimensional active
  masks are partial rows of experts.  A rank has more than one core.  What core 0 does at the
  end of dispatch (`SetExpertTokenNums`) is part of its copy step, with the cumulative type.
  Left out: elastic tables, quantization and expert scales, zero, copy and constant experts,
  `AddRmsNorm`, tensor parallelism, performance information, the layered and the A5 variants,
  and the clock.
* `CombineTiling`: one block stands for the variants split by rows and by k.  `Tiling` is as the
  code has it, in a place where the code does not agree with itself: `SelectBestHCore`
  (`attention_worker_combine_tiling.cpp:178`) hands back the number of cores of the best `x` it
  tried, but the rows' share of the last one.  With one or two hidden blocks only one `x` is
  tried and the two belong together; that is what the run `worker` has.  With three or more
  blocks (a hidden size above 24576 with 192 KB of local buffer) they need not: 40 cores, 14
  rows and 3 blocks give 28 cores and 7 shares of the rows times 2 of the blocks.  The 14 cores
  too many take rows from 14 on, behind the end of `y`, which the operator's README declares as
  `[BatchSize, HiddenSize]`.
* The combine with `need_schedule = 1` spins on its flags without looking at `run_flag`
  (`attention_worker_combine_split_bs.h:118`), so a stop does not end it, and no document
  promises that it does.  `RoundsCombined` asks only for the end of the scheduler's wait.
* Hazards that the code has and that no module reaches: `ClearTokenInfo` fills a buffer of
  `HSplitFactor` half words with `bsLoopNum * (K + 1)` words
  (`attention_worker_combine_split_bs.h:192`); `micro_batch_size * selected_expert_num` is
  multiplied in 32 bits (`attention_worker_scheduler_aicpu.cpp:66`); the workspace of batching
  is sized without the padding of the rows (`ffn_worker_batching_tiling.cpp:57`); an expert
  deployed nowhere makes `rankCnt` a zero divisor (`attention_to_ffn.h:367`).
* `AttentionToFFN` draws routes from tables in which every expert is deployed somewhere.
* The hardware's flag counters are unbounded in `MlaPrologPipeline`.  Eleven or more heads on
  one cube core can set `FINISH_MM_QCQR_SPLIT_N` more than 15 times ahead of a slow vector core;
  what happens then is not defined in the repository, so no property is about it.
* Not in `MlaPrologPipeline`: the group-compute branch, the split-M and arch22 kernels, events
  between the pipes of one core, host tiling beyond the splits of heads and steps, and all
  arithmetic.
