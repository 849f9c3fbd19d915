# Verification of Portarium's control plane

Portarium is a control plane for AI agents: an agent proposes an action, a
policy gate or a human approves it, and only then is it carried out by an
external execution plane, with an audit trail. Around that boundary the control
plane starts runs, lets operators intervene in them, changes the policies they
are governed by, and delivers what happened to its consumers. This directory
holds TLA+ models of these parts, the TLC configurations that check them on
small instances, and TLAPS proofs of the results that matter most. There are
five compositions: the approval boundary (`GovernedAction`), the same with the
expiry scheduler (`ExpiringAction`), runs (`GovernedRun`), events
(`EventDelivery`) and policy changes (`PolicyChange`). Paths below are relative to
the repository root, which the manifest calls `src/`; the implementation is in
its `src/` subdirectory.

## 1. The system

### Components

| Component | State it keeps | Operations | Hard behaviour |
| --- | --- | --- | --- |
| Approval, proposal, idempotency stores (`infrastructure/postgresql/`) | JSON documents by tenant, collection and id | `get`, `upsert`, `insertIfAbsent`, `updatePayloadIfStatus` | every call is its own statement; the `UnitOfWork` of the runtime runs its body with no transaction |
| `createApproval` | none of its own | lookup, save, publish, evidence, cache | a failure after any call; two requests under one key |
| `proposeAgentAction` | proposals, unique by idempotency key | lookup, evidence, event, gate, approval, save, race check | racing proposals; the save's failure is swallowed |
| `submitApproval` | cached decisions | load, lookup, link check, compare-and-set, event, evidence, cache | the copy that was read is stale when it is written |
| `executeApprovedAgentAction` | reservations by dispatch key | load, bind, reserve, claim, dispatch, write back, audit, complete, release | two executors; retries; ambiguous dispatch failures; a failed claim |
| Approval expiry scheduler | escalation steps, in memory | list, evaluate, expire, escalate | sweeps overlap; a sweep throws; a restart forgets |
| Event outbox (`infrastructure/postgresql/postgres-eventing.ts`, `infrastructure/eventing/`) | outbox entries, the batch of each dispatcher | enqueue, poll, publish, mark | dispatchers overlap; a publish whose mark is lost; bounded listing |
| Projection worker | checkpoint, semantic index, knowledge graph, acknowledgements | fetch, project, acknowledge or give back | redelivery; a batch that fails half-way; random ids taken for an order |
| Evidence chain | hash-linked entries | list, then append | concurrent appends to one tail |
| Run control | runs | cancel, eleven interventions | unconditional saves over a read; two orders of save and evidence |
| Workflow start, Temporal runtime | runs, durable execution state, a worker's memory | start, activities, signals | two starts of one key; activity retries; lost acknowledgements; waiting for a decision |
| Policy changes | changes, the policy in force, audit entries | propose, approve, roll back, record a replay report | unconditional saves of copies; a command that fails between its writes |
| Everything else (human tasks, workforce, machine registry, map intents, rate limits, caches, HTTP layer, Cockpit UI, SDKs, research scripts) | see `PROJECT.json` | | |

The handlers call the stores, the event publisher and the evidence log through
ports; they share nothing else. There is one process per control-plane
instance, but a handler gives up control at every `await`, and several
instances may share one database, so handlers interleave at every awaited call.
The execution plane is another process: it gets a call, performs or refuses it
in its own time, and deduplicates by the key it is given.

### What makes each component correct

- Stores: a compare-and-set changes a record only from the status its caller
  expects.
- Proposals: callers of one idempotency key are told of one proposal; an
  approval whose proposal is not stored is never decided.
- Decisions: at most one wins, is announced and is replayed; it is never the
  requester's own; it reaches the evidence log.
- Execution: what is dispatched was approved, by someone else, with this
  payload; one claim at a time; one dispatch per key; replays tell the truth;
  an execution ends.
- Expiry: what nobody decides expires; an expiry and a decision exclude each
  other; a step is announced once.
- Outbox: only accepted events are delivered; an outcome of Published stands for
  a delivery; duplicates are bounded; what the dispatchers can see is settled.
- Projection: what is acknowledged was projected; the checkpoint is backed.
- Evidence chain: it verifies, unless appends overlap or are stamped late.
- Runs: a status moves along the table and a control is evidenced; what was
  cancelled stays so, except through somebody who read the run before; whoever
  is told of a run is told of a stored one; a run whose tier waits for a human
  is carried out if the latest decision before it resumed is an approval, and not
  otherwise; an execution closes.
- Policy changes: what is in force was authorized; a change is applied once,
  audited, and rolled back once.

`PROJECT.json` lists the hazards behind these properties, each at its line,
with the properties that would catch it or the reason why none does.

## 2. The modules

| Module | Models | Kind |
| --- | --- | --- |
| `ApprovalLifecycle` | `domain/services/approval-status-transitions.ts` | abstract specification: status and decider of each approval |
| `ApprovalStore` | the ports and their Postgres and in-memory implementations | shared state and store operations |
| `CreateApproval` | `application/commands/create-approval.ts` | one process per invocation |
| `ProposeAgentAction` | `application/commands/propose-agent-action.ts` and its helpers | one process per invocation |
| `SubmitApproval` | `application/commands/submit-approval.ts` | one process per invocation |
| `ExecuteApprovedAction` | `application/commands/execute-approved-agent-action.ts`, reservations of `PostgresIdempotencyStore` | one process per invocation, and the execution plane |
| `GovernedAction` | the four commands over one store | composition, properties, inductive invariant, refinement mapping |
| `ApprovalExpiry` | `application/commands/sweep-expired-approvals.ts`, `application/services/` and `infrastructure/scheduler/approval-expiry-scheduler.ts` | one process per sweep |
| `ExpiringAction` | the four commands and the expiry scheduler | composition, properties |
| `RunStore` | `domain/runs/run-v1.ts`, `domain/services/run-status-transitions.ts`, the run store | shared state, the status table |
| `EvidenceChain` | `PostgresEvidenceLog.appendEntry`, `domain/evidence/evidence-chain-v1.ts` | shared state, the two steps of an append, the verification of the chain |
| `RunControl` | `application/commands/cancel-run.ts`, `submit-run-intervention.ts` | one process per invocation |
| `RunWorkflow` | `infrastructure/temporal/`: `workflows.ts`, `activities.ts`, `activities-run-state.ts`, the orchestrator | one execution per run, Temporal's retries, the worker |
| `StartWorkflow` | `application/commands/start-workflow.ts` and its transaction, `create-run.ts` | one process per invocation |
| `GovernedRun` | starts, executions and operators over one run store | composition, properties |
| `EventContract` | what the outbox promises of an event | abstract specification |
| `Outbox` | `PostgresOutbox`, `outbox-dispatcher.ts`, the NATS publisher | one process per dispatcher |
| `ProjectionWorker` | `jetstream-projection-worker.ts`, `derived-artifact-projector.ts`, the derived-artifact registry | one process per worker |
| `EventDelivery` | outbox, bus and projection | composition, properties, refinement mapping |
| `PolicyChange` | `policy-change-workflow.ts` (commands and domain), `record-policy-change-replay-report.ts`, the policy store | one process per invocation, properties |
| `MCGovernedAction`, `MCExpiringAction`, `MCGovernedRun`, `MCPolicyChange` | | symmetry sets and bounds for TLC |
| `GovernedActionProofs`, `LifecycleProofs`, `EffectProofs`, `ExpiringActionProofs`, `EventDeliveryProofs`, `RunControlProofs`, `RunExecutionProofs`, `PolicyChangeProofs` | | proofs |

The modules of the commands extend `ApprovalStore`; `GovernedAction` extends all
of them and interleaves them; `ExpiringAction` extends `GovernedAction` and
`ApprovalExpiry`. `RunControl` extends `RunStore` and `EvidenceChain`;
`StartWorkflow` extends `RunWorkflow`, which extends `RunStore`; `GovernedRun`
extends both and interleaves them. `EventDelivery` extends `ProjectionWorker`,
which extends `Outbox`, and instantiates `EventContract`.

### How state and actions correspond to the code

A handler is a process with a program counter (`subPc[s]`, `execPc[e]`, ...)
whose value names the call it awaits next, the request it was given (`subReq`),
the copy of the approval it read (`subSeen`), and its reply. An action is what
happens from one `await` to the next: the call takes effect and the code after
it runs up to the next call. So whatever was read before an `await` may be
stale when it is used, exactly as in the code. `XFault` is a call that throws
before it takes effect, or the end of the process: the handler does nothing
more and what it stored stays. Faults count against `MaxFaults`. `XDone` gives
the reply and ends the process; a retry is another process with the same
request.

Data is abstracted to what the properties tell apart:

- `approval.proposal` stands for `runId = planId =` a proposal's id, which is how
  the code recognises a proposal-bound approval; `None` for any other.
- A payload stands for the action's `flowRef` and parameters together.
- The fingerprints are records of the fields that the canonical JSON holds.
- The derived dispatch key of an execution is the approval's id itself.
- The trail is the set of events and evidence entries, by what they say, about
  which approval, and who wrote them.
- Validation, authorization, quota and an unconfigured action runner refuse a
  request before it has any effect; the models start after them. The
  separation-of-duties and feedback rules that a caller may supply with a
  decision are a nondeterministic refusal; maker-checker, which is not
  optional, is exact. Policy evaluation is a nondeterministic gate decision.
- Cached results of an older format, without a fingerprint, are left out.
- The HTTP retries inside the OpenClaw invoker all carry one key and action id,
  and count as one dispatch: they rely on the execution plane's deduplication.
- `begin`, `complete` and `release` of the idempotency store issue two or three
  statements and are one action each; the module says why nothing can tell.
- Stores are those of the Postgres configuration, with compare-and-set and
  idempotency present. Without an idempotency store (the development
  configuration) there are no reservations, and only the claim protects.

`GovernedAction` covers approvals without an escalation chain, which the sweep
skips; proposals never have one. `ExpiringAction` adds those that do. An
approval's clock is a level: the last step of its chain whose time has come,
or overdue. The level of an approval does not move while a sweep waits for its
list, since chains are measured in whole hours; a chain of non-positive hours
is outside the model (see the hazards).

**Runs.** A starter is a `startWorkflow` invocation, and the run it creates has
its name, so `answer[s] = t` says that the caller of `s` was told of `t`'s run.
Temporal's workflow id is derived from the request's key: `ExecutedUnder(k)` are
the runs executed under `k`, and a second start under `k` is taken for done
(`temporal-workflow-orchestrator.ts:70`). `execution`, `tries`, `ackLost` and
`signal` are Temporal's own state, `memory` the worker's map of run statuses: the
activities never write the run store. An attempt of an activity succeeds,
throws because the run is not in the status it starts from, is lost before anything
is done (`LoseTask`), or takes effect and loses its acknowledgement (`LoseAck`). A
worker that restarts forgets its map; one that dies with a task is a lost task and a
restart. Lost tasks, lost acknowledgements and restarts count against `MaxFaults`.
Operators act on any stored run; seeded runs (`Seeded`) stand for runs of any status left by earlier work. A hash in the chain is modelled by
the id of the entry it is of; `orderly` is a history variable, true while no two
appends overlapped and each was stamped later than what was stored. Left out:
which operator a run is handed to, texts and authority checks, the workflow's
plan, diff and evidence, which a worker keeps in memory, the trigger router, which
the runtime does not wire, and signatures. `createRun` calls `startWorkflow` and
reads the run back.

**Events.** Entries are named by their ids, and their order is the order of the
random ids, in which the store lists them. `ListWindow` is the number of documents
that `fetchPending` lists before it filters (four times the limit, plus one);
`PostgresOutboxAdapter` lists pending entries only, which a window as large as
`Events` stands for. `batch[d]` is what dispatcher `d` fetched and has not
finished. The bus is a sequence; a message is a position in it. The evidence id a
message carries is random too and is modelled by its event. `held` are messages
whose ack-wait runs; a batch that fails (`WorkerFails`) or whose ack-wait runs out
(`AckWaitExpires`) is no longer held and may be fetched again. `retryCount` and `nextRetryAtIso`
are left out, since only failed entries carry them and those are never fetched;
messages that do not parse and batches that mix runs are left out as well.

**Policy changes.** A change is named by the invocation that creates it. All
changes name one policy, in their input and in their content (the code does not
compare the two, see the findings), and what it says is named by the proposal that brought
it, or `Original`; the text of a policy is never looked at. A `Create` is told
from an `Update` by whether a policy exists. `persistPolicyChange` is seven
stations (`change`, `policy`, `target`, `mark`, `audit`, `evidence`, `event`), one
for each awaited call, that every command goes through with the change it was
asked to store (`copy[x]`); `PolicyFault` ends it at any of them. Statuses no
command writes (`Rejected`, `Superseded`), dates, scopes and the replay's outcome,
which decides nothing, are left out. Changes are only kept in the in-memory store,
and no HTTP route calls the commands yet.

Operators headed "Bug:" are plausible mistakes in the operator that follows
them. No specification uses them: `PROJECT.json` lists which property each one
breaks, which shows that the property can fail.

## 3. What the runs check

All runs finish in under three minutes with two workers. `CHECK_DEADLOCK FALSE`
is set where each process handles one request and the system therefore stops
when all are done, or, in the event runs, when everything was accepted, delivered
and acknowledged; the expiry runs never stop, and deadlock is checked there.
Symmetry is used with safety only.

| Run | Instance | Distinct states | Shows |
| --- | --- | --- | --- |
| `propose` | 2 proposals, 1 key, 2 payloads, 1 decider, 1 executor, 1 fault | 743,000 | `ConsistentProposal`, `DispatchedAsApproved` |
| `decide` | 1 creator, 1 proposal, 2 deciders, 2 users, 1 key each, 1 fault | 2,680,000 | `GovernedTypeOK`, `OrphanNeverDecided`, `OneDecisionAnnounced`, `CachedDecisionStands` |
| `execute` | 1 creator, 1 decider, 2 executors, 3 users, 2 payloads, 1 given key and the derived one, 1 fault | 777,000 | `IndInv`, `FourEyes`, `SingleClaim`, `DispatchOncePerKey`, `ExecutingHasReservation`, `RedispatchOnlyAfterFailure`, `CompletedTellsTruth`, `LifecycleSpec` |
| `settle` | 1 proposal, 1 decider, 2 executors, no fault, fairness | 178,000 | `ExecutionSettles`, `DecisionEvidenced` |
| `expiry` | 1 creator, 1 decider, 2 sweeps, 1 step, 1 fault or restart, fairness | 586,000 | `ExpiringTypeOK`, `EscalatedOncePerLife`, `ExpiredIsFinal`, `OverdueSettles` |
| `governed_run` | 2 starters of 1 key, 2 operators, 1 seeded run, 5 kinds of intervention, 2 entries, 2 clock readings, 2 attempts, 1 fault, fairness | 267,000 | `RunTypeOK`, `AnsweredIsAnnounced`, `OrphanSharesKey`, `CarriedOutIfApproved`, `FailsOnlyByLostAck`, `ControlEvidenced`, `UndoneByEarlierRead`, `OrderlyLogVerifies`, `IllegalMoveIsStale`, `ExecutionCloses` |
| `delivery` | 2 events, 2 dispatchers, 1 worker, batches of 1, a window of 1, fetches of 2, 1 fault, fairness | 103,000 | `DeliveryTypeOK`, `DuplicatesBounded`, `AckedIsProjected`, `CheckpointBacked`, `ContractKept`, `PendingIsSettled`, `StreamDrains` |
| `policy_change` | 1 proposal, 2 rollbacks, 2 approvals, 1 report, 2 users, 4 of them entered, 1 fault | 493,000 | `InForceAuthorized`, `UnauditedIsOvertaken`, `UndoneByStaleCopy` |
| `failed_event` | 2 events, 1 dispatcher, 1 fault, fairness | | `FailedIsRetried` is violated |
| `expiry_overwrites` | 1 sweep, 1 decider | | `DecisionNotExpired` is violated |
| `release_ambiguous` | 1 executor, ambiguous replies | | `ReleaseOnlyUnaccepted` is violated |
| `released_key` | 2 executors, 1 fault | | `ReleasedKeyRetries` is violated |

The bounds are what the hazards need. Every race in these handlers is between
two invocations over one approval: the loser of a compare-and-set or of a
unique index sees one winner, whoever else is there. Three users are enough
for a requester, a decider and an executor that differ, two for the decider's
attempts on their own request. Two payloads and two keys make a retry that
matches and one that does not. One fault may fall between any two calls of any
handler; the proofs cover any number of anything.

In `governed_run`, `Meeting` keeps the product of all processes in bounds: two
starters meet each other, two operators meet each other on a seeded run of any
status, one starter meets one operator. It only keeps a process from being
entered, and takes no step from one that was. A later signal than the one an
execution went by is not looked at by the code and not modelled, so `signal[s]` is
the decision it went by. The five kinds of intervention are
one of each effect: two that pause, one that resumes, one that changes a control
and one that changes nothing. Two attempts of an activity stand for the five of
the code: one that fails or loses its acknowledgement, and the one after it. Two
entries and two clock readings let appends overlap, be late and tie.

In `delivery` a window of one entry lets a settled entry hide a pending one. In
`policy_change` two rollbacks may have one target, or one the other; two approvals
may approve one change twice or a rollback each; any four of the six commands are
entered (`MaxEntered`). Two proposals, with one rollback, one approval and one
report, all entered, were checked as well.

`Ambiguous` and `AckLoss` are on in every passing run. With `Ambiguous`, a dispatch
reported as failed may have been performed, or may be later; with `AckLoss`, a claim
may be stored although its caller saw an error. The code allows both, so the
properties are stated for both: `RedispatchOnlyAfterFailure` does not say that one
approval has one effect, which `release_ambiguous` refutes, but that only a reported
failure of every earlier dispatch lets the action be dispatched again; and
`ExecutingHasReservation` allows an approval that is stranded by a lost reply, as
long as nothing was dispatched under the key that was given up. Where replies are
final and no acknowledgement is lost they say that an approval has at most one
effect, and that its reservation is held.

Some properties do not exclude what a hazard describes, because the code does it:
they say that it comes about in one way and in no other (`OrphanSharesKey`,
`FailsOnlyByLostAck`, `UndoneByEarlierRead`, `IllegalMoveIsStale`,
`UndoneByStaleCopy`, `UnauditedIsOvertaken`), or have its absence as a premise
(`OrderlyLogVerifies`, `PendingIsSettled`, `AckedIsProjected`). The notes of the
hazards say which.

### Findings

1. `expiry_overwrites`: the sweep re-reads an approval, sees it pending, and
   saves it as expired with a plain upsert
   (`application/commands/sweep-expired-approvals.ts:148`). A decision written
   in between, and announced, is overwritten.
2. `release_ambiguous`: after a timed-out dispatch the approval is handed back
   as `Approved` (`application/commands/execute-approved-agent-action.ts:721`),
   which `.specify/specs/approval-v1.md:126` rules out.
3. `released_key`: a reservation released after a failed claim is reported as a
   conflict by `normalizeExistingReservation`, before `begin` could reclaim it,
   so the caller is stranded, which ADR-0142 wanted to avoid.

4. `failed_event`: `markFailed` stores the status Failed and the time of the next
   retry (`infrastructure/postgresql/postgres-eventing.ts:162`), but `fetchPending`
   takes pending entries only, so a failed event is never retried, which
   `infrastructure/eventing/outbox-dispatcher.ts:5` says it is.

Observed while modelling, with no run of its own:

- Two appends to the evidence log that overlap link to one entry and fork the
  chain (`postgres-eventing.ts:39`), which
  `.specify/specs/infrastructure-layer-v1.md:108` rules out: this is why
  `OrderlyLogVerifies` has a premise. Equal timestamps reorder it.
- A second start under one key that misses the cache stores a run which nothing
  executes, and its caller is told of it (`OrphanSharesKey` says it is the only
  way). `cancelRun` leaves the Temporal execution alone.
- The outbox takes entries in the order of random ids, not of acceptance, and the
  projector skips evidence with an id below the checkpoint (`AckedIsProjected`).
- A replay report is saved on the change as it was before the replay, and undoes
  an approval or a rollback stored meanwhile; a second rollback of one change
  moves the policy, then throws and leaves no audit entry. `UndoneByStaleCopy` and
  `UnauditedIsOvertaken` say that these are the only ways.
- `proposePolicyChange` reads the base policy by `input.policyId` and stores
  `proposedPolicy` under its own id; nothing compares the two, so a change may be
  based on one policy and overwrite another.
- A standard change that required a report can never be rolled back, and a Create
  that requires one can never get it while no policy exists.

### Fairness

`FairSpec` is weak fairness of every handler that was entered, step by step,
and of the execution plane's answer. A handler runs to its return or its catch
as long as the process lives and its calls return, and the HTTP client under
the dispatch has a timeout. Nothing makes anyone submit a request: the first
step of a handler is not fair. `settle` has no faults, since no code resumes a
handler that was interrupted: with one, an approval may stay `Executing` for
good, which ADR-0142 leaves to an operator. `FairExpiringSpec` is weak fairness
of each sweep, which the interval timer starts again whatever the previous one
threw; nobody has to decide and time need not pass. `expiry` keeps its fault.

In `GovernedRun`, a start that was entered goes on, and so does an execution:
Temporal schedules the next task, and retries an activity, as long as a worker
polls. Nobody has to signal a decision, and `ExecutionCloses` is about executions
that need none or have it. In `EventDelivery`, each dispatcher polls and each
worker fetches for ever: both loops swallow what a cycle throws and schedule the
next. Nothing has to be enqueued. `PolicyChange` has no fairness: nothing resumes a
command, and nothing waits for one.

## 4. What is proved

For every value of the constants that satisfies the assumptions of the modules
(disjointness of `None` and of keys from the data, requests named by their
invocations, bounds that are natural numbers, a finite set of dispatchers), and in
every setting of `Ambiguous` and `AckLoss`:

| Theorem | Property |
| --- | --- |
| `TypeCorrect` | `Spec => []GovernedTypeOK` |
| `Invariant` | `Spec => []IndInv` |
| `DispatchOnce` | `Spec => []DispatchOncePerKey` |
| `OneClaim` | `Spec => []SingleClaim` |
| `MakerChecker` | `Spec => []FourEyes` |
| `Refinement` | `Spec => LifecycleSpec` |
| `OrphansUndecided` | `Spec => []OrphanNeverDecided` |
| `DispatchMatches` | `Spec => []DispatchedAsApproved` |
| `OneProposal` | `Spec => []ConsistentProposal` |
| `ReplayTrue` | `Spec => []CachedDecisionStands` |
| `OneAnnounced` | `Spec => []OneDecisionAnnounced` |
| `RecordTrue` | `Spec => []CompletedTellsTruth` |
| `EffectOnce` | `Spec => []RedispatchOnlyAfterFailure` |
| `HandedBackFailed` | `Spec => HandedBackAsFailed` (of `EffectProofs`) |
| `ReservationHeld` | `Spec => []ExecutingHasReservation` |
| `ExpiringTypes` | `ExpiringSpec => []ExpiringTypeOK` |
| `ExpiredFinal` | `ExpiringSpec => ExpiredIsFinal` |
| `EscalatedOnce` | `ExpiringSpec => []EscalatedOncePerLife` |
| `ExpiringDispatchOnce` | `ExpiringSpec => []DispatchOncePerKey` |
| `ExpiringOneClaimant` | `ExpiringSpec => []OneClaimant` |
| `ExpiringEffectOnce` | `ExpiringSpec => []RedispatchOnlyAfterFailure` |
| `DeliveryTypeCorrect` | `Spec => []DeliveryTypeOK` |
| `ContractImplemented` | `Spec => ContractKept` |
| `DuplicatesAreBounded` | `Spec => []DuplicatesBounded` |
| `CheckpointIsBacked` | `Spec => []CheckpointBacked` |
| `AcknowledgedIsProjected` | `Spec => []AckedIsProjected` |
| `RunTypeCorrect` | `Spec => []RunTypeOK` |
| `MovesAreLegalOrStale` | `Spec => IllegalMoveIsStale` |
| `CancellationStands` | `Spec => []UndoneByEarlierRead` |
| `ControlsAreEvidenced` | `Spec => []ControlEvidenced` |
| `OrderlyLogIsAChain` | `Spec => []OrderlyLogVerifies` |
| `HumanGateHolds` | `Spec => []CarriedOutIfApproved` |
| `FailuresLostAck` | `Spec => []FailsOnlyByLostAck` |
| `OrphansShareKeys` | `Spec => []OrphanSharesKey` |
| `AnswersAreTrue` | `Spec => []AnsweredIsAnnounced` |
| `PolicyTypeCorrect` | `Spec => []PolicyTypeOK` |
| `AuthorizedInForce` | `Spec => []InForceAuthorized` |
| `OvertakenOnly` | `Spec => []UnauditedIsOvertaken` |
| `StaleCopiesOnly` | `Spec => UndoneByStaleCopy` |

`Spec` is that of the composition; `ProposalInvariant`, `CallSole`, `DeliveryTypes`,
`ProjectionSound`, `ControlIsChecked` and `ExecutionSound` are the inductive
invariants under these.

**The approval boundary.**
`GovernedActionProofs` shows that each handler's steps preserve the types and
that `IndInv` is inductive, one lemma per handler.
`FourEyes`, `SingleClaim` and `DispatchOncePerKey` are not inductive: each
relates what a handler read some steps ago to what the store holds now.
`IndInv` adds what carries over:

- `KeyHeld`: who passed `begin` holds the reservation of its key, with its own
  fingerprint, alone; and a key that was dispatched under never becomes free
  again. A release comes from the one holder, and only before it dispatched.
  `DispatchOncePerKey` follows.
- `SettledByOther`: a settled approval has a decider that is not its requester,
  and an unsettled one has none. No step changes a decider once set, for the
  copies that executors write back have it right.
- `SubmitterKnowsRequester`: a submitter's copy may be stale in its status, but
  the requester of an approval never changes, so maker-checker on the copy is
  maker-checker on the record.
- `ExecutorKnowsDecision`: an executor's copy that says `Approved` has the
  requester and the decider of the record, for nothing leaves a settled status
  for `Pending`. This is where the unconditional write of the expiry sweep would
  break the argument, and why the theorem is about `GovernedAction`.
- `SingleClaim` is inductive together with these: a claim needs the status
  `Approved`, and while a claimant is under way the status is `Executing`.

`LifecycleProofs` shows with the same invariant that every step of a handler is
a `Request`, `Decide` or `Progress` step of `ApprovalLifecycle`, or leaves
status and decider as they are. The other properties of the four commands rest on
`IndInv` and on one more inductive invariant each, in the order of an action's life:

- `ProposalInv`: a stored proposal never changes, it names the approval that was
  created for it, and every copy of an approval names the proposal the record does.
  A submitter that passed the link has seen its proposal stored, an executor that
  passed `ExecBind` has compared its payload with the stored one; neither can
  change after it was read, so what was read stale is still right.
- `KeyInv`: at most one stored proposal per key, and while no call failed, who is
  told of a proposal is told of that one. Without the premise a swallowed
  `saveProposal` tells its caller of a proposal that is not stored.
- `DecisionInv`: a decision that is cached, or about to be, stands: the status it
  left can only go on to an execution of it. `WinnerInv`: who is past the
  conditional write, was told so or has announced it, is the only one of its
  approval, for a second one would need it pending again.
- `OutcomeInv` and `RecordedInv`: what an executor goes on with after an answer
  agrees with the call, and each completed reservation has such an executor.
  A `Failed` one says no more than that the reply was a failure.
- `SoleInv`: a call that was not reported as failed (it is out, was answered well, or
  its answer was lost with its caller) is the only one of its approval, which is
  `Executing` or `Executed`. A reported failure ends this, true or not, and only then
  is the approval handed back, which is all that can be said: `release_ambiguous`
  shows a call that is performed after it. The claim (`AtRisk`) takes over from the
  call between the report and the hand-back.
- `ReservedInv`: an approval in execution has a reservation in progress that only
  its claimant, if anybody, still holds (`HeldFor`); or the reply to its claim was
  lost, and then whoever holds the reservation, now or again, is on the way to a
  claim that is refused, or to a release (`LostFor`), and nobody dispatches.

**Expiry.** Of `IndInv` little survives the sweeps, whose write takes decisions
back. `ExpiringTypeInv` is what does: types, filled requests, and that an executor
on its way to a claim has read `Approved`, so that its writes are an execution or
the approval as it was. `ExpiredFinal` then follows from the commands' conditional
writes. `EscalationInv` follows an announcement: the sweep that evaluates a list
remembers its steps at once, so that no other sweep finds them due, and it holds
each until it is published; what a sweep is about to evaluate lists every pending
approval, since nothing is forgotten while it is pending and no hour passes
between list and evaluation. `KeysInv`, the part of `IndInv` about reservations, and
`AloneInv` say that an expiry in the middle of an execution, which the unconditional
write allows, frees neither the key nor the claim: an expired approval cannot be
approved, or claimed, again. `CompletedTellsTruth`, `FourEyes` and `SingleClaim` do
not carry over: the approval of a performed action may read `Expired`, decided by
the scheduler.

**Events.** `LoopsFilled` says that the body of a loop has an entry, or a message,
to go on with; the types rest on it. `BatchesAccepted` adds that a dispatcher holds
accepted events only and that the one it marks was published, from which each of
its steps is a step of `EventContract` or a stutter, whatever another dispatcher
did to the same entry. `ProjectionInv` follows a batch: what a worker has left
behind is projected or lies below the checkpoint, and the checkpoint itself is in
both artifacts. The artifacts only grow, so what one worker knows survives another.
`Charged` accounts for every copy of an event: as long as the entry is not settled,
by a failure or by a dispatcher about to settle it (`Marking`), and in any case
together with those that may still publish it from the batch they fetched (`Owing`)
by the dispatchers there are; a settled entry is fetched by nobody.

**Runs.** `CommandInv` and `StoredInv` say what an operator checked on the copy it
carries and that the copy was stored at some time; a save that leaves the table
must then come from a copy that is not the stored run, and a cancellation is undone
by an earlier reader only. `EvidenceInv` is the same for controls: what is stored,
and every copy that was read, is evidenced, for an intervention appends before it
saves. `ChainInv` holds while appends are orderly: at most one is under way, and it
links to the last entry. `ExecutionInv` relates an execution to the worker's memory
and to `ackLost`, keeps the decision it went by (no signal is taken once it
resumed), and counts its failed attempts against the failures there were;
`KeyExecuted` says that a start past Temporal's answer has an
execution under its key, and `AnswerInv` what was stored and announced before a
caller is told.

**Policy changes.** `Version(ch, c)` says that a record, stored or carried in
somebody's hands, descends from the change `c` was created as: same proposer,
target, base and content, a report only if it was appended for `c`, and a status
past pending only if some command applied `c`. `PolicyInv` says that the store,
every copy that was read and every approval carry versions only, and that a base
policy or a rollback's content was authorized. So a chain of rollbacks leads back to
an authorized proposal. Saving a stale copy keeps all of this: it goes back to an
earlier version, which is what `UndoneByStaleCopy` says. `TrailHolds` adds that
a command that threw was overtaken and one that ended has its audit entry.

### What is only model-checked

Liveness (`ExecutionSettles`, `DecisionEvidenced`, `OverdueSettles`,
`ExecutionCloses`, `PendingIsSettled`, `StreamDrains`) is outside the prover's
reach, since it rests on `ENABLED`. Every safety property that a passing run checks
is proved for every value of the constants.

## 5. Not modelled

The components marked `not_modelled` in `PROJECT.json`, with reasons. Human tasks
are completed and assigned by a read and a save with no check of a status in
between, in one handler each; the machine registry upserts; a map intent is
evaluated against the policies and recorded as evidence and an event, and stores
nothing of its own; rate limits, quotas and caches refuse or
answer a request before a modelled handler is entered; the HTTP layer parses and
authorizes; the cockpit, the SDKs and the scripts are clients. Most of the
repository's lines are in these. In the modelled handlers: validation and authorization, the content of policies,
packets and feedback, wording of events and evidence, the lease of a
reservation (no code reads it), the pages of a listing, caches of results in
an older format. `RequestChanges -> Pending` is in the status table and no
handler performs it.

## 6. Plan

The modules planned at first (outbox, evidence chain, run control, Temporal
executions, workflow starts, policy changes) are written. What is left:

1. Proofs: what remains true of an approval beside the sweeps, that a decision is
   undone only by a sweep that read the approval before it was taken; how far the
   links and cached decisions survive an expiry; which steps of `ExpiringAction`
   are those of `ApprovalLifecycle`.
2. Signals composed with decisions: `AwaitDecision` takes any signal now; the
   handlers that send it are those of `SubmitApproval`.
3. Evidence of all commands in one `EvidenceChain`, with the 10,000 entries that
   `appendEntry` lists as a parameter.
4. Human tasks, with the runs that wait for them.
