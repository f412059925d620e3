# Verification of the chat filter plugin

The plugin (`astrbot_plugin_chat_filter`) watches group messages inside the
AstrBot process, and when a message matches a forbidden word it records the
violation, mutes the sender, recalls the message, forwards it to push groups and
warns the group. This directory holds TLA+ models of that program, the TLC
configurations that check them on small instances, and TLAPS proofs of the
results that matter most.

```
tlc -workers 2 -config MCPipelineSafety.cfg MCViolationPipeline
tlc -workers 2 -config MCMatcher.cfg MCMatcher
tlapm PipelineSafetyProofs.tla
```

Paths in this document are relative to the repository; `runtime/x.py:10` is line 10.

## 1. The system

### Components

| component | state it keeps | operations | talks to |
|---|---|---|---|
| entry (`main.py`, `runtime/message_filter_service.py`) | none of its own | `on_group_message`, `terminate` | role resolver, matcher, job queue |
| matcher (`domain/matcher.py`), rules (`domain/rule_snapshot.py`, `persistence/repository_rules.py`) | rule snapshot, fixed at start | `detect` | runtime state |
| ingress writer (`runtime/violation_ingress_writer.py`) | memory queue, deduplication set, writer task, dropped counter | `try_enqueue`, `start`, `shutdown`, writer loop | outbox repository |
| job queue (`runtime/violation_job_queue.py`) | worker tasks, registered platforms, `recovered` and `closed` flags | `try_enqueue_ingress`, `register`, `start`, `shutdown`, worker loop | ingress writer, outbox repository, recorder, executor |
| outbox repository (`persistence/repository_outbox.py`) | table `violation_outbox` | enqueue, claim, set violation id, mark done, retry, defer, recover | SQLite |
| violation records (`services/violation_records.py`, `persistence/repository_violations.py`) | tables `violation_events`, `violation_push_deliveries` | record, update status, upsert delivery | SQLite |
| violation actions (`services/violation_actions.py`, `violation_push_notifications.py`, `violation_action_audit.py`) | locals of one execution | `execute`, `forward` | platform actions, repositories |
| mute escalation (`domain/mute_escalation.py`, `persistence/repository_mute.py`) | tables of mute policies and of users' counts | calculate, set policies | SQLite |
| action policies, push bindings (`persistence/repository_action_policy.py`, `repository_push_bindings.py`, their command services) | two tables | set toggle, set mode, add binding, lookups | SQLite |
| runtime state (`commands/command_runtime.py`, `persistence/repository_runtime_state.py`) | group policies in memory and in three tables, a lock | load, import of `state.json`, save, the commands on flags and word lists | SQLite, matcher |
| group member roles (`platform/group_member_role_resolver.py`) | cache of roles with expiry | `resolve_message`, `resolve_snapshot` | platform |
| commands (`commands/command_controller.py`, `platform/command_gateway.py`, `commands/command_auth.py`) | none | parse, authorize, dispatch | role resolver, all command services |
| schema (`persistence/repository_schema.py`) | schema version, tables | `ensure_schema` | SQLite |
| settings (`domain/settings.py`) | constants of an instance | `from_config`, normalization of words and rules | every component |
| platform actions, event adapter, reports, probes, overview, metrics | none, or counters | - | platform, files |

### How they interact

A group message enters `on_group_message`. From the moment the sender's role is
known until the handler returns, nothing suspends: the matcher, the registration
of the platform, the offer to the ingress writer and the (re)start of the
background tasks are one step of the event loop. The writer task takes entries
from its memory queue and writes them to `violation_outbox`; several worker tasks
claim rows, record the violation, execute the actions, warn, and mark the row
done. All database calls run in threads (`asyncio.to_thread`): a cancelled task
leaves its thread running. `terminate()` drains the writer for two seconds and
cancels the tasks. AstrBot may load the plugin again in the same process, or the
process may be restarted; the next instance recovers the rows left in
`processing`.

The constructor of an instance opens the database, which migrates the schema,
reads the rule snapshot and loads the group policies, all without giving way to
another task. After that the policies live in memory: commands change them under a
lock and write all of them to the database in a thread. A message and a command ask
the role resolver for the sender's role; its cache and the query of the platform
are the only place where they wait before the decision.

### What is hard in it

* **Two statements where one is meant.** Python's `sqlite3` opens a transaction
  only before a write, so the claim's SELECT and UPDATE, the retry's SELECT and
  UPDATE, the duplicate check, the count and the INSERT are separate steps for
  everybody else.
* **Late threads.** Cancellation stops the task, not the thread.
* **Faults at any point.** Any database call may raise; errors of a retry or of a
  status update are only logged; the process may stop anywhere.
* **Retries.** A job is executed again after a failure; what has been done must
  not be done again.
* **Memory and database.** The policies in memory are saved as a whole, by instances
  that may have loaded something else, or nothing; a save may fail, or run after its
  instance has been unloaded.
* **A migration of many statements.** Each of them commits by itself, so an instance
  may find the half of a schema.
* **Roles change.** A role is cached, and read before an `await` and used after it;
  two lookups of a member may end in the other order.
* **A search that does not go back.** What the search with gaps overlooks, and that it
  overlooks nothing else, cannot be read off the loops.
* **Time.** The drain and every platform call have a timeout; a platform may have
  acted although the call timed out.

`hazards` in `PROJECT.json` lists each of them at its line, with the properties
that would catch it going wrong.

## 2. Modules

```
PluginLifecycle ── OutboxStore
       │               │
       ├── IngressWriter ──┐
       │                   ├── ViolationPipeline ──(implements)──> OutboxContract
       └── JobWorkers ─────┘          │                                 ▲
                                      ├── MCViolationPipeline           │
                                      └── PipelineSafetyProofs          │
                                             └── PipelineQueueProofs    │
ViolationActions ────────────────────────────────────(implements)───────┘
       ├── MCViolationActions
       └── ViolationActionsProofs
MuteEscalation
       ├── MCMuteEscalation
       └── MuteEscalationProofs ───────────── InductionLemmas
DatabaseSchema ──┐                                   │
                 ├── PolicyStore ──┬── PolicyStoreProofs
GroupPolicies ───┘                 └── MCPolicyStore
GroupMemberRoles ── EventEntry
                       ├── MCEventEntry
                       └── EventEntryProofs
WordSearch ────┐
RuleSnapshot ──┼── Matcher ──┬── MCMatcher
WordLists ─────┘             └── MatcherProofs ── InductionLemmas
```

**PluginLifecycle.** Which plugin instance is current (`cur`), how far its
`shutdown()` has got (`phase`), the faults met (`faults`), and whether a hot
reload found a thread of the old instance still running (`overlap`). Both
`_closed` flags are the predicate `closed`: they are set in one step.

**OutboxStore.** The tables `violation_outbox` (`row`) and `violation_events`
(`audit`, the number of records per message), one operator per SQL statement.
A row is named by its idempotency key. Time is abstracted to `ready`
(`available_at <= now`), `created_at` and `id` to the order of insertion.

**IngressWriter.** `violation_ingress_writer.py`: `TryEnqueue`, `StartWriter`, the
writer loop with its three database steps (look for the key, count, INSERT), its
failures with requeue or drop, and the two ends of the drain. `writer[i]` is the
task of instance i and, after a cancellation, its thread.

**JobWorkers.** `violation_job_queue.py`: each worker recovers if nobody has,
waits, SELECTs a job, UPDATEs it, records the violation, links it to the row,
executes, marks done, and on an error retries or defers; `WorkerFault` is a
database error at any of these calls. `TeamOf` gives each task its instance. The
rate limiter only delays a claim, so it is part of the wait state.

**ViolationPipeline.** Composition: message entry, `terminate()`, restart of the
process, hot reload. A key without a message id contains `time_ns()` and is used
once (`synthetic`).

**OutboxContract.** What the pipeline promises: a job is handed to one worker at
a time, executed at least once before it is done, given up after `MaxAttempts`
failed attempts, and never touched once finished.

**ViolationActions.** What the executions of one job do: the lookup of recorded
statuses and of the group's policy, mute (after raising the sender's violation
count), recall, the delivery to every bound push group with its record before and
after, the text logs, the aggregate status, the warning. Every call is a step;
administrators change policy and bindings at any time. A platform call ends in
`success`, `failed` or `unsupported`, and when it failed the platform may have
acted all the same (`Effects`). The counters `punished`, `forwarded` and
`escalated` are what the platform and the escalation table have seen; no code
reads them. The job's row is abstracted to its status and attempts, and the
executions come one after the other, which `OneOwnerPerRow` shows of the pipeline
(in the absence of an overlap).

**MuteEscalation.** What ViolationActions sees as one step, `Escalate`, in detail:
`calculate_mute_escalation` reads the clock, SELECTs the policy, SELECTs the user's
row and writes the new count, and several threads do so at once (`call`). The three
calls are separate steps, because the `with connection:` block opens a transaction
only at the INSERT. `Fails` is a database error at any of them, after which the mute
has the base duration; `SetPolicy` is `.cf mute-stack` with its limits. No code
disables a policy row, so the answer without a policy does not occur. `hits` is the
history of violations in the order in which they were written, and `raced` the users
of whom two calculations have overlapped; no code reads them.

**DatabaseSchema.** The first connection of an instance: `ensure_schema` reads the
version, validates a file that has one, runs the script of `CREATE TABLE IF NOT
EXISTS` one statement at a time, adds the column of version 5, validates again and
sets the version. `Interrupt` stops the opening between any two statements, with an
error or with the process. Files are empty or of any released version, whole or
damaged, or of a later version. A table is its name; the module keeps the column a migration
adds, and which table lacks another required one.

**GroupPolicies.** `command_runtime.py` and the persistence below it. Loading is a step
per SELECT (`phase`), with the import of `state.json` before it; a load that fails
leaves the instance with no policies. A command (`task`) waits for its instance's
lock (`holder`), changes the policy, and its thread saves all policies (`SaveCommits`)
or fails. A command of an unloaded instance goes on with its own `memory[i]`. Words
are normalized when loaded (length, duplicates, limit). `promise` is the history of
what commands have answered, and `standing` says whether memory is known to be what
the database holds; no code reads them. An instance knows what the database holds
(`"same"`) from its load or its last save until anybody else writes; a save or an import
makes every other instance `"other"`. The promise is lifted when an instance that is
`"other"` saves over it, which is the stated exception of `AnsweredIsStored`. (Until the
proof was tried, an instance two reloads back could count as up to date; with three
instances TLC found what was answered lost. The runs have two instances at
most, which is why they did not show it.)

**PolicyStore.** Their composition over the lives of the plugin: migration, loading,
commands, hot reload and crash, threads of the previous instance.

**GroupMemberRoles.** `_resolve_role` before and after its `await`, for several lookups at
once (`lookup`): the cache hit, the query, the answer that is stored with the time at
which the lookup began, the query that fails or times out. `order` keeps the
order of insertion, by which the oldest entries beyond the limit go.
The platform gives the role of the moment of its own choice between question and
answer, and changes roles at any time; `held` is the last time at which each member
held each role.

**EventEntry.** What a role is for: a group message is exempt or not, a command is run or
denied. Every command is in one of the classes of checks that the controller makes,
among them the order of the checks and the resolution of the target group (own
group or another, given or not). `decision` is the last decision with all that it rests
on. The services behind the checks are the modules above.

**WordSearch.** `_detect_word` and `_has_gapped_word_match`: the literal search of every word,
then the search with gaps, one step per `str.find`. Texts are sequences of letters,
`Fold` is `casefold` of a letter. Words of one letter and a gap of zero skip the second
search; long texts are cut.

**RuleSnapshot.** `RuleSnapshot.from_rules`: the rows of `global_rules` in their order, one
step per row. Words are normalized, regular expressions kept or skipped with a
reason. It also has the bounds of the numbers in the configuration. An expression is a
name of which is known whether it is too long, risky or broken; patterns have a form, so
that surrounding space and empty ones are met.

**Matcher.** `ChatFilterMatcher.detect` over a snapshot and the policy of a group: early
returns and exemption, the effective words, the search, then every match of every
expression, each asked whether it holds a bypassed word (by a search of its own) and
reported or passed over. The engine of regular expressions is external: it finds any
pieces of the text. `Search` is a step of WordSearch, whichever of the two searches is going
on; that `detect` does nothing else to it is the theorem `DetectImplementsSearch`.

**WordLists.** `Only`, the words of a tuple that a comprehension keeps: the matcher's
effective words, and the remaining words of `.cf group remove`. GroupPolicies and
InductionLemmas extend it too.

The table `map` in `PROJECT.json` gives the source lines of every definition.

## 3. Runs

| run | question | result |
|---|---|---|
| `safety` | Do two workers, the writer, late threads, a hot reload and two faults keep the outbox safe? | 7 invariants and 3 action properties hold (2.4 million states) |
| `liveness` | Does every job settle, does every entry leave memory, and does the pipeline implement `OutboxContract`, over a hot reload and two faults? | yes, under `Fairness`, as long as no thread outlives the reload |
| `shutdown_timeout` | After `shutdown()`, is any task still scheduled? | **yes, on Python 3.10** |
| `actions_safety` | Is the audit trail true, and complete when nothing fails? Does a retry repeat what is on record as done? | true and complete; no punishment is repeated, no success overwritten (1.5 million states) |
| `actions_contract` | Do executions implement `OutboxContract`, does each end? | yes |
| `forward_repeated` | Does a retry repeat a recorded delivery? | **yes** |
| `audit_mode` | Can a group in audit mode see a mute? | **yes, after an error of the policy lookup** |
| `mute_escalation` | Are counts and durations right when workers, clock and policy interleave? | yes; counts exactly so for users no two workers raced on (3.7 million states) |
| `lost_violation` | Can a violation within the window fail to count? | **yes, when two workers count one user at once** |
| `policy_store` | Is an interrupted migration resumed, a damaged file left alone, and what commands have answered kept, over failed saves, failed loads, reloads and crashes? | yes, with the exception named by `standing` |
| `event_entry` | Is the role that decides recent, is every command that runs allowed, and every denial justified? | yes (1.8 million states) |
| `matcher` | Is what is reported there, is what is not reported not there, does every message come to a decision? | yes, but for words a search without going back must overlook |

Two things that the properties allow are worth knowing. `LossIsCounted` lets the
dropped counter exceed the loss: an entry in the writer's hand when the drain times out is
counted by `shutdown()` and again by the writer's own handler, and entries already in the
outbox count too. `EscalatedPerAttempt` lets one message count twice in the
escalation: the count is raised before the mute is attempted, so a retry after a failed
mute raises it again.

The passing runs check no type invariants: those of the pipeline, the executions and the
policies are proved (section 4), and the others would only repeat what an ill-typed
value does to the properties above.

### Bounds, and why they are enough

* `safety`: two keys, one with a message id and one without, on different
  platforms and of different priority; an outbox limited to one active row, so that
  back-pressure occurs with the second key; two workers in the first instance and
  one in the second (races need two, a reload needs both teams); two attempts (one
  retry, then failure); two faults (an error plus a reload, or two errors). All
  actions fire. The two workers are symmetric; the run has no liveness property.
* `liveness`: two instances, so that the refinement is checked over the recovery by the
  second, and two faults; no violation records, which the contract does not mention.
* `actions_safety`: two push groups suffice for a partial failure of the forward, one
  fault for a retry after an interruption, a failed mark-done, a lost status or a
  failed lookup; retries of retries, which need more faults, are left to the theorems
  `PunishedOnce` and `RememberedSuccess`. The policies are strict with and without
  forward, and audit, and administrators switch between them. `actions_contract` has
  one push group and two faults, and covers messages without an id and without
  records, so that the remaining branches fire.
* `mute_escalation`: two threads and two users suffice for every overlap and for
  taking one user's row for another's; four violations let a race be followed by a
  gap and a new streak, and reach the maximum duration (2 * 3 * 3 > 10); the clock
  passes both reset windows (1 and 2) and stands exactly at their end. The third
  request is a policy that the command must refuse.
* `policy_store`: two instances (one reload or crash), two commands at once, one failed
  statement and one interrupted migration, so that any two of these meet; one group,
  since policies of groups do not interact, with two words, of which one may be too long
  and one beyond the limit; databases and state files that are absent, unreadable, over
  the limits, or whole.
* `event_entry`: two members, so that one evicts the other from the cache of one entry;
  two lookups, which may end in either order; a time to live of 2 and a clock to 3, so
  that entries expire; a command for each kind of check (the theorems
  cover all commands). The two slots are symmetric.
* `matcher`: every text of at most five letters over an alphabet of two, which has
  every way to spell a word of three letters with gaps of one, and many with gaps of two,
  and a few texts with a capital letter and beyond `MaxSearched`; two tables, one plain and one with a row for every
  reason to skip one; every kind of policy; two expressions with two matches each.
* For the pipeline and the executions `MaxInstance`, `MaxFaults` are the only bounds that are not settings of the
  program. `row[k].id`, `audit` and `executions` grow only with faults.

### Fairness

`ViolationPipeline!Fairness` assumes weak fairness of the writer, of each worker's
fault-free steps, of delays passing, and of messages arriving on every platform:
the event loop runs every ready task, a thread ends, and `register` and `start`
are called by each incoming message. Nothing is assumed of faults, shutdowns or
restarts. The progress of a drain needs no fairness, because the liveness
properties are about an instance that is open. A job whose retry or deferral
could not be written stays in `processing`; `JobSettles` names that outcome
(`Stranded`). `ViolationActions!FairSpec` assumes that each call returns, fails
or times out; the text log, the forward, the mute and the recall have timeouts of
their own, and the warning is bounded by the timeout of `_call_action`.
`Matcher!Spec` assumes weak fairness of `Detect` only: `detect` is one call of the event
loop and runs to its end; nobody has to send a message.

### Disagreements found

1. `shutdown_timeout`. `violation_ingress_writer.py:111` waits with
   `asyncio.wait_for` and catches the built-in `TimeoutError`. On Python 3.10
   (supported by `pyproject.toml:6`) these are different classes, so a drain of more
   than two seconds leaves both `shutdown()` methods before any task is cancelled.
   The design notes promise that no task remains.
2. `forward_repeated`. The success of a forward is remembered only for all push
   groups together, so one failing group, or an interruption, makes a retry start
   successful deliveries over. `CHANGELOG.md:18` says they are not repeated.
3. `audit_mode`. An error of the policy lookup is answered with the default policy,
   strict with everything on; `README.md:54` says audit groups are never muted.
4. `lost_violation`. The count is read before the transaction that writes it begins
   (`repository_mute.py:218`), so two workers may both write the same next count.
   `devlogs/phase-07/mute-escalation.md:39` speaks of one transaction; `README.md:137`
   knows that the number of workers matters here.

## 4. Proofs

All proofs hold for every value of the constants that satisfies the named
assumptions (`LifecycleAssumption`, `StoreAssumption`, `ActionsAssumption`, ...):
finite sets of keys and push groups, positive limits, natural bounds.
`RulesAssumption` says that a table has unique patterns per type, as the schema demands,
and lets any number or flag stand in the configuration; `MatcherAssumption` that patterns,
messages and the words of policies are texts, over any set of letters.

| theorem | states | module |
|---|---|---|
| `TypeCorrect` | `[]TypeOK` of the pipeline | PipelineSafetyProofs |
| `OneOwner` | `[]OneOwnerPerRow` | PipelineSafetyProofs |
| `NoExhaustedActiveRow` | `[]ExhaustedIffFailed` | PipelineSafetyProofs |
| `ActionsHaveEvidence` | `[]ActionEvidence` | PipelineSafetyProofs |
| `StrandingNeedsFault` | `[]StrandedOnlyByFault` | PipelineSafetyProofs |
| `DoneStaysDone` | `TerminalIsFinal` | PipelineSafetyProofs |
| `PendingKeysAreExact` | `[]PendingKeysExact` | PipelineQueueProofs |
| `AcceptedIsSettled` | `AcceptedUntilSettled` | PipelineQueueProofs |
| `NoSilentLoss` | `LossIsCounted` | PipelineQueueProofs |
| `OutboxIsBounded` | `[]ActiveWithinLimit` | PipelineQueueProofs |
| `RepeatsArePaid` | `[]RepeatsNeedFaults` | PipelineQueueProofs |
| `PipelineImplementsContract` | `DrainedSpec => Contract!Spec` | PipelineQueueProofs |
| `ActionsTypeCorrect` | `[]TypeOK` of the executions | ViolationActionsProofs |
| `RecordIsTruthful` | `[]SuccessMeansPerformed` | ViolationActionsProofs |
| `PunishedOnce` | `SuccessIsRemembered` | ViolationActionsProofs |
| `RememberedSuccess` | `SuccessIsFinal` | ViolationActionsProofs |
| `MutesAreCounted` | `[]EscalatedPerAttempt` | ViolationActionsProofs |
| `DoneLeavesNothingOpen` | `[]DoneIsDecided` | ViolationActionsProofs |
| `ActionsImplementContract` | `Spec => Contract!Spec` | ViolationActionsProofs |
| `NeverOvercounted` | `[]CountWithinHits` of the escalation | MuteEscalationProofs |
| `CountIsTheStreak` | `[]CountIsStreak` | MuteEscalationProofs |
| `DurationsArePowers` | `[]DurationIsPower` | MuteEscalationProofs |
| `ListsKeepLimits` | `[]WordsWithinLimit` of the policies | PolicyStoreProofs |
| `SavesRunAlone` | `SaveIsAlone` | PolicyStoreProofs |
| `QuietIsSaved` | `[]QuiescentMeansSaved` | PolicyStoreProofs |
| `AnswersAreStored` | `[]AnsweredIsStored` | PolicyStoreProofs |
| `MigrationsResume` | `MigrationResumes` of the schema | PolicyStoreProofs |
| `MisfitsAreKept` | `MisfitIsLeftAlone` | PolicyStoreProofs |
| `RolesAreRecent` | `[]RoleIsRecent` | EventEntryProofs |
| `ExemptionIsRecent` | `[]ExemptIsManager` | EventEntryProofs |
| `CommandsNeedRights` | `[]RunNeedsRight` | EventEntryProofs |
| `DenialsAreJustified` | `[]DenialIsJustified` | EventEntryProofs |
| `FoundWordsAreContained` | `[]FoundIsContained` | MatcherProofs |
| `MissedWordsAreAbsent` | `[]MissedIsAbsent` | MatcherProofs |
| `SearchIsSound` | `[]SearchIsRight` of WordSearch alone | MatcherProofs |
| `SelectionIsSnapshot` | `[]SnapshotIsSelection` of the rules | MatcherProofs |
| `SkipsAreReported` | `[]SkipsAreExact` | MatcherProofs |
| `DetectImplementsSearch` | `Spec => SearchSpec` of the matcher | MatcherProofs |
| `DetectSearchesSoundly` | `[]SearchIsRight` of the matcher | MatcherProofs |
| `ReportedWordsAreThere` | `[]ReportedWordIsRight` | MatcherProofs |
| `UnreportedWordsAreAbsent` | `[]UnreportedWordIsAbsent` | MatcherProofs |
| `ReportedRegexesAreFirst` | `[]ReportedRegexIsRight` | MatcherProofs |

**The pipeline's invariant.** `ExclusiveOwner` is not inductive: a claim takes a
row that is `pending`, and nothing in it says that nobody still holds the row.
`IInv` adds that a holder's row is `processing` (so a pending row has no holder),
that only one worker recovers and does so before any worker of the instance claims
(so the recovery releases nobody's row), and that without an overlap only tasks of
the current instance exist. `AttemptsExact` says that the attempts a retry has
read are still the row's. `Evidence` carries the violation ids: those in rows and in
snapshots exist, and a worker past the execution has executed. `FaultFreeOwned`
says that before the first fault a processing row has a worker.

**The queue's invariant.** `PendingKeysExact` alone does not survive a reload:
`QueueInv` adds that the writer of a later instance is off, that one that has stopped
remembers nothing, and that a drain has a writer to wait for. `OutboxBound` carries the
bound through the gap between the count and the INSERT: the only writer that can be
there holds a count that the table has not outgrown since, because workers only lower
it. It is a statement about cardinalities; the lemmas say how the set of active rows
moves with each step. `RepeatsPaid` counts executions and records against faults,
and `NoMore` says which of the two a worker at each place may still add. `AbsentUntried`,
a row that is absent has never been executed, completes the refinement: `DrainedSpec` is
the pipeline in which no thread outlives a reload, and there every step is one of the
contract's or a stutter.

**The executions' invariant.** `SuccessMeansPerformed` speaks of the record only;
`Truthful` extends it to what the execution has read (`known`), to its results and
to the forwards sent so far, since each of these is written to the record later.
The action properties need `Fresh`: what was read of the actions still ahead is what
the record says, because nobody else writes it, and a known success is never acted
upon. `Places` ties the program counter to the action, the target and the job, and
gives the refinement. `Counted` ties `escalated` to the mutes that were sent and to
the execution's place; `Clean` says of a job without errors what each place has already
decided, action by action and delivery by delivery, so that at the end nothing is open.

**The escalation's invariant.** `CountWithinHits` says nothing of what a thread has
read and not yet written; `SeenWithinHits` adds that such a count is covered by the
history too. It stays so because the history only grows, and the step that writes
one more than was seen also adds a violation. For `CountIsTheStreak`, `StreakInv` adds
that the row of a user nobody raced on is his last violation with its time, and that the
one calculation under way has read this row and no clock behind it; the streak is defined by
its last break, which exists because a set of naturals that is not empty has a least and a
bounded one a greatest member (`LeastNatural`, `MaxExists`). The duration is a recursive function
whose rounds multiply until the longest mute is passed; the induction over the rounds shows
that what is cut is `base * multiplier ^ (count - 1)`. No prover knows `^`, so
`DurationsArePowers` has its definition as a hypothesis (`PowerLaws`: `m ^ 0 = 1` and
`m ^ (n + 1) = m * m ^ n` on the naturals), which holds of the standard operator.

**The policies' invariant.** It has four parts, each inductive given those before.
`Base`: the types; a command at work holds the lock of its instance, so two are never
between change and answer; no instance that is yet to load has anything in memory.
`AllFitting`: the words in memory keep the limits (the loop of `normalize_words` by
induction over the words; a command adds one that fits, where there is room). `Loading`: an instance
whose standing is `"same"` has read, at each stage of its load, exactly that part of the
database, and once it is up, memory is the database or one of its threads is saving.
`Truth`: what was answered is in the database (`Kept`) and in the memory of every
instance that is not `"other"` (`Known`); a command after its change has what it will say
in memory (`Applied`); and an answer that promises is given by the only instance that knows
the database (`SavedAlone`). The promise that an answer makes is true of the database
because the lock keeps any other save of the instance away, so that what was saved is
what is in memory.

**The schema's invariant.** `Stages` says what `ensure_schema` knows at each of its stages:
past the first validation the file fits the version it names, past the script all tables
are there, past the migration the column too. Adding never makes a file unfit
(`FitsStays`), so whatever was validated stays so.

**The roles' invariant.** A decision rests on what a lookup or the cache holds, so
`RolesInv` speaks of both: a cached entry expires at most the time to live after the member
last held its role (`EntriesHeld`), and an answer was true after its lookup began
(`AnswersHeld`). It is preserved whatever the order in which lookups end, because an
answer is stored with the time at which its own lookup began; the order of the cache is
not part of the argument. `DecisionSound` ties the decision to the checks, and the four
theorems follow from it.

**The search's invariant.** For what is found: the letters found so far are the
beginning of a spelling that ends at the current place (`HasBegun`), so after the last
letter there is a spelling. For what is missed: `LiteralsAbsent` says that the words searched
so far are not in the text as they are, nor, in the second search, spelled by places that
pass over no earlier place of an inner letter (`Clean`); `IsAhead` says of the word in
hand that such places start after the current start, or go through the current place, because
each `find` meets exactly the next of them. The last letter may be any within
reach, which is why a word of two letters is never overlooked.

**The rules' invariant.** `SnapshotIsSelection` compares the snapshot with the whole
table once it is loaded; `RulesInv` says the same at every row of the rows looked at so far
(`WordsSelected`, `RegexesSelected`). The rows are taken in the order of the table
(`TakenInOrder`), so a new row ranks behind all others, and the ranks already given stay.
Two facts make it inductive that the property does not state: nothing is chosen that is
not the core of a row, and as long as there is room no core is left out (`Selection`).
From these follows what a skip for `duplicate` or `max_count` means (`SkipsJustified`);
a skipped row is no longer in `todo`, so it is reported once (`SkippedOnce`).

**The matcher's invariant.** The search keeps cased copies and places in them, `detect`
the words as they were written. `Linked` ties the search under way to what `detect`
asked for, and `LiteralsOf` remembers of the first search that it looked at the whole text,
although the second keeps its truncated beginning only: without it a word found with
gaps could not be known to be the only kind there is. `EffectivePlaces` maps the words in
force to their places among all words and keeps their order, so that the first word found is
the first in force. `WordsAbsent` and `MatchesPassed` carry what has been missed and passed
over to the end. `DetectImplementsSearch` takes every action of the matcher to a step of the
search or to a stutter, so that `SearchIsSound` holds of the searches of `detect` as well.

**Induction.** The library's induction theorems take an operator as a parameter,
which the provers cannot instantiate. `InductionLemmas` derives what is needed from the
well-foundedness of finite sets: `NaturalsByStep` and `IntervalByStep` with a *set* of
numbers in place of a predicate, and `RecursionExists` for functions defined by their
last value, with the step as a function. So loops over words (`NormalizeWords`, `Only`),
violations and multiplications can be reasoned about for every input. `OnlySteps`,
`OnlyLoop` and `OnlyOrder` say what `Only` keeps: just the wanted words, all of them, and
in their order.

Every invariant and every action property that a passing run checks is proved, and
so are the refinements. Only model-checked: liveness, which is out of the prover's reach
(`JobSettles`, `EntryLeavesMemory`, `ExecutionEnds`, `Decides`).

## 5. Limits

* A hot reload after phase `raised` is not modelled; the finding is about the tasks
  that are left then.
* Two instances live at once only as threads left by the older one.
* `ViolationActions` excludes threads that outlive an interruption, looks at one
  message at a time, and leaves out a retry whose own update fails (the row is then
  stranded, which JobWorkers has).
* `MuteEscalation` looks at one group with one base duration and a clock that does not
  go back; a row whose time cannot be parsed is not modelled.
* A platform may answer `unsupported` for one call and not for another of the same
  execution; the OneBot client answers so for all or none.
* `GroupPolicies` leaves out `inherit_global` and `global_enabled`, which only `state.json`
  sets, and takes the two flags and the two word lists together, as their code does.
* `DatabaseSchema` leaves out indexes and the upgrade of two processes on one file.
* `WordSearch` folds letter by letter; a letter whose `casefold` is longer than itself
  is left out. The search with gaps does not go back, so it overlooks a word whose every
  spelling passes over an earlier place of one of its inner letters; `Overlooked`
  states this exception.
* The engine of regular expressions is external, its heuristics for risky expressions too.
* Contents, formatting, priorities other than the two in use, metrics and logs are
  left out, except the dropped counter.

Not modelled, and why:

* *Platform actions* (`platform_actions.py`): the outcomes of its calls are in
  ViolationActions, and the mapping of requests to OneBot parameters keeps no state.
* *Event adapter*: reads fields of an event.
* *Reports, probes, overview*: format what the database holds, or send one message or file.
* *Metrics*: counters that only the event loop touches.
* *`import_legacy_global_rules_once`*: nothing in the program calls it.
* *Listing commands*: they only read. Their checks are in EventEntry.

## 6. Plan

Done: the pipeline from entry to done job with its contract, the executions, the mute
escalation, the schema and the policies over the lives of the plugin, roles and
authorization, rules and matching, and the proofs above. The project keeps to a dozen
runs: a new module brings one passing run with all its properties, and takes the place of a
run whose question a theorem or a larger run has come to answer. What could follow:

1. What an order of the workers per user would guarantee of the escalation.
2. The import of rules from an old configuration, once something in the program calls it.
