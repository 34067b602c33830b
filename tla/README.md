# AssistOps: specifications, model checking and proofs

AssistOps turns support messages into answers and, after a human decision, into
tickets. Its state lives in PostgreSQL; API instances, workers, the Slack
connector and operators are separate processes that meet only in the database,
in Jira and in Slack. What is hard to test is therefore not a function but an
order: a lease that runs out while its worker still computes, a thread that goes
on after its timeout, an answer that comes after its recovery. These modules
model those orders. Paths below are relative to `src/assistops/`.

## 1. Inventory

| Component | State | Operations | Talks to | Hard because |
| --- | --- | --- | --- | --- |
| Event acceptance (`storage.py`) | `inbound_events`, `event_jobs`, `event_audit` | `accept`, `status` | called by API and Slack listener; feeds the queue | concurrent inserts of one id, lost receipts, `received_at` fixed at transaction start |
| Job queue (`jobs.py`, `worker.py`) | `event_jobs` status, attempts, lease | `claim`, `finish`, worker loop | calls a processor; the rows are also written by review and outbox | leases, crashes, uncertain commits, retry bounds, order inside a conversation |
| Proposals and review (`business.py`, `approvals.py`) | `ticket_proposals`, `synthetic_tickets` | `execute`, `review` | run by workers; called by API and review page; fills the outbox | advisory lock, threads abandoned by `asyncio.timeout`, expiry against decision |
| Jira outbox (`ticket_delivery.py`, `jira.py`) | `ticket_deliveries` | `deliver_once`, `reconcile` | run by workers and operators; POSTs to Jira | a marker and an answer in two transactions with a POST between |
| Slack connector (`slack/`) | `slack_replies` | `listener`, `accept`, `claim`, `deliver_once` | Slack; reads jobs and proposals | acknowledgement after commit, late or unknown results, a moving job |
| Supervisor and plans (`supervisor.py`) | `supervisor_plans` | `route`, `search`, `read`, `propose`, `finish` | run by workers; calls an LLM, RAG and tools | competing retries, permissions that change between plan and action |
| Conversation memory (`memory.py`) | none of its own | `load` | reads earlier turns | which turns count, cut at a permission change |
| Rate limiter (`rate_limits.py`) | `connector_rate_limits` | `consume` | API instances, Slack listener | shared bucket, clocks that step back |
| Review accounts (`review/`) | accounts, sessions, attempt counters | `login`, `authenticate`, `logout`, `provision`, `disable` | review page | login against reset, row lock orders |
| Review page (`review/static/app.js`) | what one tab shows, selects, confirms and waits for | select, refresh, decide, log in and out | review API | answers out of order, a session that ends under the page |
| Tracing (`tracing.py`) | a bounded queue, its thread, the end of the session | `submit`, `_send`, `_run`, `close` | called by attempts and their threads; LangSmith | a full queue, spans that come after the end |
| Embeddings (`embeddings.py`) | cache on disk, budget of an instance | `embed` | called by ingestion and search; OpenAI | answers that were billed and lost, several processes on one cache |
| Knowledge index (`retrieval.py`, `corpus.py`, `rag_cli.py`) | Qdrant collections and one alias | `ingest`, `pin_snapshot`, `search` | operators write, workers read | overlapping ingestions, an alias that moves while a reader searches |
| Document answers (`rag_agent.py`, `generation.py`) | an attempt, its thread | `process`, `retrieve`, evidence, validation | run by workers; index, OpenAI, tracing | a timeout that leaves the thread behind |
| API shell, configuration, migrations, n8n node, scripts | none, or a request's | | | |

What makes each correct, in one line: *acceptance* — a receipt is a promise;
*queue* — one writer, the latest attempt, turns in order, every job ends;
*proposals* — one open proposal per scope, one decision, by a second person;
*outbox* — never two issues, never a false verdict; *Slack* — one message, which
ends with the outcome; *supervisor* — the first stored plan is the only one that
acts; *memory* — nothing from beyond a permission change; *limiter* — at most
capacity plus rate times elapsed; *accounts* — no session outlives a reset;
*page* — what is confirmed is what is shown, once; *tracing* — the work never
waits for it, and it claims no more than it flushed; *embeddings* — the budget
bounds the bill; *index* — readers see whole snapshots; *answers* — a citation is
readable to its user and from the snapshot of the answer.

`PROJECT.json` lists every component with its status and every hazard with its
line.

## 2. Modules

| Module | Models | Uses |
| --- | --- | --- |
| `JobQueue` | `event_jobs`, `claim`, `finish`, worker loop | |
| `EventIntake` | `EventStore.accept` in front of the queue | EXTENDS `JobQueue` |
| `TicketDelivery` | `ticket_deliveries`, `deliver_once`, `reconcile`, `JiraClient` | |
| `TicketContract` | abstract: what is promised about the ticket of one request | |
| `JobStage` | abstract: what the Slack connector reads of a job, its proposal and its review, and how that may change | |
| `TurnJobs` | abstract: what the Supervisor relies on of the jobs of one conversation: how turns are taken, attempted and settled | |
| `TicketFlow` | `execute`, `review`, abandoned threads, composed with queue and outbox | EXTENDS `JobQueue`, INSTANCE `TicketDelivery`; implements `TicketContract`, instantiated for every event as `Contract(e)`, `JobStage`, as `Seen`, and `TurnJobs`, for every conversation as `Turns(c)` |
| `RateLimiter` | `ConnectorRateLimiter.consume` over one row | |
| `SlackReplies` | listener, reply rows, senders | EXTENDS `RateLimiter`, which its listeners consume from, and `JobStage`, whose jobs they reply about |
| `SupervisorPlan` | `SupervisorProcessor`, `PlanStore`, `ConversationMemory` over the turns of one conversation | EXTENDS `TurnJobs`, whose attempts its graphs carry out |
| `ReviewAccounts` | `throttle`, `login`, `logout`, `provision`, `disable`, with their row locks | |
| `ReviewPage` | the handlers of `app.js`, cut at their awaits, against the routes of `api.py` | |
| `Embeddings` | `OpenAIEmbeddings`: cache, budget, attempts | |
| `KnowledgeIndex` | `Retriever.ingest` and the alias | EXTENDS `Embeddings` |
| `TraceExporter` | `TraceExporter`: queue, thread, close | |
| `DocumentAnswers` | `RagProcessor` with its thread, composed with index and tracing | EXTENDS `KnowledgeIndex`, `TraceExporter` |
| `JobQueueProofs` (queue and intake), `TicketDeliveryProofs`, `TicketFlowProofs`, `SupervisorPlanProofs`, `SlackRepliesProofs` (bucket and replies), `ReviewAccountsProofs`, `ReviewPageProofs`, `DocumentAnswersProofs` | theorems | EXTEND the modules above and `TLAPS`; `TicketFlowProofs` INSTANCEs the proofs of queue and outbox |
| `MC*` | values for TLC | |

How state and actions correspond to the code:

* **Transactions are actions.** Every transaction runs at READ COMMITTED and
  locks the rows it writes, so each is one action. Where a transaction reads and
  writes at moments that matter (acceptance, `execute`, `review`, the two
  transactions around a POST) it is split at the points another process sees.
  In `ReviewAccounts` every statement is a step: `held` has the row locks of each
  open transaction, and a statement whose rows are held by another waits or fails.
* **Time is deadlines.** `live`, `due`, `ready`, `stalled`, `overdue` say whether
  a timestamp has been passed; separate actions let them pass at any moment. A
  marker may stall while its sender is only slow, a lease run out under a
  healthy worker.
* **Tokens.** A lease token is a fresh `uuid4` per claim. An attempt number is
  claimed once per job, so `token` holds the attempt.
* **Choice of a row.** `FOR UPDATE SKIP LOCKED` can skip the first row of the
  ORDER BY, so any eligible row may be the one taken.
* **Reception.** `received` is the rank of `received_at`. In `EventIntake` a
  session draws it in `Begin` and commits later, as `now()` does.
* **Threads.** `thread[w]` is `execute` as the worker awaits it; on
  `asyncio.timeout` it becomes `zombie[w]`, which keeps its lock and may still
  commit. In `DocumentAnswers` the thread of `retrieve` goes on beside the next attempt
  and even after the session of tracing was closed; what it returns is dropped.
* **The page** runs one handler at a time, and an `await` gives the others their
  turn. `calls` holds every request whose answer a handler awaits, with the chain
  of awaits it is part of; counting `detailVersion` or `listVersion` up marks
  the calls before it as outdated.
* **Snapshots.** A collection is named after the ingestion that made it, and holds
  a set of texts; the alias names one of them. A reader pins what the alias names
  and searches that.
* **A batch is one unit.** `embed` sends texts in batches against a budget of bytes;
  a text of `Embeddings` is a batch of one unit.
* **Stages.** The connector reads four columns of other components and writes none:
  the job's status, its outcome, whether its proposal is undecided past `expires_at`,
  and it may race a review that is open. `JobStage` holds these three facts per event
  and every step that may change them. `SlackReplies` runs beside it (`JobMovesOn`);
  `TicketFlow` computes them from its own state (`StageOf`, `ReviewOf`, `overdue`).
  A thread that its worker gave up, or whose commit was not heard, may leave a
  proposal whose job is running again, answered or failed. It expires like any
  other, and a reply that is completed then tells of the expiry instead of the answer
  (`Expired`); of a failed job it tells the failure.
* **Tokens of the bucket** are counted in parts, as many to a token as the period has
  clock ticks, so that no fraction is needed. Each transaction may read an
  earlier time than the one before.
* **Spans** are told apart by whether they were submitted before or after the event
  of `close` was set; what is in them is not modelled. The exporter's loop condition is
  two steps, the event and then the queue, with the rest of the process in between.
* **Jira, Slack, Qdrant and OpenAI** are external. For Jira and Slack a request in
  `wire` is carried out, refused, answered unclearly or lost; its sender may be
  gone by then. A request to Qdrant or OpenAI is answered, fails, or takes effect
  and fails.
* **The language model** is external: it may answer every attempt with another
  plan, or not at all. A plan is the set of graph nodes it schedules, an answer
  the set of sources it claims, also some that do not exist.
* **Turns.** Of the queue the Supervisor needs who works on which attempt of which
  turn, and what the memory tells apart of a status; `TurnJobs` is the queue cut down
  to that. A claim passes no earlier turn that it can see, but a turn is committed some
  time after its `received_at` was drawn, so an earlier one may appear while a later
  one is worked on, or after it. An attempt that lost its lease goes on and may still
  save its plan; its result is not stored.
* **Permissions** are settings of a process, so a worker has those it was
  started with; `Restart` changes them between two jobs. `MAX_CONTEXT_BYTES` may
  drop any number of the oldest turns.
* **History variables** (`written`, `known`, `acked`, `acted`, `passed`, `admitted`,
  `since`, `promise`, `billed`, `owed`, `sent`) record what no column holds and no
  guard reads. `sent` counts the decisions that the open dialog of the page has sent:
  `calls` is a set, in which a second request for the same proposal could not be seen.

`JobQueue!NeighbourStep` states what the rest of the system may do to a job
(arrive, or move on once parked). `KeepsQueue` checks that `TicketFlow` does
nothing else, `IntakeKeepsQueue` proves it of `EventIntake`, and in the same way
`ListenersUseTheBucket` proves that the connector uses the bucket of `RateLimiter`
as any requests do. `JobStage` is the interface of flow and connector: the replies
are checked and proved over every behaviour of it (`ConnectorLeavesJobs`), and the
flow has no other (`FlowShowsStages`). `TurnJobs` is that of flow and Supervisor: the
plans and the memory are checked and proved over every behaviour of it
(`GraphsKeepTurns`), and with the worker in supervisor mode the flow moves the turns
of every conversation in no other way (`FlowTakesTurns`). The two interfaces join
specifications, not state: what `execute` does inside the graph is `Perform` in
`SupervisorPlan` and `ExecuteStep` in `TicketFlow`.

## 3. Runs

| Run | Bounds | Shows |
| --- | --- | --- |
| `job_queue` | 3 jobs in 2 conversations, 2 workers, 2 attempts, 3 stamps, supervisor order | order of turns, one writer, latest attempt; routing is left once, with the outcome of the latest attempt or when the last one lost its lease |
| `event_intake` | 2 events, 2 payloads, 2 sessions, 1 worker, 3 acceptances | durable receipts, the queue's contract, every acknowledged event is routed |
| `ticket_delivery` | 2 rows, 2 senders, 2 operators, 3 tries | at most one issue, safe retries, true and final verdicts, an answer for every row |
| `ticket_flow` | 2 requests of one scope, 2 workers, 2 attempts, 2 approvers of whom one asks, 1 operator, 1 abandoned thread, both backends | job and ticket agree, second person, one open proposal, `TicketContract` for every event, the queue's contract |
| `slack_replies` | 1 mention, 2 senders, 2 tries, a bucket of 1 token in 2 ticks, clock up to 2 | one message, current when complete, rows left alone once ended, every outcome reported, admissions bounded, refusals temporary |
| `supervisor_plans` | 2 turns, 2 workers, 2 attempts, 2 roles and none, 3 plans, turns committed in either order | one plan per event acts, under its own permissions; context never crosses permissions |
| `review_accounts` | 1 account, 2 requests, 1 earlier session, 1 operator, 2 passwords, limits of 2 with 1 attempt counted | no session outlives a reset, windows admit their limit at most, a rotated session is gone, no deadlock but those that end by a failure |
| `review_page` | 2 proposals, 2 sessions, calls of 2 user actions under way | the dialog is about what is shown, a confirmation sends one decision and none beside another, data of this session only, settled offers disappear, the page never stops |
| `document_answers` | 2 ingestions of {doc, secret} and {secret}, 2 attempts by a user who may read doc, budget 2, evidence 1, queue of 2 | whole snapshots, readable citations, bounded bills, complete flushes, work that never waits |
| `stale_proposal` | violation | a proposal whose job failed never becomes `expired` |
| `scope_race` | violation | a second proposal beside a pending delivery |
| `memory_gap` | violation | a context that reaches past a turn under other roles |

**Named bounds.** `MaxStamp` bounds the values of `received_at` (two per event
and a retry suffice for every order of two acceptances); `MaxAttempts` 2 gives a
first, a retried and an exhausted attempt, 1 in the violations, which need no
retry; `RetryLimit` is 2 in the code for Jira and 4 for Slack: 2, 0 and 1 here,
since the counter only matters at its end; `ZombieLimit` 1: one abandoned thread
at a time in all, beside the retry of its job or another event (`TimeOut` waits
for it to end); one review at a time per user; a third Slack message counts like
a second. The plans have 2 turns (a turn and its
follow-up, with as many stamps) and 3 where one turn lies between two others.
`MaxTurns`, 4 in the code, is 1 and 4: with 2 turns it drops none, and what it may drop
is left to the proofs, which hold for every value. `MaxPassword` 2 is a password and its reset;
counters start at `Attempts` 1 below limits of 2 (10, 30 and 120 in the code), so
that two requests at once exceed them. `MaxLogins` 2 sessions are the one that
ends and the next; `MaxCalls` bounds the calls under way when the user starts
another, so that two late answers meet a third. `MaxClock` 2 is one full period
of the bucket, with steps back. `MaxRequested` 2 is less than the attempts that
the first ingestion may make, so the budget runs out before it is done;
`EvidenceLimit` 1 leaves a passage out; `QueueCapacity` 2 is less than the spans
of an attempt, so the queue is full while one works. The second corpus lacks
the text that the user may read: an answer that mixed the snapshots would cite
what is not in the one it reports. Two workers, senders, attempts or requests are
the smallest number in which one meets what another still holds, two events the
smallest in which one overtakes or blocks another.

Symmetry is used for workers (`job_queue`, `ticket_flow`, `supervisor_plans`), for
the events of `ticket_flow`, which are asked for by one person in one scope, and
for the turns and roles of `supervisor_plans`, which are all alike; in no run with a
liveness property. Deadlock is checked in
`review_accounts`, where a cycle of row locks must leave a failure possible, and
in `review_page`, whose timer goes on for ever; every other instance ends when all
its events are settled and its bounds are used up.

**The three violations.** They are places where a document says more than the
code does; `PROJECT.json` quotes both. `stale_proposal`: the last attempt's `execute` commits its proposal
after the timeout, the job fails, and `review` answers `proposal_not_ready`
before it looks at the expiry. `scope_race`: `review` does not take the advisory
lock and evaluates the expiry once; an approval in time can commit its outbox
row between another event's query and its insertion. `memory_gap`: a different
role fingerprint is said to cut the context, but the query drops a turn whose
job failed, or still waits for Jira, before the cut is looked for. Nothing of
that turn is quoted, and nothing of any turn under other roles
(`ContextStaysInScope`); the context only goes on behind it. A fourth such place
is stated in the positive: docs/development.md:397 promises turns in the order of
reception, the code keeps the order of what a claim could see (`TurnsInOrder`),
because `received_at` is fixed when the accepting transaction begins.

## 4. Fairness

Safety properties assume none. Liveness assumes:

* some worker or sender keeps polling (`serve_with_tracing`, `run` loop for ever
  and swallow storage errors); weakly fair in `JobFairness` and
  `DeliveryFairness`, per reply and strongly in `SenderFairness`, because
  `ORDER BY next_run_at` puts a reply that was looked at behind the others;
* a processor or an HTTP request ends: `asyncio.timeout`, a 10 s client timeout,
  or the death of the process;
* clocks advance: leases, backoffs and markers run out;
* in `PageFairness`, the timer of the page finds it, sooner or later, without an
  open dialog, a decision or another refresh under way, if it is so again and
  again (strong fairness: its ticks do not stop); the calls of a refresh and of
  a decision end by their abort signal if by nothing else, whoever opens the
  dialog closes it, and the server neither fails every refresh nor is for ever
  slower than the reviewer selects. The last is a condition on the environment,
  without which nothing could be promised about what is on screen.

Nothing is assumed of Jira, Slack, clients, reviewers or operators, except in
`ConsultedSpec`, which grants repeated consultation in order to show that it
does not help. `ApprovedIsAnswered` supposes that `ticket_backend` stays `jira`:
`deliver_once` does nothing otherwise.

## 5. Proofs

TLAPS proves the following for every set of events, workers, senders, sessions
and payloads and every bound, from the named assumptions on the constants
(attempts, capacities, passwords and limits are positive where the code's settings
are; `Idle`, `NoPost`, `Nothing` and `None` are no leases, posts, plans, runs,
rows or tokens; requests, operators and ingestions are different processes; the
texts of an ingestion are finitely many, and so are the events of the flow, no more
than there are times of reception). TLC evaluates every assumption, and checked each
inductive invariant on the instance of its run before it was proved.

* `JobQueueProofs`. `QueueInv` joins the type invariant with `RowShape` (the
  columns fit the status: only a processing job has a token, that of its latest
  claim, and its outcome is not stored yet; the turns a claim saw are committed), `LeaseShape` (a worker holds an
  attempt that was really claimed, and no two hold the same),
  `OutcomeOfLatestAttempt`, `RetryHasAttemptLeft` and `TurnsInOrder`. Without
  `LeaseShape` `OneWriter` is not inductive: nothing would keep a returning worker
  from holding the token of the next attempt. `TurnsInOrder` needs `RowShape`,
  and that what left routing never returns.
  `RoutingEndsOnce` follows step by step: what `finish` compares is the token of the
  latest claim, and a pending job has an attempt left, so only a lost lease exhausts it.
  For the intake, in the same module: each intake step is a queue step or leaves
  the queue unchanged (`IntakeKeepsQueue`), so the queue's theorems carry over. `IntakeInv`
  adds the intake's types, that a row and its job appear together
  (`RowsTogether`), and `ReceiptIsDurable`.
* `TicketDeliveryProofs`. `DeliveryInv` adds to the types: a row that is `none`,
  `pending` or `failed` has left no trace, no request on its way and no issue
  (`NoTrace`); tries are left while it is pending (`TriesLeft`); a row has at most
  one sender, which holds its latest try and heard the truth (`PostIsCurrent`);
  requests and issues belong to the latest try, and a request that was handled is
  gone (`JiraIsCurrent`); keys in rows and in operators' hands are issues of the
  proposal (`KeysAreIssues`).
  `NoTrace` is what makes `AtMostOneIssue` inductive: "at most one issue" alone
  says nothing of a request still under way.
* `TicketFlowProofs`. The flow is first shown to run the queue and the outbox as
  their specifications allow: each of its steps is one of theirs or leaves them
  alone (`FlowRunsQueue`, `FlowRunsOutbox`, `KeepsQueue`). The two proof modules are
  instantiated, the queue's with an intake without sessions, so that what they
  prove holds of the flow (`OneRequestOneIssue`, `FlowReportsTruly`, `FlowKeepsLeases`). `FlowInv` is what the
  parts owe each other. `RowsAgree` ties the rows of an event: what a job in
  `awaiting_approval`, a proposal of each status and its outbox row say together;
  it contains `JobTellsTicket` and the second person of `TicketNeedsSecondPerson`.
  `ReviewIsCurrent` says that what a review has read under its row locks is still
  true when it writes: without it a second decision could follow the first.
  `ThreadsHaveLeases` and `ThreadsAreTrue` say that the thread of a lease works on
  its event and reports "awaiting approval" only beside a proposal, and that an
  abandoned thread, which may commit at any later time, has no result to report.
  `OneUndecidedProposal` needs `OneHolder` (one thread, running or abandoned, holds
  the lock of a scope) and `FreeStaysFree` (what the holder found free still is when
  it inserts): a thread that found the scope free and lost the lock before it
  inserts would break it. On `FlowInv` and `DeliveryInv`, `FlowKeepsContract` maps
  every step to a step of `TicketContract` or to a stutter, action by action.
  `FlowShowsStages` does the same for `JobStage`. The mapping reads the state of one
  event from five places (job, proposal, outbox row, time, everybody's review), so the
  lemmas say of each action which of them it leaves alone, and that no step changes
  what is seen of two events (`SeenStep`). It needs of `FlowInv` that a job that is
  parked at Jira has an approved proposal, that only a proposal is overdue, and that
  an event has one review at a time, whose finding is still true: two would be seen as
  one. TLC first checked it (`ShowsStages`) on the instance of `ticket_flow`.
  `FlowTakesTurns`, which supposes the worker in supervisor mode (`Ordered`), maps the
  rows and leases of each conversation to `TurnJobs`. A claim, a finish or an arrival
  is a step of its own conversation and a stutter of the others (`OneLeaseSeen`,
  `OneStatusSeen`, `OtherStatusUnseen`); a retry, a late finish and a crash all are
  `Leaves`; a decision and a result of the outbox are `Settles`, because `FlowInv` lets
  them meet only a job that routing has left. `QueueInv` gives that the token compared
  by `finish` is the latest attempt. TLC first checked it (`TakesTurns`) on the
  instance of `ticket_flow` with `Ordered` TRUE and both events in one conversation.
* `SupervisorPlanProofs`. `SupInv` adds to the types and the three invariants of
  the run: a graph runs on a lease (`RunsHaveLeases`); a plan that is acted upon is
  stored (`ActingHasPlan`); every turn that is quoted, or about to be, is an earlier
  one with a plan (`QuotedHavePlans`); and a turn that is not committed has no rank
  yet (`RankIsFinal`), so that one which appears late changes the order of none that is
  already quoted. `QuotedHavePlans` is what carries
  `ContextStaysInScope` over the time between reading the memory and saving the plan:
  the fingerprint of a turn with a plan can no longer change.
* `SlackRepliesProofs`. For the bucket, `BucketInv` is `BucketTypeOK` with
  `tokens + admitted * Token <= Full + Capacity * (updated - since)`, which is
  `AdmissionsAreBounded` once the tokens that are left are dropped, and with what a
  refused request was told: by then, the refill will have made a token. Products of
  unknowns are beyond the solver: a few lemmas state what it needs of them. Every step of the connector is a step of the bucket or leaves it
  alone. For the replies, `RepliesInv` follows a reply through its request. Nothing is
  under way for a row that waits or is complete, and the row then tells what the
  thread shows (`EventInv`); a sender's post is the latest try of a row that is
  sending or was given up (`PostInv`); a request that Slack has not handled is the
  only one for its row and finds the thread as recorded (`WireInv`); no two senders
  hold one event (`OnePost`). `OneMessagePerEvent` alone is not inductive: it says
  nothing of the post still on its way, nor that an update is one.
* `ReviewAccountsProofs`. `AccountsInv` rests on `LocksExclude`: no two transactions
  hold one row. What a transaction has read of a row it holds therefore stays
  true until it ends: its counts are one more than the counters (`CountInv`), the
  account a login has verified is unchanged when its session is inserted
  (`AdmissionInv`), an operator who is about to commit holds every session of the
  account (`OperatorInv`). `CookieInv` says that a cookie was issued by an answered
  login, so that no later one can bring a dropped session back.
* `ReviewPageProofs`. `PageInv` says of every call under way what it means for the
  page. A read that is not outdated was made as the session on display (`ReadFits`),
  hence `DataIsOfTheSession`; while a selected detail is awaited the actions are
  hidden and no dialog is open, hence no answer replaces what a dialog is about
  (`DialogIsAboutSelection`); a login and the start of a session are awaited on the
  login view only, with the newest cookie (`EntryFits`, `SessionFits`); a decision
  under way keeps `submitting` (`DecisionFits`), and so does a dialog that has sent
  its own (`SentIsLocked`): hence `OneDecisionAtATime`. `OneOfEach` makes this inductive:
  of the calls that would change the same thing there is one, so when it ends the
  flag it held may be dropped. The versions of the page appear in one lemma, that
  outdating a call makes no new rivals (`OutdateFits`).
* `DocumentAnswersProofs`. Each component has an invariant of its own: attempts but
  the last few were made for a text whose vector is there, which bounds them by the
  texts (`EmbeddingInv`); what the alias names belongs to a finished ingestion and
  is never written again (`IndexInv`); the queue holds early spans before late
  ones, as many early ones as are owed (`ExporterInv`); what a thread or an answer
  holds comes from the pinned snapshot (`AnswerInv`). Each step of the whole is a
  step of one of them or leaves it alone.

The type invariants of these modules are theorems; they hold for every instance and
are therefore not among the properties of the runs.

What stays with TLC. All liveness: `AcknowledgedIsRouted`, `ApprovedIsAnswered`,
`OutcomeIsReported` and `OfferIsWithdrawn` hold under fairness, which is out of the
prover's reach. `WorkNeverWaits` says that steps are ENABLED, which is too. The
three runs that expect a violation show one behaviour each and have nothing to
prove. Every other property of the passing runs is a theorem.

## 6. Plan

Done: the path of a request from acceptance over its plan to Jira and the Slack
reply, the accounts and the page of those who review it, the bucket before it,
the documents it is answered from and the tracing beside it; proofs of every
safety and action property that the runs check, and of the refinements of
`TicketContract`, `JobStage` and `TurnJobs`. What could follow: a listing of the reviewer's
proposals that pages while proposals arrive, if the composition of `ReviewPage` with
`TicketFlow` stays within reach.

Not planned: ranking, chunking, prompts, the wording of answers and their
validation beyond sources (numbers and data without an order to get wrong), HTTP
validation and settings (functions of one request), rendering and styles, the
n8n node (a stateless client), scripts.

## 7. What the models leave out

* Everywhere: payloads, texts, correlation ids, audit rows, argument fingerprints
  (rows are immutable, a mismatch is a refusal), the role and fixture lookups of
  `execute` (a nondeterministic refusal), the length of backoffs (a retry becomes
  due some time later) and lock timeouts (a rollback).
* Migrations (`migrate.py`): all that are pending run in one transaction under
  `pg_advisory_xact_lock`, so concurrent runs are serial by that one call.
* The bucket: `Decimal` rounds at 28 digits, the model's numbers are exact; a row
  that another process inserts first is the same full bucket.
* Slack: a review that is open across the expiry of its proposal may commit after
  the reply told of the expiry; `CompleteIsCurrent` excepts it.
* The page: one tab that is not left. Three things are as in the code and no
  property covers them: the answer to a decision is shown without a version
  (`app.js:391`); data of a refresh that was sent before the dialog opened stays
  until the next one; after a lost answer the refresh returns at once when another
  is under way.
* Tracing: redaction and span identifiers; whether an export succeeds (both ways
  the span is handled). Spans that are submitted after the exporter's thread ended
  are lost without a count, and `FlushIsComplete` is about the earlier ones.
* Index: ranking, chunking and the loading of the corpus; a failure of
  `pin_snapshot` is a failure of the thread, whatever its exception. Of two
  overlapping ingestions the one that switches last wins, also with the older
  corpus. The table `rag_daily_budget` is written by no code of this version.
* Row locks of `ReviewAccounts` can wait in a cycle; that such a cycle ends rests on
  `lock_timeout` and PostgreSQL's deadlock detection (`Fail`), and is no property.
