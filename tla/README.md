# A verification project for the FMN-AI Operations Agent

TLA+ modules of the backend of the FMN-AI Operations Agent (`backend/app`), the
TLC configurations that check them on small instances, and theorems about them
that TLAPS checks. Line numbers refer to the files of the repository.

## The system

The backend is a FastAPI application that serves a dashboard, and a set of
agents that observe the database, decide on actions and carry them out. It runs
as two worker processes over one database and one Redis. (README.md:60 and
docker-compose.yml:42 speak of PostgreSQL too, but only SQLite starts: for any
other URL database.py:42 and 48 pass `pool_pre_ping` twice, a TypeError. Where
the modules depend on the database, they mean SQLite.) Endpoints and agents run in
threads of a pool; middleware runs on the event loop of its worker. There are no
locks. What keeps concurrent steps apart is the database: its transactions and its UNIQUE columns.

| Component | State | Operations | Talks to |
|---|---|---|---|
| Audit ledger, `blockchain/` | table `blockchain_records`, `degraded` | `append`, `verify`, `verify_chain`, `record_event` | the session of its caller, Fabric or Ethereum |
| Agent life cycle, `agents/base_agent.py` | `status`, `autonomy`, totals; rows of `action_logs`, `agent_runs` | `run_once`, `tick`, `set_autonomy`, `disable`, `enable` | one session per run, ledger, bus |
| Supply chain agent | rows it logs; the cover at the bank | observe, think, perform | bank (HTTP with `utils/retry.py`), ledger |
| Logistics agent and service | `_traffic_factor`; orders, shipments | the same, `plan_route`, `create_shipment`, `set_traffic` | ledger |
| Energy agent and service | run-time hours in memory; switch events | the same, `marginal_costs`, `latest_readings_by_source` | meter readings, ledger |
| Silo, waste, security, vision agents | alerts, reports, vision events | the same | ledger, cameras |
| Orchestrator, report service | reports, a conflict flag in the action log | `run_once` of all agents in turn, report | the other agents, ledger |
| MARL core, scenario generator | policies, scenarios | train, infer; generate, stress-test | digital twin, LLM |
| Rate limiter, `middleware/rate_limit.py` | `_hits` per client and path, per worker | `dispatch`, `set_override` | - |
| Response cache, `utils/cache.py` | Redis, `_mem_cache`, `_degraded` | `get`, `set`, `delete`, `flush` | Redis, cached endpoints |
| Metrics middleware | counters and durations | `dispatch`, `get_metrics` | - |
| Event bus | handlers, the last 200 events | `subscribe`, `publish` | agents |
| Database layer | schema, session factory, seeded administrator | `get_db`, `init_db` | - |
| Digital twin, vision, speech, LLM and MongoDB clients, frontend | none that is shared | - | libraries |

Who runs the agents is not in the repository: the README gives intervals, and
nothing schedules them. The modules let any thread call `run_once` at any time,
which is what `tick()` and the orchestrator allow.

### What is hard

* **Interleaving.** Writers of the chain race between reading the last block and
  inserting the next. Runs of one agent overlap with each other, with
  `set_autonomy`, `disable` and `enable`. Two threads meet at one expired entry
  of the cache. Two runs plan the same order.
* **Partial failure.** A run has one session. Rows wait in it for the next
  commit, whoever calls it, and the ledger commits it in the middle of an
  action. A rollback takes everything that waits, the logs of earlier actions
  included. A commit can be stored and raise all the same; so can a call of
  Redis or of the bank.
* **Swallowed exceptions.** `record_event` turns a failed append into `None` and
  leaves the session broken behind it.
* **Staleness.** A plan is carried out against rows read long before; the level
  of autonomy is read twice; a header is computed after an await. Tables that were
  missing when a process looked are there when it creates them.
* **Files.** The artifact of a policy is cut to nothing, written, and only then
  pointed to by a row, by as many trainings as there are.
* **Answers nobody checks.** Scenarios are taken from a language model as they
  come, and committed one by one.
* **Restarts.** Workers are replaced: what is in memory is gone, open sessions
  are dropped, the database stays.
* **Times.** Some have a zone and some have lost theirs: hashes and
  subtractions depend on it.

### What makes each part correct

* Ledger: one linked, gapless, ordered chain; a receipt stays good; a block is
  stored at most once per request. Verification should accept it (it does not).
* Life cycle: the action log, the tables and the ledger agree about each action;
  a disabled agent does nothing; a run comes back.
* Supply chain: cover at the bank is on record; it is not doubled without need.
* Logistics: loads fit; a run uses each truck and order once and leaves nothing
  out; an order is shipped once unless runs overlap.
* Rate limiter: no window overfilled, of any client over all workers and paths (what
  holds is a bound for each worker and each path); its two headers keep what they
  promise.
* Cache: no answer older than its time to live allows, whichever store it is from.
* Energy: the hours in memory are those since the last switch off diesel; a switch
  leads to the cheapest source (it does not if that is diesel).
* Silo, waste, security, vision: nothing that was there to be found is left out of
  what a run reports, and a run reports it once; every open alert is escalated and
  every batch evaluated (neither is).
* Orchestrator: report, ledger event and record of a run agree; its status is
  true.
* Policy: one active policy once there is one; inference uses the newest; its file
  is its own.
* Scenarios: a call that returns has stored what it was asked for, one that raises
  has stored what came before the entry that made it raise.
* Metrics: percentiles are those of the newest responses; a scrape that returns
  tells of every route.
* Start: when processes start together, there are the tables and an administrator
  afterwards, unless one was failed or died, or two went through the tables in
  different orders.

## Modules

| Module | Models | Composition |
|---|---|---|
| `AuditLog` | what an audit ledger promises its callers | abstract specification |
| `HashChain` | the ledger in `blockchain/` | implements `AuditLog` |
| `HashChainProofs` | its theorems | extends `HashChain` |
| `AgentLifecycle` | `run_once` and its callers | uses a ledger as `AuditLog` allows |
| `AgentLifecycleProofs` | its theorems | extends `AgentLifecycle` |
| `Procurement` | supply chain agent, retry | a run of `AgentLifecycle`, its session abstracted |
| `ProcurementProofs` | its theorems | extends `Procurement` |
| `Dispatch` | logistics agent and service | the same |
| `DispatchProofs` | its theorems | extends `Dispatch` |
| `Energy` | energy agent and service | the same; a component of `Orchestrator` |
| `Orchestrator` | orchestrator and executive report | extends `Energy`, whose runs it calls |
| `OrchestratorProofs` | theorems of `Orchestrator` and `Energy` | extends `Orchestrator` |
| `Monitors` | silo, waste, security and vision agents, heuristic detector | one agent at a time: they share no state |
| `MonitorsProofs` | its theorems | extends `Monitors` |
| `RateLimit` | rate limiter | - |
| `ResponseCache` | cached endpoints over the cache, and how a process gets one | - |
| `ResponseCacheProofs` | its theorems | extends `ResponseCache` |
| `Metrics` | metrics middleware and `/metrics` | - |
| `DigitalTwin` | the simulator, as far as training reads it | operators only |
| `Policy` | training, its artifact and row, inference | extends `DigitalTwin`, whose scores it compares |
| `Scenarios` | scenario generator, LLM client and retry | - |
| `Startup` | `init_db()` in workers and script | - |
| `PlatformProofs` | theorems of `RateLimit`, `Metrics`, `Policy`, `Scenarios`, `Startup` | extends these five |
| `MCHashChain`, `MCAgentLifecycle`, `MCOrchestrator` | instances for TLC | `MCAgentLifecycle` of two kinds, told apart by `part` |
| `MCPlatform` | instance for TLC of the six parts of the platform | puts `MCRateLimit`, `MCResponseCache`, `Metrics`, `Policy`, `Scenarios`, `Startup` side by side |
| `MCOperations` | instance for TLC of the agents that act on what they find | puts `MCDispatch`, `MCProcurement`, `MCMonitors` side by side |

Each model also holds *faulty variants* of its definitions: what the code would
be with a plausible mistake in it. No specification uses them. Each property is
violated when the definition is replaced by its variant, which is how we know
that the property says something about the code.

### HashChain

`blocks` is the table, as a function from block number to row. A thread in
`append` is a record in `writer` that gains fields as the code assigns its
locals: `ReadLast` (fabric_client.py:24-26), `Stamp` (27-28), then one of
`Commit`, `CommitAckLost`, `CommitConflict`, `DatabaseError` (29-31 and the
handler of events.py). `PrimaryFails` is the fall back from Fabric or Ethereum,
whose `append` can only raise in this repository. SHA-256 is a constructor: no
collisions. A time is a number and a zone, because the zone is part of the hash.
`AuditLog` is mapped by reading the events off the table in order; an open
request is an event held by a writer.

### AgentLifecycle

A thread in `run_once` holds its locals and its session: whether rows of
`perform_action` are pending, which ActionLog rows are, and whether the session
is broken, that is, refuses everything but `rollback()`. Actions are numbered by
run and index; `effects` holds those whose rows are committed. `observe` and
`think` return any number of actions. A `perform_action` has the shape they all
have in the repository: it adds rows, records its event last, and returns.
`AppendCommits`, `AppendRefused`, `AppendUnheard` and `RecordNothing` are what
`record_event` can do to the session. `Publish` is the end of the run.
The history variable `unheard` holds the actions whose commit was stored and
raised; it appears in properties only.

### Procurement, Dispatch

One decision procedure each, translated branch by branch, and what happens
between reading and acting. Amounts, names and routes are left out: no branch
depends on them. In `Procurement` the bank is external: it may act on a call,
refuse it, or act and not be heard. `LogOf` is a row of the action log: an action
that was carried out has a mode, one that failed has not, for its result was replaced
by the error (base_agent.py:110-113). `TimeZoneOf` says which times have a zone. In
`Dispatch` orders and trucks are written by other systems (`EnterOrder`,
`ChangeFleet`), since no code of the repository creates an order or touches
`Truck.available`. Queries without ORDER BY return rows in any order.

### Energy, Orchestrator

`Energy` keeps the two memories of the agent apart: `runtime_hours` in the
process, switches in the database. `Observe` notes how many readings there were,
`Think` (energy_agent.py:54-102) proposes and counts, `Perform` (104-149) resets,
`Store` or `Fail` is the commit. Costs are compared exactly, in units that make
them whole. `+=` on an entry of a dictionary is one step: CPython changes threads
between two bytecodes only where they call or jump. The history variable `since`
counts the runs that the hours should stand for, until a failure, an overlap or a
restart spoils it; `withheld` notes the switches that a low level held back.

`Orchestrator` adds the orchestrator's `run_once`, which is not the one of the
base class, to the steps of the energy agent. A thread in it holds in `pass` its
place in the loop over the agents, whether a flag and a report are pending in its
session, and whether the session is broken. `RunEnergy` starts a run of the energy
agent in the same thread and `EnergyReturns` ends it; other agents share no state
with the orchestrator, so `RunOther` is a step of its own. `status`, `reports`,
`flags`, `ledger` and `rows` (the orchestrator's AgentRun rows) are what others see.

### Monitors

Four agents have one shape: look at what is newest, decide item by item, report.
They do not read what another one writes, so a behaviour is about one of them,
chosen by `Init` and held in `agent`. `items` is what there is to find, in the order
of its timestamps: a silo reading, a batch, an alert, a detection on a frame. A run
notes what was `due` when it was called and how far it had looked (`upto`), both for
the properties. `ObserveSilo` is one query of the loop over the silos
(silo_agent.py:28-34), `Capture` and `CaptureFails` one round of the loop over the
cameras (vision_agent.py:35-49). `detect` is the heuristic detector on shapes with an
area, an aspect and a height in the frame. An action of a run is stored, or excused:
withheld by the level or rolled back; how a session comes to that is
`AgentLifecycle`'s matter. `stored` is a bag, so that a second row of one action
can be seen. No code of the repository writes readings or batches, enters or
resolves the alerts of access control, or registers a camera.

### RateLimit, ResponseCache

`RateLimit` has one step for everything `dispatch` does before its await, for it
runs on the event loop, and one for what it does after. Time is counted in ticks,
two to a second, so that rounding `Retry-After` matters. A limit of 0 finds no
oldest hit: `RefuseFails` is the IndexError of rate_limit.py:58.

`ResponseCache` follows one key. `Request` and `MakeCache` are `get_cache`: two
threads that find none make one each, the later assignment counts, and both use
their own, over one dictionary. Each call of Redis is a step that may raise with or
without effect. `DeleteRaises` is the KeyError of the second of two threads that
delete one expired entry (cache.py:50). `MaxCompute` bounds how long a response may
take from reading the database to being stored; without such a bound no answer has
an age limit.

### Metrics

`counting` is where the event loop is in `dispatch`: `CountTotal`,
`AppendDuration`, `CutDurations`, `CountError` come in the order of the code. They
are steps of their own because `get_metrics` runs in a thread of the pool: its
locals are `scrape[s]`, and a loop over a dictionary is a set of keys still to come
and the size it began with, which Python compares at each round. A duration is the
number of its response. `ReplaceWorker` forgets everything: `/metrics` speaks of
the worker that answers, and of it since its start.

### DigitalTwin, Policy

`DigitalTwin` is the arithmetic of `simulate()` that training reads, the service
level and the risk, in integers: tons in units of 45, losses in percent, service in
per mille as the code rounds it. What the generator draws is a parameter. `Policy`
is `train()` in steps: the file is opened, which empties it (`Train`), filled
(`Dump`), and then, with a database, the old rows are deactivated under SQLite's
write lock (`Deactivate`) and the new one committed (`Commit`). Each can fail, and
the process can die at each. `Infer` takes the active row with the latest
`created_at`; `Stamps` lets the clock be set back. `torn`, `stored` and `inferred`
are history.

### Scenarios

`generate()` for one caller: `AskAgain` and `AskFails` are `@retry` around
`chat()` and the swallowed failure of all attempts, `Answered` the slice of what
came, `Fill` the templates, `Store` one row and one commit. An answer is a list of
entries that are fit, shapeless or refused by the database, a text under
"scenarios", or anything else: these are what the code tells apart, without having
looked.

### Startup

`init_db()` in each process: `StartProcess` looks up the missing tables and sorts
them, `CreateTable` creates the first of them (`NextTable`), `TableExists` is the
OperationalError of the process that lost, `CreateIndex` makes usernames unique,
`LookForAdmin` and `Seed` are the last lines. `create_all` sorts only what is missing:
in the order of declaration, but a table that refers to another missing one comes
behind the rest (`Late`). A process that looks when `orders` is there puts `shipments`
where it is declared; one that looked before puts it last. So two processes may go
through the same tables in different orders, and each then fail at a table that the
other one created. The history variable `spoilt` notes this, and deaths and failures of
the database; a process that starts while no other is under way makes up for all of
them. `lifespan` of main.py logs what init_db raises and serves all the same, so each
ends in "serving".

## Runs

| Run | Instance | Shows |
|---|---|---|
| `hash_chain` | 3 writers in 2 processes, one with a remote ledger, 2 blocks, 2 times | the chain invariants and the refinement of `AuditLog` |
| `agents` | "overlap": 2 runs, 1 action each, with operators, two levels of autonomy, and crashes; "session": 1 run, up to 3 actions, all levels | what the status means; what the records say of each action; the ledger is used as an `AuditLog`; a run returns |
| `platform` | Rate limit: 1 worker, 1 client, 3 paths with limits 2, 1 and 0, window of 3 ticks, 5 times. Metrics: 2 routes, 1 scraper, 5 responses. Training: 3 trainers, one without a database, 3 rows. Scenarios: 3 attempts, 3 entries. Start: 3 processes, 4 tables, one of which refers to another. Cache: 3 threads in 2 processes that make their caches, time to live 1, 3 times | windows and headers; percentiles and scrapes; policies and their file; what a model's answer costs; the administrator; staleness and the two stores |
| `operations` | Logistics: 2 runs, 2 orders, 2 trucks, 3 shipments. Supply chain: 1 run, 3 attempts, a round on record or not. Silo, waste, security, vision: 2 threads, 2 runs, 2 items, 2 silos or cameras | plans are matchings, double shipments need an overlap; what the records say of the bank; what is found is reported, once |
| `orchestrator` | 2 threads, 1 mill, 2 readings, 3 runs of the energy agent, 1 of the orchestrator | hours against switches; report, event and record of a run; the status |
| `hash_chain_verify` | 1 block | **violated**: a chain is reported invalid as soon as it has a block |
| `cache_query` | two values of the parameter | **violated**: an answer to another query |
| `rate_limit_shared` | 2 workers, 1 client, 1 path | **violated**: a client gets its limit from each worker |
| `procurement_triggers` | a round on record | **violated**: after one bidding round every run raises |
| `energy_diesel` | as `orchestrator`; diesel is the cheapest source | **violated**: a switch to a dearer source |
| `security_escalation` | 2 alerts, one of an agent and one of a gate | **violated**: an open alert is not escalated |
| `waste_batches` | 2 batches before a run | **violated**: the older batch is not evaluated |

`MCPlatform` and `MCOperations` put specifications that share no variable side by side.
Their variable `part` says which of them a behaviour follows; the others stay in their
initial states. Interleaving them would show nothing more, since no step of one
reads what another writes. In `MCAgentLifecycle` `part` chooses between two sets of
bounds on one specification.

The type invariants of `HashChain` and `AgentLifecycle` are checked, and proved. The
other modules define one that no run lists, for it says less than the invariants
beside it; where a module has theorems, its invariant includes the types it needs.

### Bounds

Writers of the chain interact only through its last block: two that race and a
third that has finished or starts late show every order, and two processes show
what a restart does to one and not to the other. Two blocks give each writer a
predecessor that is not the genesis hash, and a stale view of it. A logged
action of a run can be lost through a later one, so three actions have one
before, one between and one after; runs disturb each other only through the
agent's status and the ledger, so that two with one action each suffice. Of the three
levels of autonomy the overlapping runs know "observe" and "execute": "simulate"
differs from "observe" in the state of the log only, which the single run shows.

A hedge is posted three times at most, as in the code; runs of the supply chain
agent meet only in the ActionLog, for which one earlier round stands. Two orders
and two trucks, of which one truck fits one order only, are the least for which
the greedy choice matters. Loads and capacities are constants: that someone edits an
order between plan and shipment is not covered.

Three runs of the energy agent bring the hours to the threshold of 12 when
switches are held back, and let two overlap after a third. As 72 hours do in the
code, 12 exceed what all threads together can count at once
(`ThresholdAssumption`: the pool of a worker has fewer than 18 threads for this
agent). Diesel is the cheapest source in the instance, the case in which leaving
it out matters, then the grid, solar and gas: a mill on gas is switched to solar
by day, one on diesel to the grid, and one on the grid stays there. One run of
the orchestrator shows each of its failures, and an operator or a restart in the
middle of it; that several overlapping runs do not disturb each other, or the status,
is what the theorems add.

A window of three ticks within five times (0 to 4) leaves two windows that share hits;
with one worker and one client the three paths are what the lists are kept apart by.

Durations are cut when there are more than 2, to 1, for 1000 and 500 in the code:
five responses cut a list twice. Two trainers with a database meet at the lock and
at the file; the one without meets them at the file only. Two stamps let the clock
go either way between two rows, and three rows let a training overtake two. Two
days of draws, one with a disruption, make the scores differ if demand mattered;
that it never does is a theorem. Three entries have one before, at and after a
misfit one. Of three processes that start, one can be ahead, one lose and one come
late. Of four tables the first is `users`, as in the code, one refers to another that
is declared before it, and one comes behind both: whether the second is missing when a
process looks changes its order of the last two.

Two threads of a process make two caches, and the third, in another process, is
whom they share Redis with. With a time to live of one, a response that took as long
as `MaxCompute` allows is two old in either store when it expires, which three times
show.

The silo, waste, security and vision agents treat items independently: two items
in two runs show one that is overtaken, one that hides another, and one that
arrives between two queries of a run; the readings and batches lie on both sides
of each limit and on the limit.

The theorems below do not depend on any bound.

No run turns the deadlock check off.

### Fairness

`RunsReturn` alone is a liveness property. It assumes weak fairness of the steps
of `run_once` in each thread (`FairSpec`, and with it `AgentSpec` of
`MCAgentLifecycle`): threads of the pool are scheduled by
the operating system, and each call of the database returns or raises, for its
driver has timeouts. There is no loop in `run_once` but the one over a finite
list, and no retry. Calls of `run_once`, operators and crashes are not assumed
to be fair.

## Findings

1. **Verification rejects every chain** (`fabric_client.py:37, 44`). The hash is
   computed from `utcnow().isoformat()`, which ends in `+00:00`. The column has
   no time zone. What is loaded prints without one, and the recomputed hash
   differs. A row that the verifying session itself still holds from its
   `append` would hide this; `/api/blockchain/verify` has a session of its own.
2. **The supply chain agent stops after its first round**
   (`supply_chain_agent.py:62`): the same loss of the zone, in a subtraction.
   The first run always logs a bidding round, even at levels that only observe.
3. **`/market/fx` ignores its limit** while the cache holds an answer
   (`routes.py:243`).
4. **The rate limit is one for each worker and each path** (`rate_limit.py:28, 53`).
   The hits are in a dictionary of the process, under a key that names the path, so
   that two workers let a client in twice as often. The docstrings say "using
   Redis-backed sliding window" (`rate_limit.py:1`) and "per client IP. Defaults to 120
   requests/minute for all endpoints" (`rate_limit.py:14-16`). What does hold, by worker
   and path, is `WindowHeld`.
5. **The energy agent never switches to diesel** (`energy_agent.py:64`), also where it is
   cheapest: a mill on diesel is then sent to a dearer source, with a negative saving. It
   takes tariffs above the default ones, at which diesel is the dearest. The docstring
   (`energy_agent.py:3-4`) and README.md:78 count diesel among the sources it switches
   between to minimise cost. Two theorems explain how far this goes: no switch to diesel
   is ever stored (`DieselIsNeverChosen`), and so the one conflict that the orchestrator
   looks for, which README.md:85 has it resolve, never arises (`NoConflictArises`).
6. **The security agent escalates nothing** (`security_agent.py:38`): the subtraction of
   finding 2 once more. With one open alert of any source but the silo agent, every run
   raises. `security_agent.py:3-4` and README.md:84 promise escalation.
7. **The waste agent looks at the newest batch only** (`waste_agent.py:21`), once an hour:
   one that is overtaken before that is never evaluated. The docstring
   (`waste_agent.py:3-4`) says "after each production run". What does hold is
   `NothingMissed`, which excuses a batch that a newer one hides.

Modelled, but in conflict with no document, so without a run:

* A mill on diesel is always proposed a switch, so at EXECUTE the maintenance of a
  generator is never due (`MaintenanceNeedsWithheldSwitch`).
* `_resolve` reads the autonomy level twice (`base_agent.py:105, 114`): an action can
  be reported as blocked on the way from SIMULATE to EXECUTE.
* The energy agent takes, of the latest readings by source, the oldest for the current
  one (`energy_agent.py:36`): once a facility has readings of two sources, the source
  it left earlier counts as the one in use.
* Nothing remembers what was reported: the next run of the silo or the waste agent
  reports the same reading or batch again. `OneRowPerRun` speaks of one run.
* "object", the label of the heuristic detector for everything else, has confidence
  0.60; the vision agent ignores what is below 0.65. An intrusion becomes a
  VisionEvent, never an alert.
* Re-routing (`logistics_agent.py:101`) reads a key that `observe` never sets.
* The orchestrator's `finally` undoes a `disable()` that came during its run, and an
  agent's own run does so too when it ends well.
* `train()` compares actions by scores from which they cancel out: the mill serves
  the largest demand in full, so that the first, conservative action is always
  stored (`PolicyIsConservative`).
* Of processes that start together on an empty database, all may fail and nobody seed
  the administrator, when they sorted the tables differently (`AdminSeeded`). The two
  workers of Dockerfile.backend:23 may meet in this way; docker-compose.yml:63 runs the
  script by itself before them. Any later start by itself makes up for it.
* Two administrators are possible when two processes seed between the creation of
  `users` and of its unique index, which can then never be created
  (`AdminSeeded`).
* `/metrics` raises when a new route appears during its loops; it leaves out
  exceptions, which pass the middleware before it counts.
* A misfit entry of the language model makes `generate()` raise after the rows
  before it are stored (`GeneratedAccounted`); nothing else checks its answers.
* `agents_running` of the dashboard counts all AgentRun rows that are ok
  (`routes.py:64`).
* A run of the energy agent that has seen a reading leaves no AgentRun row: the
  timestamp in its observation is not JSON, and the failure is swallowed.

## Theorems

For every value of the constants, from the specifications and the named
assumptions of the modules.

**The ledger** (`HashChainProofs`): `ChainStaysLinked`, `ChainStaysOrdered`,
`ReceiptsAreDurable`, `TypeCorrect`, `LedgerImplementsAuditLog`.
`ChainLinked` is not inductive: a writer that holds an old view must be stopped
by the UNIQUE column, not by luck. The invariant `IInv` adds `ViewOK`: the block
a writer links to is still there, with the hash it read, and no block below its
number is younger than its stamp. A writer whose number is free is then one
whose view is the last block, and its insertion extends the chain. The
refinement maps `Commit` to `Accept`, `CommitAckLost` to `AcceptSilently`,
`AppendCall` to `Submit`, everything else that ends a call to `Refuse`, and the
rest to stuttering. Assumptions: SHA-256 is injective, the clock does not run
backwards, and it is one clock for all processes.

**The agents** (`AgentLifecycleProofs`): `ExecutedActionsHaveEffect`,
`FailedActionsHaveNoEffect`, `LedgerAgreesWithTables`,
`StuckRunningIsExplained`, `DisableIsFinal`, `TypeCorrect`, `GapsAreExplained`,
`AgentsUseAuditLog`.
What a log says is decided when it is added to the session, and it is stored any
number of steps later. The invariant `IInv` therefore says for each point of
`run_once` what the session may hold and what is already stored (`SessionOK`),
that pending logs are as true as stored ones (`PendingOK`), and that nothing is
stored of actions still to come (`Fresh`). Most steps come under two lemmas: one for
steps that store nothing (`LocalStep`) and one for commits that are stored
(`StoreStep`). TLC checks the properties on the two instances above. For the
status, `StatusOK` adds which points of a run vouch for "running". For the gaps in
the log, `LogsOK` says that in a run that has not raised every action resolved so far
is logged, pending, or followed by a failed one that is, unless the session is
broken, whose next log is one of a failure. `AgentsUseAuditLog` maps a thread in
`append` to an open request of `AuditLog` and the entries whose answer arrived to its
receipts: `AppendRead` submits, the three outcomes accept, accept silently and
refuse, and every other step leaves the log alone (`OtherUses`). It needs
`UnheardStored`: what was not heard was stored. Assumptions:
`perform_action` raises only before its `record_event`; a session whose flush or
commit raised refuses everything until `rollback()`.

**The orchestrator** (`OrchestratorProofs`): `RecordsAgree`, `RunningIsInFlight`.
`ReportsAccounted` speaks of three tables that one session fills in two commits.
`SessionAt` says what is stored of a run, and what its session holds, at each point
of `run_once`: nothing before the append; a report only with its event between the
append and the last commit; and a session that is not broken holds the report or
has stored it. Runs have numbers of their own (`OwnPass`), so that a step of one
thread leaves the rows of all other runs alone (`OwnStep`). For the status, a run in
flight stays in flight up to the step that makes the status idle (`FlightStep`).
Assumptions: as for the agents; making a session does not raise.

**The energy agent** (`OrchestratorProofs`, part 2): `HoursAreThoseOfRuns`,
`MaintenanceIsOutOfReach`, `DieselIsNeverChosen`, `NoConflictArises`, all of the
composed specification, by
`OrchestratorRunsEnergy`: the orchestrator does to the agent only what the agent's
own specification allows. The invariant `EInv` has three parts. `AgentOK` gives the
type of what a run may plan, which no switch to diesel is in, whatever the tariffs: the
code ranks the other sources only. The last two theorems follow from it; they explain
finding 5 and are no promise of the code. `HoursOK` ties the hours to the
history. `CountOK` is the argument for maintenance: unless a switch was held back,
every run that counted hours for a facility still has its switch to make, so the
hours are at most four for each thread, less than the threshold. Plans are built by
flattening one sequence per facility; their elements are reached through the least
counterexample of the function that flattens. Assumption: four hours for each thread
stay below the threshold (`ThresholdAssumption`).

**The rate limiter** (`PlatformProofs`): `WindowIsHeld`, `RetryAfterIsEnough`,
`RemainingIsHonest`. All three are of one worker and one path: `ClientWindowHeld`, the
bound that the docstrings speak of, is finding 4. `ListOK` says that the list of a key holds only accepted hits
and all those of the window, so that what the code counts is what the window holds;
`HeldAt` carries the limit over to every window that ended earlier, and `RefusalOK`
remembers of a refusal that a hit of its window is out of it by the time of
`Retry-After`. Assumption: the clock of a worker does not run backwards.

**The response cache** (`ResponseCacheProofs`): `AnswersAreFresh`,
`MemoryNeverShadows`. `Ages` bounds the time of each entry, and of each response on
its way to a store, by when it was read. `MadeOnce` says that a thread makes one
cache in the life of its process, so that a flag once set stays set; `Turned` that
whoever writes to the dictionary does so through a cache that has given Redis up.
Assumption: `MaxCompute`, as above.

**Training** (`PlatformProofs`): `OneIsActive`, `TrainedPolicyIsInferred`,
`ArtifactIsThePolicys`, `TrainingIsConservative`. `LockOK` says that the holder of
the write lock saw the active rows as they still are, `RowsOK` that the newest row is
the only active one, `FileOK` what the file can be. That demand cancels out of a score
is shown day by day, then for the sums by the least day at which two of them would
differ. Assumption: SQLite's lock is exclusive from the first write to the commit.

**Metrics** (`PlatformProofs`): `PercentilesAreOfTheNewest`, `ScrapesAreExplained`.
`CountersOK` and `NewestAmong` fix how far total and list are apart at each point of
`dispatch`; `ScrapeOK` compares what a scrape has read with the counters now, which
only grow (`Grows`) until the worker is replaced, and its scrapes with it.

**The start** (`PlatformProofs`): `AdminIsSeeded`. `SortAlike` says that processes
under way agree about the order of the tables that both of them miss, and `InStep` that
each finds them created in that order; both hold until something is spoilt. A process
that was overtaken thus comes first to a table that another one created, and fails
there: the tables are created by processes that miss exactly what there is not
(`Ahead`), as each does when it starts. There is one of these until the tables and the
administrator are there (`NotSpoilt`).
Assumption: no table refers to one that refers to another (`ForeignKeysAssumption`).

**The scenario generator** (`PlatformProofs`): `GeneratedIsAccounted`. While a
call is in flight the property says nothing; `CallOK` therefore says that the rows
stored so far are the first of the entries that the call goes through, and what these
are: the slice of the model's answer, filled up with templates (`Filled`) once the
loop is reached. A returned call has gone through all of them.

**The supply chain agent** (`ProcurementProofs`): `CoverIsOnRecord`,
`CoverIsNotRepeated`, `ModeIsTrue`. A record is written several steps after the call
it is about, by when the session may have lost other records. `BankOK` ties the two
counters to the point of the run: before the call the bank knows nothing, during it
every cover is one that was not heard of, and after it the mode tells which case it
was (`Truth`). A row tells it too if the action was carried out or simulated; one of a
failed action has no mode and says nothing, and there may be cover behind it: the
commit can raise after the bank has answered. `LogsOK` says that of logs that wait as well as of stored ones, and
`RecordOK` that the record of cover is waiting or stored as long as no commit has
raised. `PlaceOK` has the reason why there is one call: a hedge can only be the first
action of a run. That a further attempt is made only after a failure is not assumed;
it is what `BankOK` says of "post".

**The logistics agent** (`DispatchProofs`): `PlansFitTheLoads`,
`DoubleDispatchNeedsOverlap`. `Planned` is the invariant of the greedy loop: what is
planned is apart from the orders and trucks that are left, every truck that is not
left is in the plan, and no order that was settled could be added (`Settled`), also
later, for trucks only get fewer. For double shipments `ShipmentsOK` says that what was
shipped is no longer pending, so that a run that looks now cannot see it; `Fresh`
keeps of this, while other runs ship, that an order a run has seen was not shipped
before it looked; and `Shipped` that a run has shipped since only what comes first in
its plan, which holds each order once. No assumption but that loads and capacities
are numbers.

**The monitoring agents** (`MonitorsProofs`): `NothingIsMissed`, `EachActionOnce`.
`NothingMissed` compares what is stored at the end of a run with
what there was when it was called. `DueFound` says at each query that an item that was
due is found, is hidden by a newer one of its subject, or is of a subject still to be
asked for; `DuePlanned` says from `think` on that each row it calls for is stored,
excused, or still in the plan. New items arrive all the time, so that both are shown
to survive a longer table (`Grows`). For `OneRowPerRun` three things must be distinct:
subjects, so that no item is found twice (`FoundOK`), actions in a plan, and runs by
their numbers (`IdsOK`); `PlanOK` then says that nothing in a plan is stored already.
Assumption: SILOS names each silo once and every reading is of one of them
(`SilosAssumption`).

**Only model-checked**: `RunsReturn`, which is liveness and out of the prover's
reach, as ENABLED is. TLC refutes the seven properties of the findings.
Every other property that a run checks is stated by a theorem. No module declares a
RECURSIVE operator. The library's induction theorems cannot be instantiated by the
installed provers; where a sum or a flattened sequence matters, claims about its
recursive function are proved at the least element at which they would fail.

## Not modelled

YOLO and OpenCV are libraries, and so is what the speech handler wraps. The event bus
and the MongoDB sink have no user in the repository. (The sink tests a database
object for its truth value at mongo_integration.py:41.) Endpoints other than the
cached ones are one query each, or build agents that never run. `Cache.delete`,
`Cache.flush`, `set_override` and `retry_async` are never called. Remote ledgers raise
at every call. With `stable_baselines3`, which the requirements leave out, `train()`
raises before it has changed anything. With `persist=False` the scenario generator
stores nothing; `stress_test()` calls `replace`, which its module does not import.
Nothing in the repository calls the training or the generator: the modules model what
a caller would get. Costs, revenue and advice of the digital twin are floating-point
numbers that only its caller sees. Hashing the administrator's password depends on
unpinned libraries and may raise, one of the outcomes of `StartFails`. Memory is not
bounded in the rate limiter, and the modules do not say that it is. An AgentRun row
whose own commit raises is lost (base_agent.py:173), and no code makes a truck
unavailable that is on its way (logistics_agent.py:30): the models do the same, in
conflict with no property. `PROJECT.json` lists each component with its state, and
the hazards of the code, with the properties that watch them.

## Plan

Theorems worth proving next: that the type invariants of the other modules hold, as
far as they say more than the inductive invariants; that `Dispatch`, `Procurement` and
`Monitors` are runs of `AgentLifecycle` whose session is abstracted, as step
refinements; lemmas that say of `OpenAlerts` and of the digital twin what they return.

Abstract specifications worth stating: an alert book (each condition raised once)
that `Monitors` is measured against, and an outbox of the bank that `Procurement`
could implement.
