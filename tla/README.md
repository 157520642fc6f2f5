# A verification project for runtime-guarded-agent

TLA+ models of the agent runtime under `src/core`, the TLC runs that check them
and the TLAPS proofs about them.  Paths below are relative to the repository.

## The system

| Part | Code | State it keeps | Interacts with |
| --- | --- | --- | --- |
| Agent run | `llm/Agent/AgentRuner.py` (loop), `nodes/planner.py`, `nodes/select_next_step.py`, `nodes/agent_loop.py`, `memory.py` (OneRunMemory), `state.py` | the `agent_state` dictionary, the locals of the node that runs | model, tools, event bus, context memory |
| Request graph | `llm/langgraph.py`, `llm/client.py` | `LangGraphState` | agent nodes, model, tools, context memory |
| Context memory | `memory.py` (ContextMemory) | a JSONL file | written by the runner and the graph, in several processes |
| Run events | `AgentRuner.py` (EventBus, EventWriter, StdoutPrinter, run) | subscribers, `events.jsonl` | every node of a run |
| Daemon and IPC | `daemon/`, `ipc/`, `cli/commands.py` | server, shutdown event, pid file | CLI processes over TCP |
| RAG service | `llm/rag_service.py`, `llm/Agent/rag_tools.py` | lazily made model, client and collection; Chroma store, upload directory | API threads, the agent's retrieval tool |
| Tools | `llm/tools.py` | none | HTTP services |
| HTTP API, CLI | `api/`, `src/cli` | none | the parts above |

What is hard in it, part by part:

* **Agent run.**  Five nested loops (iterations, replans, restarts, turns,
  subagents), several of which reset the counters of the inner ones; one
  dictionary through which stale traces, counts and answers can travel between
  steps and between plans; a node that calls itself on a copy of its state; an
  exception path that reports another state than the one reached.  Correct means:
  steps are done in order and once, no stale trace or failed tool is used, the
  plan is rewritten only as often as it was paid for, every loop ends, the
  limits stop no run that could go on, and the summary has evidence for every step.
* **Request graph.**  Retry counters and a route that changes under them; results
  kept across retries; any node may raise.  Correct means: bounded and ordered
  retries, answers from current results, an end status that tells the outcome,
  nothing remembered that was not accepted.
* **Context memory.**  Concurrent appends, torn lines, a crash in the middle of a
  line, lines that are no JSON or no UTF-8.  Correct means: damage stays next to
  where it was done, and what could be relied on is still there.
* **Run events.**  Handlers that raise before the file is written; order and
  completeness of the events of a run.
* **Daemon.**  Clients, time-outs and shutdown; two launchers at once; a client that
  never closes; requests that are malformed or cannot be answered.
* **RAG service.**  Lazy initialisation by several threads, a collection that is
  recreated under its readers, uploads that fail half-way, restart; text that is
  split, merged and overlapped; candidates of several queries that are merged,
  ranked and cut.

`PROJECT.json` lists every hazard at its line.

## The modules

    OneRunMemory <- AgentState <- AgentPlanner <- AgentLoop <- AgentRun
                                                                  ^
                     PlanExecution <------- AgentRunProperties ---+
                                              ^         ^
                                      MCAgentRun     AgentRunProofs

    VerifierGraph <- VerifierGraphProperties <- MCVerifierGraph, VerifierGraphProofs

    RunEvents <- RunEventsProperties <- MCRunEvents, RunEventsProofs
    RagStore  <- RagStoreProperties  <- MCRagStore, RagStoreProofs
    Daemon    <- DaemonProperties    <- MCDaemon, DaemonProofs

    ContextMemory <- ContextMemoryProperties <- MCContextMemory, ContextMemoryProofs
                           ^
           RecordLog ------+

    Chunking, Recall, RpcConversation <- OutsideInput <- OutsideInputProperties
                                              <- MCOutsideInput, OutsideInputProofs

    Selection <- Chunking, Recall, ContextMemory
    Selection <- SelectionProofs <- ContextMemoryProofs, OutsideInputProofs

(`<-`: is extended by; `PlanExecution` and `RecordLog` are instantiated.)

### The agent run

* `OneRunMemory`: the methods of the class as operators from memories to
  memories.  A loop result or a step's answer is represented by its *owner*, the
  pair of plan revision and step index that produced it: enough to tell a stale
  one from a current one.  A loop result also bears the number of restarts its
  step had (`Round`), so that the turns a restart threw away can be told from
  those after it.
* `AgentState`: the variables (the fields of `AgentState` that the code reads,
  the runner's loop counter, the locals of `agent_loop_node`), constants, `Init`.
  `pc` says where the thread is: `head` (top of the `for` body), `enter` (about
  to call the loop node), `loop` (top of its `while`), `return` (it returned),
  `summarize`, `finished`, `failed`.
* `AgentPlanner`: `planner_node` (`PlannerNode`, `PlannerFailed`) and
  `select_next_step_node` (`SelectNextStep`, `SelectFinish`).
* `AgentLoop`: one action per kind of pass of the `while` loop: the signals
  (`Overturning`, `Overthinking`, `FindingMissing`), `Think`, the two outcomes of
  a tool, `Finish`, everything that raises (`DecisionRaises`), exhaustion.  The
  nested call of the subagent pushes the caller's memory on `callers` and runs
  the same actions; `SubagentAnswered`, `SubagentUseless` and `SubagentFailed`
  resume the caller.
* `AgentRun`: merging a node's update into the state, the iteration limit, the
  summary, raising event handlers, and the specification.
* `PlanExecution`: what a run promises, with no loop, turns or memory: a plan is
  made, worked off from the front, replaced at most once and its rest replaced at
  most once, answered only when worked off.  `AgentRun` is checked to implement it
  under the mapping at the end of `AgentRunProperties`.

`agent_node` of `langgraph.py` repeats the runner's loop without events; it is
the same specification without `HandlerRaises`.

### The request graph

`VerifierGraph`: one action per node of `build_graph`, with the edge taken after
it; the verifier node is split by its outcome (`AnswerVerified`, `AnswerRetried`,
`RetriesExhausted`).  The selections of tools are numbered so that results can be
told apart; `rag_document` stands for `file_info` together with `use_rag`.
`agent_node` appears by what it returns: a possibly empty answer or an error.

### The events of a run

`RunEvents`: one action per publication of `run`, `_run_agent` and `_run_node`.
`Publish` puts an event on the bus and says where the code goes on; `Deliver`
calls the next subscriber, and `HandlerRaises` goes where that exception is
caught: into the agent loop for a thought, to the `except` clause, from there to
the `finally` clause, or out of `run`.  `Interrupt` is a `KeyboardInterrupt`, which
no `except Exception` takes.  `seen[s]` is what subscriber `s` took; the last one
is the events file.  What the nodes do is `AgentRun`; here a node succeeds or fails.

### The RAG service

`RagStore`: what each worker thread of the API does with the shared service, one
action per call that touches the disk, the collection, the service's attributes
or its lock (the calls with which an upload checks its file, makes the directory
and lists it are one action, `Begin`; nothing is written before it).  `pc` is the call that comes next; while a thread needs a lazily
made value, `mutex` says whether it has seen it missing, waits for the lock or
holds it.  Collections are numbered as Chroma makes them, so that a handle can be
told from a handle to a deleted one; the kind of a vector is the model that made
it, because the model and its replacement differ in dimension.  `write_text` and
`write_bytes` truncate and write in two steps; a crash or an exception may come
between them.  Uploads of one document (one content) share a directory.  Local
retrieval lists the directories and reads their `chunks.json` one after the other,
for each query anew (`ListDirectories`, `ReadChunks`), while others write them.

Any call may raise: `UploadFails`, `UpsertFails` (before Chroma wrote or after),
`RetrievalFails` and `ReadFails` are a full disk, a text that cannot be encoded, a
model that does not embed, a database that does not answer.  What they leave is told
by four histories: `failed` (documents with an upload that raised or was cut off),
`cutoff` (those whose `chunks.json` was last cut short), `dropped` (those whose vectors
were lost and not written again), `spoilt` (a reset of the collection failed or met
another).  A retrieval keeps the documents that were uploaded when it began (`known`) and
those that were out of its reach since (`interrupted`), being rewritten, lost
or unreadable.

### The daemon

`Daemon`: each ping and shutdown is a process that runs once, each ping may start
a daemon, which bears its name.  A connection is a field of its command: in the
backlog, accepted, answered, or cut.  A daemon is starting, serving, closing,
exited, or was refused the port.  Whether `wait_closed` waits for open connections
depends on the Python that runs it, so both are initial states.  A shutdown
request whose sender gave up may still be obeyed or be lost (`HandleAbandoned`).

A `guest` is a program that connects and never closes: where `wait_closed` waits,
the daemon it visits can be told to stop and never exits.

### The context memory

`ContextMemory`: processes that append records to one file and read it, with no
lock.  A record's text is a row of three or four pieces, the last of them its
newline, so that a line can be cut, joined to another and overwritten, and a
reader has to find its way in what is left.  All pieces but the newline meet inside
one of the record's two strings, so the head of one record and the rest of another
are JSON again when they meet in a line: `IsRecord` says which rows of pieces load
takes for a record, by whether a string is open where they meet and whether the key of an
answer is among them (`AnswerAt`).  What load returns for a line is its row of
pieces, a record that somebody gave or a mixture of several.  `ReadRecords` is the
loop of `load`, which skips every other line, and `Decodable` says when it raises
instead, a character having been torn (`Split`).

What the mode "a" means is up to the system, and both meanings are initial states
(`atomic`): POSIX appends atomically but may take less than it is given, so that the
buffered writer issues another write for the rest (`WriteCutShort`, `WriteRest`); the C
runtime of Windows seeks to the end and then writes (`Seek`, `WriteRest`).  There a
load that reads by buffers may hold old contents and new ones (`ReadOn`, `EndLoad`);
where the file only grows, it holds what the file was when its end was met.
`Abandon` is a full disk or a killed process, at any point.

`RecordLog` is what that promises: a list, of which a growing part at the front is
*firm*.  Where appends are orderly, it grows at its end, loses at most its last
entry, and is read as it is at one time; where they may collide, everything behind the firm
part may change, and a reader gets at least what was firm when it began.  An entry
is firm when its line has ended and nobody is about to write over it.  An entry may be
a mixture: how many of those there can be is not the list's business but `DamageBounded`'s.

### What comes from outside

Three functions of the system must cope with any text.  They have no steps of
their own that could meet others', so `OutsideInput` takes them through their
inputs: a document grows by a character a step, a connection by a line, which
`HandleLine` answers as it comes.

* `Chunking`: `split_into_chunks` and the five functions it calls, as operators on
  sequences of characters.  Blanks, newlines and one sentence mark are told apart;
  every letter is another one, so that its way into the chunks shows.
* `Recall`: what the retrieval tool gives for a question.  The model's plan is
  checked and cut, queries are deduplicated by their casefolded text, the searches
  of all queries are merged, and the candidates are reranked.  What a search finds
  is any ranking of the chunks, the scores of the rerank model any other.
* `RpcConversation`: one connection of the daemon.  A line is what its reader can
  tell of it: unreadable, no JSON, no object, or a request with each of its fields
  right or wrong.  An answer that repeats a lone surrogate cannot be encoded, which
  ends the connection, as an unreadable line does.
* `Selection`: what a loop that skips members of a sequence keeps of it, told by
  their places; `if part.strip()` in `Chunking`, the key already seen in `Recall`,
  the lines that are no JSON in `ContextMemory`.

## The runs

| Run | Shows |
| --- | --- |
| `agent_run` | all properties of `AgentRunProperties` on a whole run |
| `agent_run_limit` | the iteration limit can stop a run whose steps are all done |
| `agent_run_overthink` | overthink counts leak into the next plan |
| `agent_run_answer` | a step can be completed with an older plan's answer |
| `verifier_graph` | all properties of `VerifierGraphProperties` with the budgets of the code |
| `run_events` | all properties of `RunEventsProperties` with two handlers and the events file |
| `rag_store` | all properties of `RagStoreProperties` with two threads and two documents under two names |
| `rag_store_reset` | two concurrent resets leave a handle to a deleted collection |
| `daemon` | all properties of `DaemonProperties` with two pings, two shutdowns and a guest |
| `daemon_first_ping` | one of two simultaneous first pings fails although a daemon runs |
| `context_memory` | all properties of `ContextMemoryProperties` with two processes and three records |
| `outside_input` | all properties of `OutsideInputProperties` for short documents, plans and conversations |

The properties, in words:

* `StepsDoneInOrder`, `PlanLength`, `DoneStepsKept`: the plan and its cursor
  through replans and partial replans.
* `FreshTrace`, `NoFailedToolReuse`, `EvidenceForEveryStep`: what travels in the
  dictionary from node to node and to the subagent and back.  A trace is fresh when
  every result in it is of this step, of this plan, and of the time since the step's
  last restart.
  `EvidenceForEveryStep` also says that an event that looks a step up by its id
  tells a result recorded under that id, though ids repeat.
* `VisitBounded` (`NoNestedSubagent` and `DecisionBound`), `LimitLeavesNoStep`: the
  budgets.  `StepsRunOut`: every step of a run uses up one of those left, so that a run
  takes at most
  `MAX_AGENT_NODE_ITERATIONS * (3 * MAX_REACT_TURNS_PER_STEP + 5) + 1` of them, through
  all restarts, subagents and replans; `Termination` needs only that it goes on.
* `ImplementsPlanExecution`: all of the run as its user sees it, each revision of
  the plan paid for from its budget.
* `AnswersUseCurrentResults`, `RunIsBounded`, `CheaperRetriesFirst`,
  `EndStatusTellsTheOutcome`, `OnlyAnswersRemembered`: the request graph.
* `EndIsAnnounced`, `FileTellsTheOutcome`, `FileIsNearlyComplete`,
  `AnswersAreRemembered`: what a reader of the events and of the context memory
  may conclude from them, whichever handler raised and whenever it was interrupted.
* `OneEmbeddingModel`, `ChunksKept`, `StoresAgree`, `MissExplained`:
  one model per process, no chunks lost by a later upload that fails, two stores that agree but
  for what failed, and no retrieval that comes back empty, or raises, without a
  reason that the documents it asked for give.  `RequestsRunOut`: a thread in a
  request is never stuck, on the lock in particular, and no step of anyone adds to
  the steps it has left, of which each of its own uses one up (`StepsLeft`); so a request
  whose thread is scheduled ends, however many others run beside it.
* `PingFailureExplained`: without time-outs a daemon stops only for a shutdown that
  is told so, and a ping fails only if the daemon it started lost the port, or if
  the one it had found or started was stopped, between its probe and its request say.
  `NotRunningExplained`, `ShutdownsComplete`: what a failing and a successful shutdown
  tell about the daemon.
* `DamageBounded`: a write that is cut short costs at most two records, and fewer
  mixtures come up than writes were cut; elsewhere a record is lost or mixed only if
  its writing met another's; reading fails only after that happened to a record
  with a split character.  `ImplementsRecordLog`: what a reader was given in firm
  lines every later reader is given, in the same places.
* `ChunksFit`, `TextKept`: no chunk outgrows `chunk_size`, none is blank, no letter is
  lost or out of order, and only neighbours share text, no more than the overlap.
* `BestChunksGiven`: no chunk twice, no place left empty that could be filled, and
  with a rerank model the best of all that the queries of the plan found together.
* `AnswersInOrder`: every line is answered in order under its own id, until one that
  cannot be; the daemon stops exactly when a shutdown was answered; and the client
  takes an answer to its request for what it is.

### Bounds

`AgentRun.cfg` has 2 steps a plan instead of 8, 3 turns instead of 7, a run of 2
unrelated turns instead of 6, 2 thinks instead of 3, and 2 tools.  Two steps are
what order, the cursor and a partial replan that keeps something need; three
turns leave room for a restart in the middle of a step and for a subagent after
it; two tools let one fail and another be used afterwards.  The plans include
missing and repeated ids and lengths the parser refuses.  The replan budgets (1
and 1) and the formula of the iteration limit are those of the code.  The run has
about 1.1 million states.  The three violations need less: plans of one step
(two, for `agent_run_answer`).

The counters of the model are bounded by the code itself, but for two history
variables: `decisions`, which stops one past the bound it is checked against
(`DECISION_CAP`), and `executed` in `VerifierGraph`, which the budgets bound.

`VerifierGraph` runs with the budgets of the code; its state space is finite
without any bound.  The longest request takes 26 nodes.  Whether the graph
library's own step limit admits 26 is decided by the library (`langgraph==1.2.0`
in `requirements.txt`); no limit is passed to `invoke`, and a default of 25, as
earlier versions of the library had, would end such a request in an exception.

`RunEvents.cfg`: three handlers, so that one comes before and one between; three
iterations, which an answer needs (plan, step, no step left) and which the limit
cuts off otherwise; one thought a visit (`MAX_THOUGHTS`).

`RagStore.cfg`: two threads, two documents under two names, three requests
(`MAX_REQUESTS`), one retrieval a request (`MAX_RETRIEVALS`) with two queries
(`MAX_QUERIES`), so that it reads the files twice, and one restart (`MAX_RESTARTS`), since
only another process can have written a collection of the other dimension.  Threads,
documents and names are interchangeable, and the run uses that symmetry; 1.7 million
states.
`RagStoreReset.cfg` has neither failures nor a second document: what the reset
does wrong it does by itself.

`Daemon.cfg`: two pings and two shutdowns, and one look at a starting daemon before
the start-up time-out (`MAX_POLLS`; two in `DaemonFirstPing.cfg`).  Two of each are
what the races need: both pings start a daemon, one shutdown stops the daemon
another command has reached.  1.5 million states.

`ContextMemory.cfg`: two processes and three records, so that one can write again
after damage was done: three make a mixture of two and a record around it.  One
record has four pieces (it can be cut at two places before its newline), two split a
character between their pieces, and one has the key of its answer before the cut, so
that two heads and rests join into a record, or into none; two writes cut short
(`MAX_CUTS`), which is what a mixture takes and shows that the damage adds up and no
more.  51 thousand states.

`OutsideInput.cfg`: documents of up to seven characters (`MAX_TEXT`) with
`chunk_size` 3, overlap 2 and minimum 2, so that a text is more than twice as long
as a chunk and every combination of separators, blanks, merging and re-splitting
comes up; one sentence mark stands for the six, which the code treats alike one
after the other.  Four chunks, of which a search finds three and reranking
keeps two; plans of up to three sub-queries, of which two are kept, in two
spellings.  So a search always finds more than is given; that fewer found are all
given is left to the theorem.  Two lines a connection (`MAX_LINES`) of each of 131 kinds: what a line
does depends on the lines before it only in whether the connection is still open.
The run stops at its bounds and does not check for deadlock.

### Fairness

`AgentRun` assumes `WF_vars(Next)` and nothing more: one thread runs the loop, model
calls have a time-out (`settings.LLM_TIMEOUT`), so a run that can take a step takes one.  No outcome is assumed fair: the model may answer anything
at every decision and tools may always fail.  `Over` is a stuttering step of a
run that has ended, so deadlock is checked.  `VerifierGraph` states no fairness:
`RunIsBounded` bounds the nodes a request runs, and the absence of deadlock says
that a request that has not ended can run another.  `RunEvents` states none either:
its properties are about what has been published.

`RagStore` states no fairness either: `RequestsRunOut` says that a thread in a request
can take one of its steps, none of which is a failure or a restart, or waits for a
thread that holds the lock and makes the value without waiting for anything; and that
the steps left to a request run out.  That every request ends follows for whatever
scheduling lets each thread run that can.  The lock is taken at most once for each
value that is missing, since a value is made once; one that cannot be made raises,
and ends what wanted it.  `Rest` is the stuttering step of a system to which no request
comes, so `rag_store` checks for deadlock; `rag_store_reset`, which has no use for
it, does not.

`Daemon` assumes weak fairness of each command and each daemon: they are processes
of their own.  Which of its enabled steps a process takes is not assumed: every
request may time out, and a guest need not come.  `Rest` is the stuttering step of a
system in which all commands have ended, so deadlock is checked.

`ContextMemory` and `OutsideInput` assume none: nothing waits in them, and their
properties are about what is in the file and in the answers.

## The proofs

Every safety invariant and step property that the passing runs check is proved for
all values of the constants, and so are both refinements; the liveness properties
are not, nor is that part of `RequestsRunOut` which is said with ENABLED (see the end
of this section).  The only assumptions are those the modules
state of their constants, which TLC evaluates in every run.  They say that the sets
of constants do not mix, that bounds are numbers, and that documents and their names
are finitely many.  The agent run asks for at
least one step in a plan and one turn in a visit, for a step id for every position
a plan can reach, and for planner answers made of step ids; the events, for a
handler; a document, for letters that are numbered as they come, and a question, for
finitely many chunks, numbered as it ranks them.

| Module | Theorems | Property |
| --- | --- | --- |
| `AgentRunProofs` | `TypeCorrect`, `OrderKept`, `PlanBounded` | `TypeOK`, `StepsDoneInOrder`, `PlanLength` |
| | `VisitsAreBounded` | `VisitBounded` |
| | `TraceIsFresh` | `FreshTrace` |
| | `FailedToolsStayUnused` | `NoFailedToolReuse` |
| | `AnswersHaveEvidence` | `EvidenceForEveryStep` |
| | `RunsTakeBoundedSteps` | `StepsRunOut` |
| | `LimitLeavesNothingUndone` | `LimitLeavesNoStep` |
| | `DoneStepsStay` | `DoneStepsKept` |
| | `RunImplementsPlanExecution` | `ImplementsPlanExecution` |
| `VerifierGraphProofs` | `GraphTypeCorrect`, `GraphBounded` | `TypeOK`, `RunIsBounded` |
| | `RetriesOrdered`, `ResultsAreCurrent` | `CheaperRetriesFirst`, `AnswersUseCurrentResults` |
| | `OutcomeReported`, `MemoryOfAnswersOnly` | `EndStatusTellsTheOutcome`, `OnlyAnswersRemembered` |
| `RunEventsProofs` | `EventsWellFormed`, `RunEndsAreAnnounced` | `TypeOK`, `EndIsAnnounced` |
| | `FileIsTruthful`, `FileLacksFourEvents` | `FileTellsTheOutcome`, `FileIsNearlyComplete` |
| | `RememberedFirst` | `AnswersAreRemembered` |
| `RagStoreProofs` | `OneThreadMakes`, `OneModelEmbeds` | `TypeOK`, `OneEmbeddingModel` |
| | `UploadedChunksStay`, `StoresAgreeAtRest` | `ChunksKept`, `StoresAgree` |
| | `MissesAreExplained` | `MissExplained` |
| | `RequestsRunOutOfSteps` | (the step bound of `RequestsRunOut`) |
| `DaemonProofs` | `AtMostOneServes`, `PingFailures` | `TypeOK`, `PingFailureExplained` |
| | `NotRunningTold` | `NotRunningExplained` |
| | `AnsweredShutdownsAreObeyed` | (an answered shutdown has set its daemon's event) |
| `ContextMemoryProofs` | `MemoryTypeCorrect`, `DamageIsBounded` | `TypeOK`, `DamageBounded` |
| | `MemoryImplementsRecordLog` | `ImplementsRecordLog` |
| `OutsideInputProofs` | `AllChunksFit`, `TheTextIsKept` | `ChunksFit`, `TextKept` |
| | `BestChunksAreGiven` | `BestChunksGiven` |
| | `AnswersComeInOrder` | `AnswersInOrder` |
| | `NewlinesCollapsed` | (what is split has no three newlines in a row) |

Each module first proves an inductive invariant, with a lemma for each action or
group of actions, and then its theorems from it.  `SelectionProofs` has the lemmas on
sequences and numbers that two of them share.

**`AgentRunProofs`.**  `RunInv` adds `ControlOK` to the types and the order of the
plan: an update that asks for a replan is made only while the budget has room for
it, so that the merged count stays in its type; a subagent runs only inside a
visit; the cursor is on the plan whenever a step or a partial replan needs it, and
everything before it is done.  The lemmas for the actions of the loop go through
`TurnKeepsRunInv`, which says that a turn changes nothing but the loop's own
variables, so that each need only show its memory and its update well-formed.

**The same, a visit.**  The properties of a visit (`VisitInv`) speak of the memory the loop
works with.  They are inductive only together with what they need of the memories
that one is restored from: the one saved in the state and those of suspended
callers.  So `DepthOK` bounds the depth of all three, `TraceOK` says whose results
each may hold, and since which restart, and `EvidenceOK` that no memory has lost a step's answer the saved
one has.  `ToolsOK` says that a tool that raised is in `failed_tools` of every
memory, until the run is bound to fail: a pass that raises drops its memory, and
with it the mark.  `DecisionsOK` counts the decisions of a visit by the rounds that
a restart and a subagent each add.

`StepsRunOut` follows.  `StepsLeft` is the iterations that are left, each worth a
whole visit, and what is left of the current one; that a visit takes no more than
it is worth is `DecisionBound`, and that coming back from it takes two steps or three
is `NoNestedSubagent`.  `VisitGoesOn` is the steps within an iteration,
`IterationBegins` the step that starts the next.

**The same, the plan.**  `LimitLeavesNoStep` needs a measure.  `MaxLost` is the
number of visits that were for nothing so far, those of steps in a plan that was
replaced; with `Overhead`, the iterations spent on replanning, and the steps that
are done it bounds the iterations begun (`BudgetOK`).  After both replans a longer
plan has lost less, since what the partial replan kept was not lost; so the limit
of three plans and three iterations is reached only when every step is done.  `agent_run_limit`
shows that it can be reached then.  `RunImplementsPlanExecution` maps every action to a step of
`PlanExecution` or a stutter; that a run which summarises has done all its steps
(`PlanOK`), and that an error is seen only in a run that failed (`LimitOK`), is
what the abstract guards need.

**`VerifierGraphProofs`.**  `GraphInv` says what each node finds when it starts and
counts the nodes run against the retries that paid for them (`NodesCounted`): two
nodes for a retry of the answer, four for one of the tools, at most five for the
router.  `RetryInv` is the step that spends a retry, `OtherStepsInv` the rest.

**`RunEventsProofs`.**  What the file lacks depends on where `run()` is.  `BusOK` ties
the stage of the run to the event being delivered; `FileCurrent` says that until a
handler raises the file lacks that event at most, and `LossBounded` how many more
it lacks after each clause the exception passes on its way out.  `EndIsLast`,
`EndIsThere`, `StatusOK` and `NoFalseEnd` relate the status `run()` holds, the last
event and its outcome; an interrupt between the last event and the return is the
case they leave room for.

**`RagStoreProofs`.**  Directories and collection disagree while a document is
uploaded, and several threads may upload the same one.  `FileOK`, `ChunksOK` and
`VectorsOK` name, for everything a store lacks or holds too much, a thread that is
going to put it right, or the history that says it failed to.  `HandlesOK`
says that the service's handle is to the one collection there is, but for a reset that
is under way or was spoilt.  A retrieval takes many steps while others write, so what
is true of it must be true of every moment since it began: `Marked` says that all that
is out of reach now is in its `interrupted`, `ReadOK` that a document which it knows
and which was never out of its reach is found or not yet read, and `Explained` is
what remains when it ends.  `Moves` says how a step looks from another thread, which
is how one lemma (`RetrievalsKept`) does for the others' retrievals in every action.

`RequestsRunOutOfSteps` adds what counts (`RequestsInv`): the counters of a retrieval
are zero outside it, and no handle is 0 once it is assigned, so that what was made
is never missing again.  `Progress` is what a step of a thread does to its own
number of steps and to those of the others (`OthersLeft`); a call is worth four
steps, since a value may have to be made before the next.

**`DaemonProofs`.**  A command relies on a daemon it does not control.  `Connections`
says what the stage of a connection tells about the daemon at its other end,
`StartedOnce` what the daemon of a ping can be before the ping starts it,
`AnswerSetsEvent` that an answered shutdown has reached its daemon, and
`CalmDaemons` that without time-outs a daemon, once found, is there to be found
again, or was stopped by a shutdown that is told so.

**`ContextMemoryProofs`.**  `WritersOK`: what a writer has left is the rest of one
record, of which exactly the pieces before it are in the file, and it is in the
middle of one only after a cut.  Where appending is atomic (`AppendsOK`) every piece
is next to its neighbours in its record unless the record was cut there (`Chained`);
so a record that is lost has a cut in it or right before it, which maps at most two
lost records to a cut, and a mixture has a joint of two records, with a cut on each
side of it (`Joint`): the joints of several mixtures are further cuts.  Elsewhere (`SeeksOK`) a
record whose writing met no other is in the file as a whole, where no pending write
reaches, and in what a reader has taken of that place (`TextAt`, `Stands`); so
no mixture has a piece of it.  For the refinement the lines of the file are numbered: an
append adds a record, settles one or loses the last; a write at a position sought earlier
spares the lines that end before it, which come first (`EndedBy`).  `ReaderOK` says
that what a reader was sure of when it began is still what the first pieces of the file
make, out of every writer's reach, and that it has read them as they are.

**`SelectionProofs`.**  The functions that take text from outside are loops, and what
a loop computes from every input takes an induction.  The library states
induction for an operator parameter, which the provers at hand cannot instantiate; here
it is stated for the *set* of the numbers that have a property (`Induction`,
`LoopKeeps`), and follows from the well-foundedness of finite sets (`LeastNat`).
`LoopRuns` gives a loop its states, `FlattenRuns` those of the library's `FlattenSeq`.
The rest says what `Selected` keeps, and in which order.

**`OutsideInputProofs`.**  A document's letters are numbered as they come, so that a
text is in order when its letters increase, and a row of pieces when the letters of
each come before those of the next (`InOrder`).  Each function of `Chunking` gets a lemma that it keeps
the order and loses no letter (`StripKeeps`, `PartsKeep`, `MergeKeeps`, ...), and that
no piece is longer than allowed.  `SplitsAll` says so of splitting, for the separators
from the last, which cuts pieces of a fixed length, to the first (`LevelSplits`,
`SplitIsDefined`, `RecursiveSplits`).  `OverlapFacts` says what each chunk takes of
the one before it.  `TextInv` needs of the document only that its letters are numbered.

For a question, `DedupedMembers` and `RetrievedMembers` say that merging keeps the
first of every key and nothing else, `OrderedMembers` that ranking is a permutation,
and `RecallGives` what remains after the cut.  For a connection, `ConnectionInv` ties
the answers given to the lines that were read: one for each in order, until it ended.

Model-checked only:

* `Termination` and `ShutdownsComplete`: liveness under fairness is
  out of this prover's reach.  What is proved of `Termination` is `StepsRunOut`, which
  leaves that a run which has not ended can take a step; the run checks for deadlock.
* Of `RequestsRunOut`, that nobody is stuck (`NobodyStuck`): it is said with ENABLED,
  which the prover does not reason about.
* The five violation runs: each is a counterexample.

## Disagreements between code and its own words

The five violation runs; `PROJECT.json` quotes the lines under "findings".  Besides:

* `RagStore` and `RunEvents` let reading fail where the code means to skip what it
  cannot parse: `chunks.json` and the context memory file are decoded before they
  are parsed, and a file that ends inside a character raises `UnicodeDecodeError`,
  which `except json.JSONDecodeError` does not take (`DecodingRaises`, `Load`).
  In `ContextMemory` this is the last line of a record cut inside a character, after
  which every run and request of the API fails until the file is repaired.
* Two records that were cut can join into one that nobody gave to `remember`, a valid line
  which `load` returns (memory.py:226-244).  Where appends seek and then write, a
  load that is overtaken by one is no snapshot of the file.
* The prompt of a step says that it "allows at most" MAX_REACT_TURNS_PER_STEP, 7, loop turns
  (prompt.py:189).  With its restart and its subagent, whose turns are counted from 0, a
  step may take three times as many decisions: `VisitBounded`.
* With repeated step ids, `agent.step.finished` may be published for an earlier step
  when a visit only asked for a replan (`Visited`).  The planner accepts repeated ids,
  and a step replan forces `step_<n>` on new steps whatever the kept ones are called.
* After a chat answer was rerouted to the tools, the answer says that "all retry
  paths were exhausted" though no tool retry was taken: `_next_verifier_step` offers
  nothing but another reroute once one was made (langgraph.py:387).
* Splitting drops a sentence mark that follows another, and merging puts stripped
  parts together without the blank that was between them.  A text of nothing but
  one sentence mark, longer than a chunk, gives no chunk at all and is refused as empty.
* Without a rerank model the sub-queries of a plan contribute nothing unless the
  main query finds fewer chunks than are given: the first of the merged candidates
  are all the main query's.
* Protocol errors are answered, but a line that is no UTF-8 or too long, and a request
  whose id or method cannot be encoded in the answer, end the connection without one.
* The pid file of the daemon is written and never read; after two simultaneous
  first pings it may name the daemon that lost the port.

## Not modelled

* Prompts, payloads, logs, time stamps, the wording of answers, `plan.md` (a picture
  of the plan that is appended to a file and read by nobody).
* `llm/tools.py`: functions without state over HTTP, the clock and floating-point
  arithmetic; the agent loop and the graph see a tool return or raise.  Two of them
  are more lenient than their error messages suggest: `calculate_expression` may
  return a complex number (a negative base and a fractional exponent), and
  `_load_timezone` falls back to Beijing time for a zone it does not know.
* `LLMClient.chat` and `stream_chat` (one model call each), the API handlers (no state),
  parsing and printing of the CLI, configuration, the practice code, which the
  program does not import.
* In the RAG service: extracting text from PDF and DOCX files, guessing encodings,
  embeddings and similarities.  What a search finds is an arbitrary ranking.  One
  content under file names of two types has one directory, too, but its chunks may
  then differ; here the chunks of a document are whole, torn or missing.
* Other programs that write to the context memory file or the upload directory.

## Plan

1. Done: the agent run and its promise, the request graph, the events of a run, the
   RAG store, the daemon, the context memory and its promise, the functions that
   take text from outside; their runs.
2. Done: proofs of all their safety properties and refinements.
3. Left: the liveness properties, if a prover for them is at hand.  More properties
   of steps from the invariants there are: that an uploaded document leaves the
   collection only under a writer, that a daemon which closes never serves again.
