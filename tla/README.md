# Rust Blender MCP: specifications, model checking and proofs

Rust Blender MCP lets an MCP client (a language model's host) drive Blender. A Rust
server speaks MCP on stdio and listens on a local TCP port; a Python add-on inside
Blender dials that port and runs what the server asks for on Blender's main thread.
This directory holds TLA+ modules for the parts of the program where order, failure and
several actors matter, the TLC configurations that check them on small instances, and
TLAPS proofs of the most important results for every value of the constants.

How to run, in this directory (the community modules and the TLAPS library must be on
the library path):

    tlc -config MCBridge_safety.cfg MCBridge     # any of the runs listed below
    tlapm Bridge_proof.tla                       # any *_proof module

`PROJECT.json` is the machine-readable index: the components, the runs, one mutation of
the code per checked property (an operator whose comment begins "Mutant:", or a definition
of the model that happens to be a weaker form), the source lines behind every definition,
the disagreements between documentation and code, the hazards and the theorems.

## 1. The system

### 1.1 Parts, their state, their operations

| Part | Where | State | Operations | Talks to |
|---|---|---|---|---|
| Request bridge, server | `crates/blender-client` | the session slot; the registry of pending requests; per connection a task, a write task and its bounded channel; per call a oneshot channel and a deadline | `execute`, `handle_connection` (handshake, install, read loop, teardown), `write_loop` | add-on over TCP; every tool calls `execute` |
| Request bridge, add-on | `blender_extension/transport.py`, `queue.py`, `dispatcher.py` | inbox and outbox (bounded, they outlive a connection); the current socket; a bridge thread and a writer thread per connection | dial, read, refuse when full, write, drop, stop; the pump on Blender's timer | server over TCP; handlers on the main thread |
| Framing and listening | `framing.rs`, `framing.py`, `reconnect.rs` | none beside the stream | encode, decode, bind with retry | both ends of the bridge |
| Scene cache and event feed | `crates/scene-cache`, `mcp-server/src/sync.rs`, `dispatcher.py` `emit_event` | the add-on's revision counter; the broadcast channel; the pump's current session; the cache's session, window, current revision and horizon | emit, publish, lag, begin session, apply, diff | fed by the read loops; read by `scene.diff` |
| Scene watch and diff | `blender_extension/events.py`, `scene-cache/src/diff.rs` | what the add-on saw last: names by id, selection | report after a dependency graph update, reset on load and undo; fold the reports | produces the feed's events; folds them |
| Batches and transactions | `mcp-server/src/tools/batch.rs`, `operations/batch.py`, `operations/transaction.py` | per call the operation it is at and the report; in the add-on one open transaction and Blender's undo stack | execute in three modes, coalesce, resolve references; begin, step, commit, rollback | the bridge; Blender's undo |
| Workflow engine | `crates/workflow-engine`, `mcp-server/src/tools/workflows.rs` | per run the steps done, what they made and a stack of compensations | step, optional step, compensate, nest, roll back | the bridge, one call after another |
| Objects and collections | `operations/object.py`, `collection.py`, `_common.py` | parents, links, the tree of collections, what is hidden, excluded, selected | create, duplicate, delete, parent, join, separate, link, move, exclude | Blender; the user works in the same scene |
| Stable ids and mesh revisions | `ids.py`, `operations/mesh.py` | an id on each datablock, a name index, a revision on each mesh | ensure, find, bump, check what a caller expects | every handler; Blender renames, copies and undoes beside it |
| Operation handlers | `blender_extension/operations` | Blender's own data | one request each, to the end, on the main thread | Blender |
| Payloads | `crates/blender-protocol` | none | decode and validate, before anything is sent | the registry, the handlers |
| Tool registry | `mcp-server/src/registry`, `server.rs` | which categories are enabled; who has to be told | enable, disable, list, call | the MCP client |
| Managed artifacts | `mcp-server/src/artifacts.rs`, `tools/render.rs`, `tools/uv.rs`, `tools/io.rs` | a directory and a bounded index of what was written to it | allocate a name, send, register, list, read | Blender writes the files |
| Asset download and cache | `asset-providers/src/download.rs`, `http.rs`, `tools/assets.rs` | a directory per asset variant, with a manifest | look up, fetch file by file, move into place, write the manifest | web services |
| Asset providers | `polyhaven.rs`, `sketchfab.rs`, `credentials.rs` | credentials | search, plan a download | web services |
| Mathematics | `crates/blender-domain` | none | framing, lighting, node graph layout and checks | workflows, tools |
| Startup and configuration | `main.rs`, `config.rs`, `errors.rs`, `addon.py`, `panel.py`, `preferences.py`, `compatibility.py` | settings | read, construct, register | everything |

### 1.2 How they interact

A tool call becomes one or more `execute` calls. Each takes the session handle out of the
slot, registers a oneshot sender in the registry, queues a frame on the session's bounded
channel and waits with a deadline. The write task puts the frame on the connection; the
add-on's reader puts the request into the inbox; the pump takes it on the main thread,
runs the handler and posts the response to the outbox; a writer thread puts it on the
connection; the server's read loop looks it up in the registry and completes it.
Unrequested events go the second half of that way, and then through a broadcast channel
to the task that keeps the scene cache. A batch holds a transaction open in the add-on
over many such calls; a workflow keeps its own list of how to undo each call it made.

### 1.3 What is hard

- **Concurrency on the server**: Tokio runs callers, connection tasks, write tasks and the
  event pump at the same time; the slot, the registry, and the cache each have their own
  lock, and `execute` reads the slot before it registers. Two connections overlap whenever
  the add-on reconnects before the server has noticed the loss, and the handshakes of
  two connections may finish in either order.
- **Concurrency in the add-on**: bridge thread, writer threads and main thread share two
  mailboxes that belong to no connection, so a new connection inherits what an old one left.
- **Failure**: connections die on either side and are noticed at different times; frames are
  lost in sockets; full queues refuse or drop; a deadline passes while Blender is still
  busy, and the request runs later all the same; Blender is restarted and counts from zero.
- **Partial failure**: a batch or a workflow stops half way and must take back what it did,
  through an undo stack it shares with other batches and with the user.
- **Derived state**: the diff a caller reads is folded from reports of differences to a
  baseline, sent through queues that evict, lag and restart.
- **A second hand on everything**: names, indices, selections, files and directories are
  shared with Blender, with the user and with other calls, none of which ask.
- **Half-done handlers**: some 220 handlers check, change, borrow and give back in an order
  each author chose, and an exception may come from nearly every line.

### 1.4 What makes each part correct

- *Bridge*: a call is run at most once; an answer is true (a result only for what ran,
  "not connected" and "rate limited" only for what never will); every call returns; the
  live connection is the one used; a lost connection fails its waiters.
- *Feed*: a diff that is answered is complete; the record never mixes sessions.
- *Watch and diff*: the fold of the reports is the exact difference of the two scenes, or
  says that it is not.
- *Batches*: a rollback that reports success left nothing; operations run once and in order,
  none after a failure that stops the batch; the report is the truth; references are
  resolved before use; transactions are closed by who opened them; every batch ends.
- *Workflows*: after a reported complete rollback nothing the workflow knows of is left;
  the report lists what exists; an exported file passed the checks; a failed run makes
  nothing more.
- *Objects*: hierarchies are trees, no object drops out of every collection, and the user's
  selection survives what a handler borrows it for.
- *Ids and revisions*: an id names one datablock whatever was renamed; a revision a caller
  holds lets its indices through only on the topology they were read from.
- *Handlers*: an argument is refused before anything is written; what was borrowed comes
  back; the revision tells of every success and of no failure; a read writes nothing.
- *Registry*: a call of a tool that has been disabled is refused; a change is announced.
- *Artifacts*: what the index shows is overwritten only by calls that overlapped; a success names
  all that it wrote.
- *Downloads*: a cached file is one version, whole; an answer from the cache is on the disk.

## 2. The modules

    RequestReply     what a caller may rely on              (abstract)
      ^  implemented by
    Bridge           BlenderClient + AddonBridge, over Link
    SceneFeed        add-on outbox .. cache, over RevisionHistory
    SceneWatch       the add-on's reports and their fold, over SceneDiff
    Batch            batch.execute over Transaction
    Workflow         a run of the engine, over WorkflowPrograms (the workflows themselves)
    SceneTree        objects, collections and selection under the handlers
    Datablocks       ids, names, mesh revisions under the handlers, Blender and the user
    Handling         one tool call end to end, for a table of tools
      StageOps LookOps ShapeOps FileOps MotionOps    the table, written with Steps
    Downloads        the asset cache         \  together in MCFiles: two roots that
    Artifacts        the files Blender writes /  share nothing

`MC*` modules add only what an instance needs (symmetry sets, plans, tables, an initial
state for liveness); `*_proof` modules hold the theorems. Each level stands on what the
level below it was shown to promise and is not composed with it: `SceneWatch` takes reports
in order and without loss, because what is lost is `SceneFeed`'s question; `Batch`,
`Workflow` and `Artifacts` take a request as run once or never with a caller who may not
know, which is what `Bridge` implements; `SceneTree` and `Datablocks` take a handler as one
step on what it keeps, and `Handling` takes the same handlers apart and keeps nothing else.

### 2.1 Bridge

| In the model | In the code |
|---|---|
| `slot`, `Install`, `ClearSlot` | `SessionSlot.current`, `replace`, `clear_if` (`session.rs`) |
| `pending`, `held`, `FailSession`, `Cancel`, `ReceiveResponse`, `PutBack` | `PendingRequests`; `complete` takes an entry out under one lock and, when it belongs to another session, puts it back under a second, which is why there are two actions and the variable `held` |
| `pc`, `session`, `answer`, `Require` ... `TimesOut` | one call of `BlenderClient::execute`; each action ends at an await or where a lock is released |
| `task`, `superseded`, `Accept` ... `AbortWriter` | the task that runs `handle_connection` |
| `writer`, `outbound`, `Write`, `WriteFails`, `WriteLoopEnds` | the write task and its channel; `HasSender` counts the handles that keep the channel open |
| `inbox`, `outbox`, `Post` | the two mailboxes, `Mailbox.put` with its timeout |
| `writers`, `WriterSends`, `WriterFails` | `_write_loop` threads, which survive their connection while the outbox is empty |
| `Dial`, `ReadRequest`, `RefuseRequest`, `Drop`, `Stop`, `Pump` | `_connect_once`, `_read_loop`, `Bridge.stop`, `dispatcher.pump` |
| `link`, `toBlender`, `fromBlender` | which connection the add-on holds, and the bytes in the two directions |

The wire carries whole messages in order; a broken or oversized frame ends the connection,
which is what the framing code does. A frame written to a connection that the add-on has
left goes nowhere. `Stop` stands for the user's disconnect and for Blender going away.
Calls and connections are used once each, so no counter needs a bound.

### 2.2 SceneFeed

`Change` is `bump_revision` followed by `emit_event`; `ChangeUnseen` is a bump without an
event (an operation's own, or a full outbox). `Publish` is the read loop's check of the
event's session and `broadcast::Sender::send`, which overwrites the oldest event when the
channel is full; `missed` holds what was overwritten until the pump hears of it in
`Lagged`. `BeginSession` and `Apply` are the two halves of the pump's body in `sync.rs`,
each of which holds the cache's write lock throughout and is therefore one step.
`RevisionHistory` is the window itself: `PushAt`, `Observe`, `Reset`, and `since` as the
pair `Answered` and `Since`. `published` is a history variable, the measure of completeness.

### 2.3 SceneWatch and SceneDiff

`objects` is Blender's scene: the objects there are, each with its name and its `mcp_id`.
Names are unique. Ids are not: an object the user makes (`Create`) has none, and a copy the
user makes (`Copy`) bears the original's, since custom properties go along. `Tick` is
`on_depsgraph_update`: structural changes against `snapshot`, datablock updates, selection, in
the code's order, with the ids given out on the way (`Ensured`, which is `ensure_id`).
`Seen` is `_snapshot_objects`, a dict keyed by id: of the objects that share an id it has the one
that `bpy.data.objects` lists last, which is the one whose name sorts last. `Reload` is a file
load or an undo. The initial baseline is that of any scene, because the add-on keeps its
baseline while disconnected. `SceneDiff` folds reports as `diff.rs` does. Reports about different
objects within one call are put in an arbitrary fixed order: the fold does not depend on it.

### 2.4 Transaction and Batch

`Transaction` is the add-on's single open transaction on Blender's undo stack. The stack is
external and modelled by what the add-on relies on: a push remembers the present scene, and
an undo restores the scene below the top whatever was done since the top was pushed. (If an
undo only dropped unpushed changes first, the violation below would still occur whenever the
failing operation leaves nothing behind.) `Batch` has the server's loop (`Refuse` ...
`Closed`, one action per await), the bridge (`Fail`, and the answer that `Answer` may lose),
and the add-on, which runs one request after another and each run one operation at a time
(`Transact`, `RunNext`). An operation is known by what the loop asks of it: whether it can
share a frame, whether its arguments are valid, whose results it needs, whether it writes
outside the file. It succeeds, fails, or fails with half of its effect left behind.
`inbox` is everything from the server's channel to the add-on's mailbox, because the
mailbox keeps its order over reconnections. A request whose caller has given up stays in it
with `heard = FALSE`, runs in its turn, and its answer finds nobody.

### 2.5 Workflow and WorkflowPrograms

`WorkflowPrograms` writes each workflow of the engine as the sequence of steps its body
takes: a call of an operation, a check of the server's own, a report, or another workflow
(`Nest`). `Make` is `Run::created_object` and its like (an answer without an id fails the
run), `MakeIfKnown` the bodies that say `if let Some(id)`. What an operation makes is named
by its role, and lists of segments or copies by their index. `Workflow` runs one program:
`runs` is the stack of `Run`s with their `compensations` and `created`; a call is carried out
or not and answered or not (`Answered`, `AnsweredWithoutId`, `CallFails`); a step after a
failure is skipped (`Skip`), `Enter` and `Leave` are the call of a nested workflow, made with
the same executor and without a rollback of its own, and `Adopt` is what its parent takes
over. `Undoing` takes compensations off the end, each tried once. `known` is history: the
things whose id reached the engine. The export workflow carries the problems a mesh has, the
fixes that mend them and the rule that blocks an export (`CheckObject`, `BlocksExport`).

### 2.6 SceneTree

The operations of `object.py` and `collection.py` on what they share:
`parent`, `home` (the collections an object is linked into), `tree` (the collection a
collection is in), what is hidden or excluded, and the selection. Every handler is one
action, since it runs to its end on Blender's main thread; one that raises half way leaves
what it did, which is a disjunct of its action. The user selects, hides and excludes between
calls. External is only what Blender does of itself: a view layer that loses an object
forgets that it was selected (`Select`), and a deleted parent leaves its children without one.

### 2.7 Datablocks

`file` is what Blender saves and undoes: names, id properties, which mesh an object uses,
the topology of a mesh (a number, new for every change) and its revision. `index` is
`ids._CACHE`, `Finds` the lookup with its one rescan, `Told` the ids given out with an answer.
`Edit` and `Touch` are a `MeshEdit` session that can change the topology and one that cannot;
each of `mesh.*` is one of the two with the arguments the server lets through. The handlers
that make, copy, separate, join, rename and delete objects are here too, and Blender and its
user: rename, copy (the id goes along), undo, edit while nobody is connected, and the
dependency graph update that raises the revisions of what was reported as changed. `held` is
history: revisions callers were told, with the topology they were read from.

### 2.8 Handling and the tables of tools

`Steps` is the vocabulary of a handler: it *needs* an argument, *finds* something in the
file, asks *Blender*, *writes*, *bumps*, *borrows* what is the user's and guards a block
with a `finally`. The tables (`StageOps` scenes, the selection, cameras, lights,
rendering; `LookOps` materials, node graphs, UV maps, images, baking; `ShapeOps` objects,
collections, meshes, modifiers; `FileOps` import, export, files; `MotionOps` animation, rigs) give each of the 222 tools that
forward to the add-on its registered kind, what the server's `validate` refuses, and the set
of runs its handler can make, in the order of its lines. `Handling` runs one tool with at
most one wrong argument: decoding and validation (`Refuse`, `Forward`), the steps one by one,
and an exception unwinding the open `finally` blocks (`Unwind`). Values are abstracted to
"the argument the caller got wrong"; consecutive writes with checks between them are written
as one write before the later checks, which can only make a late check more visible.
Known exceptions are constants of the instance (`KnownLate`, `KeepsSomething`, `NoBump`,
`LookForTheirBone`, `WritingReads` in `MCHandling`), each of them a deviation listed in section 5: the run shows
that there are no others.

### 2.9 Downloads and Artifacts

`Downloads` is `Downloader::run` for calls that meet in one directory: plan, read the
manifest, look at one file of it after the other (`CheckFile`, one awaited stat each), fetch into the temporary name, chunk by chunk, move into place,
write the manifest. Files are inodes, because a call that has a file open writes on in it
when another has moved it. The provider publishes new versions of equal size, the user
deletes files, the server restarts, requests are refused or break off. `Artifacts` is the allocation of a
free name, the wait of the call in Blender's queue, the writing of its files one by one (`Outputs`: one,
or one per frame, or an export and what its format keeps beside it), the answer, which for an
export is the destination alone (`Produced`), and the bounded index. A caller that gave up or a
server that restarted does not stop Blender. Of each call it is history which calls had
succeeded (`past`) and which had been sent (`sent`) when it was given its name.

## 3. The runs

The first four passing runs and `batch` check a type invariant beside the properties named
here. Where deadlock is not checked, the reason is given; for `workflows`, `objects`,
`datablocks`, `handlers` and `files` it is always the same: what is modelled comes to an
end, as a workflow, a tool call or a bounded number of calls does.

### bridge_safety (`MCBridge`, `MCBridge_safety.cfg`)

Two calls, two connections, every queue of length one, symmetric in calls and
connections. `LiveSessionKeepsSlot`: the teardown of an old connection never empties the
slot of the one that replaced it. `UnansweredHasEntry`: nothing but its own answer, failure
or cancellation takes a caller's entry out of the registry, the two locks of `complete`
included. `RequestInv`: a request exists in one copy and every answer about it, wherever it
is, is true. `KeepsPromise`: the bridge implements `RequestReply`. Two of each is what the
interesting cases need: an old and a new connection, a response that arrives on the wrong
one, two requests in a queue that holds one. The proofs below are for any number. The system
may stop here, when calls and connections are used up, so deadlock is not checked.

### bridge_liveness (`MCBridge_liveness.cfg`)

`EveryCallReturns`: a call that has a session handle gets an outcome, although the wait for
room in a full channel has no deadline. `SlotFollowsLink`: a connection the add-on keeps
for good is the one in the slot for good, although two handshakes may finish in the wrong
order. The run starts from two states, each reachable, in which one call or one connection
has been used up (`LiveInit`), which keeps the graph small enough for liveness.

*Fairness.* Weak fairness for each started call (Tokio polls it, its deadline fires), each
connection task (a task reads what has come, and learns of the end only once the connection
is really down), each write task (which drains a live connection's channel, and ends with
its last sender), and for the add-on noticing that the server has shut its end. None for a
call starting, a connection being made, or the pump running: Blender may be busy for ever.

### feed_diff (`MCSceneFeed`, `MCSceneFeed_diff.cfg`)

`DiffComplete`: an answered diff lists exactly the events of its session and range that the
pump has received. `OneSessionInOrder`: the record is of one session and increasing. Two
sessions, four revisions, a window of two, a channel of two and an outbox of one: each bound
is exceeded on some path, so events are evicted, overwritten and dropped, and a late event of
the replaced connection arrives between those of the new one. Completeness is measured
against what the pump received: the add-on calls its events advisory and drops them when
its outbox is full. The add-on stops when the numbers are used up, so deadlock is not checked.

### scene_diff (`MCSceneWatch`, `MCSceneWatch_diff.cfg`)

`DiffIsTheDifference`, `StaleMeshesAreNamed`, `SelectionFollows`: an answer that does not
say reset is the exact difference, names every stale mesh and gives the selection. All three
speak of ids, which is how a caller knows objects: those that share an id are one to them. Two
objects, two ids, two names, up to two actions of the user between updates and three reports
after the snapshot, from every scene and every baseline: enough for create-rename-delete in one
range, in one update or in three, for a name that passes from one object to another, for a copy
that is renamed or outlives its original, and for a stale baseline. A diff that has said reset
says so for good and asks nothing more of the properties, so that the constraint `NotReset`
leaves out what follows one. The record of reports is bounded, so deadlock is not checked.

### batch (`MCBatch`, `MCBatch_batches.cfg`)

`RolledBackIsGone`, `OperationsRunInOrder`, `StopsAtTheFailure`, `ReportCoversTheBatch`,
`ReferencesAreResolved`, `ClosedByOpener`, `EveryBatchEnds`. Two batches, each any of five
plans of two or three operations: atomic with a run and a reference to it, atomic with an
operation that must be refused, stop-on-error, best-effort with a forward reference, and
best-effort with refused arguments beside a server-side tool. One call fails or is never
heard of, one action of the user falls anywhere, and every operation may fail cleanly or
half way. Two batches are needed because the add-on does not ask who sent a commit or a
rollback; three operations are the least with a run followed by a single one. Deadlock is
checked. *Fairness*: the add-on's timer and each batch's task keep running; nothing makes a
call fail. `RolledBackIsGone` leaves out batches in whose transaction the user worked:
Blender pushes boundaries of its own that nobody counts, and there it does not hold.

### batch_rollback (violation, disagreement 1)

No fault and no user is needed.

### workflows (`MCWorkflow`, `MCWorkflow_all.cfg`)

`CompleteRollbackLeavesNothingKnown`, `ReportedEntitiesExist`, `ExportedFilesPassedTheChecks`,
`NothingIsMadeAfterAFailure`. Every workflow with every choice a request makes, wall runs of
two and of three segments; every call may fail before or after it was carried out, or answer
without an id, and every compensation may fail, with or without effect. One run at a time: a
workflow shares nothing with another but Blender. `RigCollection` and the bone influences
are the exceptions the properties name, section 5 says why.

### objects (`MCSceneTree`, `MCSceneTree_calls.cfg`)

`HierarchiesAreTrees`, `EveryObjectIsInACollection`, `SelectionIsTheUsers`. Three objects, two
collections beside the scene's own, up to seven calls or actions of the user, calls that name
up to two objects. Three objects are the least for a cycle that no single call closes, two
collections for one inside the other; the properties are about what a sequence of calls,
each legal, adds up to.

### datablocks (`MCDatablocks`, `MCDatablocks_calls.cfg`)

`IndicesAreGoodUntilReload`, `IdsStayWithTheirObject`. Two objects, two meshes, three names,
three ids and any four calls or doings of the user, with dependency graph updates in between at no
cost. Three names let a name move from one object to another under an old index; four
calls are: read, change in two ways, and look again. Symmetric in objects, meshes and names.

### handlers (`MCHandling`, `MCHandling_tools.cfg`)

`ArgumentErrorsWriteNothing`, `UserGetsBack`, `RevisionTellsOfSuccess`, `ReadsWriteNothing`,
and `HandlerIsInOrder`, which is read off the lines of a handler without running it: an argument
is looked at for the first time before the first write, what is the user's is borrowed inside a
`try` that gives it back, the revision is advanced once nothing can fail any more (but for the
look some tools then take for the bone they made), and a read has no writes. The four follow from it (section 4), so that whoever adds a tool sees in its row
alone whether they still hold. Each of the 222 tools with every argument wrong in turn and with none, on every run of its
handler, with Blender and the file refusing wherever they may. A call is finite and the
tools do not interact here, so there is no bound. Lists are of two items, so that the second
meets what the first one did.

### sound_requests (violation, disagreement 2)

The same instance, all arguments right.

### files (`MCFiles`, `MCFiles_all.cfg`)

`WholeUnlessShared`, `HitsAreTrue`, `OnlyOverlappingCallsOverwrite`, `SuccessNamesEveryFile`. Three
downloads of one variant with two files of two chunks in two versions, and one mishap (a new
version, a deletion, a restart): two files are needed for a stop between them, or for one that
goes while the other is looked at, two chunks for a stop inside a file, and the third call to
read what two that interfered have left. `HitsAreTrue` is about every file a look has passed, hit or
not yet; what the user deleted after the look is the exception it names. Three calls that produce
files, of two frames or an export with one file beside it at most, stems that collide with a
frame's name, one restart, an index of two: a third call is the retry of one that timed out
behind another. `OnlyOverlappingCallsOverwrite` says what the search for a free name is good for
although the look comes long before the file, and that is what happens across calls: an entry
of the index is never overwritten by a call sent before its own was named, nor by a still named
after it had succeeded. Calls that overlap may get one name and overwrite each other; the property leaves those
to them. The two halves are run side by side and never together, since they share nothing; hence
calls and callers are three of the same values, and symmetric.

## 4. What is proved

The `*_proof` modules are checked to the last leaf by TLAPS, from the assumptions the modules
declare: the sentinel `None` is no call, connection, session, batch, object, collection, id or
file (not the scene's own collection either), and no mark and no selection of the watch; the
scene's own collection is none of the others; every capacity is a positive natural number;
a plan of a batch has one of the three modes and a finite list of operations; a plan of a
download is a set of files that is not empty; a stem is a sequence of suffixes; a run of a handler
is a finite sequence of steps; and the ids of `SceneWatch`, and the objects and ids of
`Datablocks`, are finitely many. `ProgramsAssumption` says how the bodies of workflows are written; TLC
evaluates it for the eleven there are.

Every invariant and every action property of a passing run is a theorem but for
`HandlerIsInOrder`, which is a fact about the tools there are. `Tools_proof` holds the theorems
of `Downloads`, `Artifacts` and `Handling`; each other `*_proof` module is named after its
component. The induction over data the proofs need is done by hand, since the induction
theorems of the library take an operator: a least counterexample, which exists because `<` is
well-founded on the natural numbers (`LeastNat` in the modules that need it).

**Bridge** (any sets of calls and connections, any queue bounds).
`TypeCorrect`: `Safety => []TypeOK`. `SlotSafe` and `EntrySafe`: the two slot and registry
properties. They are inductive together with one more fact, `FreshTasks` (a connection task
supersedes no one before it installs its session), whose need shows at `Install`: the
new session's predecessor is whatever was in the slot, and it must not be a session yet to
come. `RequestsSafe`: `OneCopy` and `Truthful`, whose conjunction `RequestInv` is inductive
relative to the types. The single copy is needed for the truth: a request refused by a full
inbox never runs only because no other copy of it is on its way; and the truth of answers in
queues is needed for the truth of what callers return. `Refines`: each step of the bridge
is a step of `RequestReply` or leaves its variables alone, using both invariants: `Pump`
is an abstract `Run`, a caller's last step an abstract `Finish`, and the invariants say that
a run request was open or given up on and that an outcome "ok" was run.

**SceneFeed** (any number of sessions and revisions, any capacities). `FeedTypeCorrect`,
`AnsweredDiffsAreComplete` (`DiffComplete`) and `RecordInOrder` (`OneSessionInOrder`) follow
from `FeedInv`, which says in which order events are at each stage: an event belongs to a
session that was opened and is not ahead of the add-on's counter (`AllOwned`); outbox, wire
and channel are increasing within a session and each stage is behind the next one
(`Upstream`, `Downstream`); and an event the pump received is in the record, or no later
than the horizon and earlier than all the record holds (`Recorded`). The last part is the
heart: it is preserved by an eviction because the evicted entry is the earliest, by a
reset because the horizon moves to the counter, and by the start of a session because
what was received of it earlier is below the new horizon.

**Batch** (any number of batches, any plans, faults and actions of the user).
`BatchTypeCorrect` rests on `Batch_proof!Single`: a caller has at most one request that is
still to be answered to it. That a run has a last operation (`RunEndType`) needs the greatest
element of a set of numbers, which `LeastNat` gets from the well-foundedness of `<`; what
taking a request out of the queue does to the others is `Drops`, a map of positions that
keeps the order. `TransactionsEndWithTheirOpener` (`ClosedByOpener`) is by `OwnedInv`: the
add-on asks nobody's name, but a batch sends a step, a commit or a rollback only once its
own begin was answered, a begin is alone among the requests of its batch and an ending is
the last of them, even if the caller has given up on those before. `RolledBackBatchesAreGone`
(`RolledBackIsGone`) is by `CleanInv`: the stack below the boundary that begin pushed holds
nothing of the owner (`ScenesInv`), no matter how many boundaries others push above it, since
each adds one to `steps`; and a caller that was told of a successful rollback has no request
left anywhere that could still run (`ToldInv`).
`BatchesRunInOrder`, `BatchesStopAtAFailure`, `ReportsAreComplete` and `ReferencesResolve`
(`OperationsRunInOrder`, `StopsAtTheFailure`, `ReportCoversTheBatch`, `ReferencesAreResolved`)
are one induction, `AllInv`: for each batch, where its requests lie and how far they reach
(`SentInv`), what an answer it has not looked at yet says of what has run (`AnswerInv`), what has
run and with which outputs (`RanInv`), and the report (`ReportInv`). A caller that gave up may
still have its request in the queue, so that operations run after the report of a batch has
given them up as lost. What saves the order is that requests of a batch lie in the queue in the
order of their operations; what saves the stop at a failure is that a batch that does not carry
on sends no operation after a lost answer.

**SceneWatch** (any objects, ids, names, limits and number of changes). `WatchTypeCorrect`;
`DiffsAreExact` (`DiffIsTheDifference`), `EditedMeshesAreNamed` (`StaleMeshesAreNamed`) and
`SelectionsAreFollowed` (`SelectionFollows`) by `WatchInv`: between two ticks, what a diff would
answer is right for the scene at the mark, with the meshes reported so far (`Tells`), and the ids that
went away since the caller's snapshot have not come back behind the watch's back
(`NoneCameBack`), which a copy could only bring about from an object that is still there. The
answer is about names by id, as the watch has them; that it is the difference of the two scenes
is then a matter of what `Seen` picks, one of the names of the objects with an id. The answer is a fold over the changes of whatever number. That it takes one
change after the other is shown of the recursive function `FoldLeft` is defined by, which
exists (`Folds`) and cannot differ for two sequences at the first place where they still agree
(`FoldsAgree`). Each event of a tick is then one step that keeps `Tells`, whatever the order in
which the objects are reported.

**Workflow** (any workflows written as `ProgramsAssumption` says, one running another to whatever depth).
`CleanRollbacksAreClean` (`CompleteRollbackLeavesNothingKnown`), `ReportsAreTrue`
(`ReportedEntitiesExist`), `ExportsAreChecked` (`ExportedFilesPassedTheChecks`) and
`FailuresStopTheMaking` (`NothingIsMadeAfterAFailure`) by `WorkflowInv`: all runs but the last are at
the step that runs the next one, and of one that has not failed, what it has come past is
still true (`StackInv`); all that is known is held by one of the runs on the stack, to be
compensated by the outermost or handed over when its run ends (`KnownInv`); and while a
rollback is under way, what is known and still there is yet to be undone, or is among the
failures (`LeftInv`). The exceptions are the ones the properties name: a file, and the
collection of a nested rig.

**SceneTree** (any objects, collections and calls). `NoObjectIsLost`
(`EveryObjectIsInACollection`): unlinking puts an object that would lose its last collection
back to the scene's own, and deleting a collection moves what it held to the collection above it,
which is still linked. `SelectionStaysTheUsers` (`SelectionIsTheUsers`): by `SelectedInv`,
that what is selected can be seen, so that a call that keeps the selection takes from it
exactly what goes out of sight. `HierarchiesStayTrees` (`HierarchiesAreTrees`): by `TreeInv`, that
each hierarchy has a rank, a number that is lower for the parent than for the child. A tree grows at
a leaf and shrinks by any set of nodes that are nobody's parent or whose children are moved up; and
moving a node is safe exactly because the code walks up from the new parent and refuses
when it meets the node (`TreeMoves`): the nodes the walk does not go through keep their rank, the
moved node and those below it get one above the new parent's. `Above`, the walk, is shown to be what
climbing one step at a time reaches, by a least counterexample.

**Datablocks** (any objects, meshes, names and number of calls). `RevisionsVouchForIndices`
(`IndicesAreGoodUntilReload`): a revision a caller holds is the present one of its mesh or lower
(`HeldInv`), and every step either leaves a mesh's topology and revision as they are or raises
the revision (`Careful`); that a report raises it for every mesh it names needs that the caller's
object has an id. `IdsLeadToTheirObject` (`IdsStayWithTheirObject`): of an id that nobody copied
there is one bearer among the objects there are, those an undo would bring back and those
callers were told of (`OneBearer`), which is why the index may be as old as it likes. A handler
is a file derived from the present one (`Derived`), to which ids are then given (`Told`): both
parts of the invariant are shown once for that form (`CallKeeps`), and the proof of a handler is
that it has it.

**Downloads** (any calls, files, chunks, versions and mishaps). `CachedFilesAreWhole`
(`WholeUnlessShared`). Seven facts go into the induction beside the property: types (`TypeInv`);
a file's two names are of two inodes made for that file (`NamesInv`); who writes has a file of
its plan open, in some version (`OpenInv`); a call has used no inode for a file that it has yet to
fetch (`FreshInv`); who writes alone has the temporary name and wrote all that is there
(`AloneInv`), of two with the same file open neither is alone (`SharedInv`), and what has the
temporary name of an open file is what is being written, or shared (`PartInv`). Moving a file
into place then moves a whole version. Steps that leave open files alone are dealt with at once
(`Calm`); opening and writing are the two that are not. `TheCacheIsTruthful` (`HitsAreTrue`) adds
`KnownInv`: what a call has fetched, and what a manifest says that was written or read, is of an
inode that has lost its temporary name for good and holds that version under the file's
own name, unless it was shared or replaced since (`Kept`). A manifest is moved into place by a
call that is over by then, so that nothing it says can still be on the way (`Recorded`); and that
`Kept` stays true of an inode is all that has to be shown of each step (`KeptStays`). A look at a file
then finds the version the manifest says, and what a later step can do to that is replace the
file, which `Kept` allows for, or delete it, which the property does.

**Artifacts** (any calls, frames, names, capacity and restarts). `AnswersNameEveryFile`
(`SuccessNamesEveryFile`): the queue holds a call once and only one that was sent
(`QueueInv`), a call that Blender has not begun has written nothing (`UnbegunInv`), and a
call that was answered was told all its files but those beside its destination (`ToldInv`), because the
answer is taken when all of its outputs were written by itself. `OnlyOverlapIsOverwritten`
(`OnlyOverlappingCallsOverwrite`) adds `OverlapInv`: what a call knew of the others when it was named
stays so (`HistoryInv`); the queue keeps the order of sending, so that who was sent before a call
was named runs before it, and has run once that call is answered (`OrderInv`); what Blender has
written for the call it is at shows that call (`ShotInv`), and so an answer when it is taken
(`TakenInv`); and a still writes where it was allocated, which no answer of those that had succeeded
names (`StillInv`): for what those answers name is on the disk (`OnDiskInv`), and among finitely many files
one of the numbered names is free and the search stops at the least of them (`FreeNameIsFree`).

**Handling** (any table of tools, with runs of any length). `ArgumentErrorsAreHarmless`
(`ArgumentErrorsWriteNothing`), `TheUserGetsEverythingBack` (`UserGetsBack`),
`RevisionsTellOfSuccess` (`RevisionTellsOfSuccess`) and `ReadsAreReads` (`ReadsWriteNothing`),
each of the form `Spec /\ []HandlerIsInOrder => []P`: whatever the handlers do, if each is written
in that order, no failure at any of its steps can break the property. The hypothesis is what TLC
finds true of the 222 tools in the repository, with the exceptions named in the constants
(`FoundLate`, `NotGivenBack`, `LeftToTheEvent`, `LooksAgain`, `ReadsThatWrite`). `CallsAreInOrder` is the
induction, `HandlingInv`: where the call is in its run (`CallInv`); it has bumped exactly
if a bump lies behind it, and written only if a write does, and no step behind it checked the
argument that is wrong (`SoFarInv`); an answer was given at the step that raised it (`EndInv`); and the
`try` blocks that are open are the ones the lines say are open there, with all that is borrowed
in one of them (`BlocksInv`). So the first check of a wrong argument is the one that raises, and
it stands before any write; and unwinding gives back what each open block lists until nothing is
left. `BlocksOf`, the nesting of blocks along a run, is a recursive function; that it steps as it
is written is shown by a least counterexample (`BlocksStep`).

**Only model-checked.** Liveness (`EveryCallReturns`, `SlotFollowsLink`, `EveryBatchEnds`) is
out of the prover's reach. `HandlerIsInOrder` is about one table of tools, which TLC goes
through to the end: what a theorem can add is what follows from it for any table, and that is
proved. That the bodies in `WorkflowPrograms` are what
`ProgramsAssumption` says is likewise evaluated, not proved. The two runs that TLC must find
violated have no theorem, of course, nor do the findings kept in configurations beside the project.

## 5. Where documentation and code disagree

The first two are runs that TLC must find violated.

1. `batch_rollback` / `RollbackStopsAtTheStart`: a rollback undoes once more than there are
   boundaries above the start, while `docs/TRANSACTIONS.md:72` says undo back to that point.
2. `sound_requests` / `SoundRequestsPass`: `tools/io.rs:51` says that `io.export` exports the
   scene or the selection, but the bare strings the server sends for the two are refused by
   the add-on, and so are the keyframe targets without fields (location, rotation, scale, hide).

The following six can be seen with a configuration beside the project; TLC reports the named
property violated (with `-continue` when a configuration names two).

3. `MCBridge_findings.cfg`, `WaitersFailedExplicitly`: a call that took its session handle
   before the teardown and registers after it waits for its whole deadline, while
   `pending.rs:5` says every waiter is failed explicitly.
4. `MCBridge_findings.cfg`, `RepliesReachTheSession`: a writer thread of a dead connection that
   was waiting on an empty outbox takes the next reply and loses it, with the new connection
   up, while `docs/ARCHITECTURE.md:90` has one writer.
5. `MCSceneFeed_findings.cfg`, `AppliedEventsAreReported`: after Blender restarts and numbers
   from zero, new events are recorded below the cache's counter, so a diff from the counter is
   answered without them, while `docs/ARCHITECTURE.md:179` says `REVISION_EXPIRED` rather than
   an incomplete answer. Same configuration, `LagExpiresDiffs`: after a lag a diff from the
   present counter is answered, and empty, while `sync.rs:44` says that the next diff is
   forced to report expiry.
6. `MCSceneWatch_big.cfg`, `BigScenesAreSuspect`: above the limit nothing is reported after the
   first reset, while `events.py:30` says a coarse invalidation is sent instead.
7. `MCDatablocks_undo.cfg`, `StaleIndicesAreRefused`: an undo takes the mesh and its revision
   back, so that a later edit reaches a number a caller holds for another topology; an edit
   while nobody is connected raises no revision at all. `mesh.rs` promises a clean error for
   stale indices.
8. `MCFiles_asked.cfg`, `AnswersWhatWasAsked`: for Poly Haven the variant in the cache's key is
   the resolution only (`polyhaven.rs:302`), so a request for other maps or another format at
   a resolution that is there is answered with the earlier files, while `asset.rs:170` says the
   request chooses which maps to fetch.

What else came up, by module, each with the name under which the model has it where it does:

- *Workflow*. Bone influences are never counted (`TOO_MANY_INFLUENCES`: `object_report` passes
  none), though `workflows.rs:189` says they are checked. A wall run, a studio camera, a
  modifier or a collection whose creation answers without an id is left untracked and silent,
  while `docs/TRANSACTIONS.md` has a workflow that cannot track fail loudly. A wall run that
  fails without rollback leaves its surviving walls out of `created`. The collection of a rig
  nested in the studio outlives a rollback reported as complete (`RigCollection`). The studio
  goes on to the lighting after a failure (`Enter`). The triangulate fix and `pack_textures` do
  nothing. A workflow's calls go through the registry (`workflows.rs:47`), which decodes and
  validates them and whose `io.export` adds path and format, so that the export step
  is refused only for the form of its selection (disagreement 2); but the registry is not asked
  whether the category is enabled, and operations that are no tools go to the bridge unvalidated. Every workflow is registered as a write, also
  the ones that render or export, so an atomic batch accepts them.
- *Batch*. `batch.rs:9` and `docs/TRANSACTIONS.md:105` have the whole batch validated, against each tool's
  schema and for its references, before any of it runs. Up front the code looks only for the names of the
  tools and, in ATOMIC mode, their kinds (`batch.rs:112`); arguments and references are looked at when
  the loop gets to their operation, so that those before it have been applied (`MCBatch` has plans with
  arguments to be refused and with a forward reference).
- *Watch*. The copy a user makes of an object keeps its id (`Copy`; the add-on's own duplicate takes it
  off, `object.py:532`), and the watch has one name for each id (`Seen`, `events.py:37`): the copy is
  never reported as created, at most as a new name of the original, and the original that is deleted is not
  reported as long as a copy is there, while `events.py:11` says that creation, deletion and renaming
  are detected by comparing ids and names. `DiffIsTheDifference` is about ids and counts them as one.
- *Arguments refused after a write* (`KnownLate`). Forbidden and underscored node properties;
  a modifier's target or common properties; a bad cursor of a node list that switched the tree
  on; the view transform in render settings; the colour space of a loaded image; an update of
  the world with nothing in it; a relative quaternion; the display type of an empty and of an
  armature; the extrapolation of a curve; target, subtarget and chain length of a constraint
  that has none. Later than that, and a matter of what the file has: `io.import`'s collection
  and prefix, the objects of `collection.create`, the bone of `object.parent.set`.
- *What is not given back* (`KeepsSomething`). `render.execute` sets the camera and settings
  before its `try`, `render.viewport_screenshot` the shading; a bake keeps its settings, image
  nodes and active UV map; primitive operators select what they make; a join whose sources were
  selected stops in its `finally`.
- *Revisions of the scene* (`NoBump`, `LookForTheirBone`, `WritingReads`). A bone that is connected
  where its own tail is has no length, and Blender discards it on leaving edit mode: `rig.bone.create` and
  `rig.bone.parent` have then advanced the revision and answer BONE_NOT_FOUND
  (`rigging.py:267`, `401`; the lookup of `rig.bone.update`, `351`, stands in the same place). Thirteen edits of meshes and
  `scene.openings.mark` leave the revision to the event that follows, while
  `dispatcher.py:67` says every mutation advances it. Reading a node tree can switch it on, and
  analysing a mesh writes it back.
- *Ignored or changed arguments*. `selection.add` and `selection.remove` both send the mode
  `SET`. `LoopCut.factor`, `MergeVertices.mode` and `only_connected`, the cuts, smoothness and merge of
  `BridgeEdgeLoops`, `Inset.use_boundary`, `ApplyModifier.keep_shape_keys`,
  `AddInterfaceSocket.index`, `PackIslands.udim_source`, `LoadImage.tiled`,
  `ParentBone.keep_transform`, `NormalizeWeights.lock_active` are not read by the add-on; dissolve, merge, delete,
  flip and triangulate do not look at the type of a selection; a strip at frame 0 starts at 1;
  a mirror along a signed axis passes the server and is refused by the add-on; an ARMATURE
  constraint cannot be added; the defaults of `exclusive` and `copy_active` differ.
- *Datablocks*. A bevel of vertices answers with the revision before it (harmless: the next
  use is refused). Each edit's revision is raised again by the event about it. A half-applied
  stack of modifiers has changed the mesh under its old revision until Blender reports it
  (`torn`). `object.convert` with the original kept copies its id.
- *Files*. Two downloads of one file share a temporary name (`mixed`), while
  `docs/ASSETS.md:137` calls downloads atomic. A forced refresh that breaks off leaves the
  earlier manifest to vouch for a new file of the same size. A file that is deleted after the look at it and before the look at
  the next is answered as a hit (`CheckFile`), while `download.rs:173` says that a manifest that lists a
  deleted file is not one. An export that keeps buffers, materials or textures beside its
  destination names and indexes the destination alone (`Produced`, `io.py:279`, `io.rs:167`), while
  `render.rs:106` has the index list the files the server has produced. Frames of a range overwrite files of an earlier
  range, whose names `allocate` never looks for; two calls can be given one name.
- *Bridge and protocol*. `docs/PROTOCOL.md` gives the add-on's reconnection a jitter it does not
  have, and the protocol has a `scene_changed` event that is never sent.

## 6. What is not modelled, and why

- *Bridge*: pings (neither side sends any), `last_error`, capabilities and status, logging,
  `fail_all` (tests only), back-pressure of TCP on the add-on's reader, a restart of the
  server process, two add-ons on one server, and a start whose predecessor's thread is still
  dialling.
- *Feed*: the content of events; responses in the shared outbox, except as a reason for it
  to be full.
- *Watch*: node trees, materials, the active object, the ids derived for linked objects, and that
  an object which a handler makes gets its id at once (here, as one of the user's, at the next update).
- *Batch*: result paths and values; unknown tools and the size limit, which are refused
  before anything is sent; tools that make more than one call of the bridge.
- *Workflow*: what is computed (positions, energies, node graphs) and what of it is refused
  before the first call; results other than ids; several workflows at once, which meet only in
  Blender.
- *Objects*: transforms, data and materials; `object.update` beyond names and visibility; only what
  the actions of `SceneTree` name is changed by them, other arguments are in `ShapeOps`.
- *Datablocks*: ids of other kinds than objects, which are kept the same way; elements of a
  mesh beyond "this topology"; ids that a read gives out count as no write in `Handling`.
- *Handlers*: values, but for being right or wrong; two wrong arguments at once; the results;
  lists longer than two.
- *Payloads*: the tables say which arguments the server refuses, not with which message, and leave
  out the defaults.
- *Registry*: activation of categories, notifications to the client, and search; decoding,
  validation and forwarding are in `Handling`.
- *Artifacts*: mime types, the limit of 9999 names, reading, other kinds of file roots. A save without a
  path is no artifact. *Downloads*: more than one variant (they share no file), size limits and
  host policy, unpacking of Sketchfab archives; a rename replaces its target, as on POSIX.
- *Providers*: searches and credentials, which touch no state the rest reads.
- *Mathematics* is floating point. *Framing* is the reliable channel of the bridge model, a bad
  frame being the end of the connection. *Startup* keeps no state of its own.

## 7. Plan

Done in order: the bridge, the feed, the watch, batches; workflows, objects, datablocks,
handlers, downloads and artifacts. What is left:

1. `Activation`: enable and disable against calls in progress and notifications.
2. `AddonBridge` with a start that revives the previous thread.
3. The graph checks of `blender-domain` as pure operators.
