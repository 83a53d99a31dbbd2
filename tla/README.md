# A verification of ConstraintGridApp in TLA+

ConstraintGridApp lets a user draw groups of cells on a board, attach
constraints to them, and have MiniZinc solve the result. It has four processes:
an Angular page, a Spring backend, an Artemis broker, and a C++ program
(MinizincMQ) around `minizinc`. This directory holds TLA+ modules translated from
their source, the configurations with which TLC checks them, and theorems that
TLAPS checks.

Paths below leave out their prefixes: `app/` is
`src/constraint-grid/constraint-grid-app/src/app/`, `java/` is
`src/spring-backend/MinizincBackend/src/main/java/app/`, and `cpp/` is
`src/minizinc-mq/MinizincMQ/src/`.

## The system

### The page (`app/`)

| Component | State | Operations | What must hold |
|---|---|---|---|
| ConstraintGridComponent | the grid (constraints > views > groups, each a set of cells; `indexToGroup` per view; the content of the cells), `selectedCell`, the text and style of every cell element | select / insert / erase a cell, `setCellContent`, `fill`, `tile`, `addGroup`, `deleteGroup`, `addView`, `addConstraint`, `cleanConstraints`, `loadSolution`, `toJson` | the two representations of a view agree; the page shows the model; `tile` ends and overlaps nothing |
| GroupListComponent | a copy of the active view's groups, the clicked row | click a row, delete a row, delete the empty groups, reload | its copy is current whenever it is on the page; the active group exists |
| GridToolsComponent | the colour of the eraser | eraser, add group, delete empty groups, tile, fill | a lit eraser erases |
| ViewTreeComponent | the nodes of the tree, which are expanded, the checklist | click an item, expand, check items, delete the checked, add nodes | the tree shows the grid; views stay under their constraint; a new view can be seen |
| MenuComponent | which option menu is shown, whether tools and list are shown | follows VIEW_CHANGE | it is the menu of the active constraint |
| ConstraintSelect, option menus | none | create a constraint, create a view | one constraint of a name; a view has the settings of its constraint |
| ValueOptionsMenu | the selected cell, the text of its input | set the value of a cell, min and max | it edits the cell that is marked, and no other |
| SharedGridService | ids of the active constraint, view and group; id counters | queries, drawing handlers | the active ids do not dangle |
| SharedDataEventService | handlers, one pending event per kind | `emit`, `on`, `removeHandler`, `set`, `get` | an emission calls each handler once, whatever handlers do meanwhile; a removed handler is never called; an event is not forgotten |
| SolutionOptions | the solving method | choose satisfy, minimize or maximize | the answer is best by the method that was chosen |
| SolutionsComponent, SolutionService | one SSE stream | post the model, receive answers | a user sees their own answers only, in order, and does see them while the stream is open |

The components talk only through SharedGridService: queries by `get`, and events
by `emit`, which calls every handler before it returns. JavaScript runs one
browser event at a time, and Angular updates the page after each. So one browser
event with everything it triggers is one step here. What is hard is not
concurrency but the number of components that each keep a piece of the same
truth: two representations of a view, a copy of its groups, colours and
highlights on the page, two selected cells, three ids that name objects which other
components delete, a checklist of nodes that other operations replace, and buttons
that come and go.

### The backend (`java/`)

`SolverRestController.postModel` translates the posted grid (`ModelParser`) and
sends it to the broker through `QpidClient`, whose receiver thread puts answers
into a sink that the controller multicasts to the SSE streams by user id. Hard:
a model and the request for its stream are two connections, the sink waits for the
slowest stream and drops what does not fit, streams come and go, one subscription
serves everyone, and after the first failure of the broker's connection only a restart
connects again.

### The solver process (`cpp/`)

Three threads and two queues: proton's container thread calls `on_message`, a
receiver thread takes models from `recvBuffer` to `messages`, and `main` solves
them one at a time and hands the answers back to the container thread. Hard: two
condition variables that are notified without the lock, two queues used without
one, links that open in any order, and two connections that fail and are tried again
one by one while models are half done.

### The broker

Artemis is external. It is modelled by what the code uses: two FIFO addresses
that lose nothing, and that deliver again what was not accepted when a connection fails.

## The modules

| Module | Models | Its state and actions |
|---|---|---|
| `Tiling` | the geometry of `tile()` (`app/constraint-grid/constraint-grid.component.ts:329-400`) | operators on flat cell indices: `MoveCell` is one pass of `moveFlatCells` with JavaScript's `%`, `TileFindSpot` the search, `NextSpots` the choice that the stable sort and `pop` make |
| `GroupEditor` | the grid, the group list, the tools, and the menu's part in showing them | a variable per field of the code; an action per browser event. `tile()` is unrolled, one step per popped spot, and nothing else runs until its queue is empty |
| `TileRun` | a run of `tile()` from any board with a shape and obstacles | the states and the actions of GroupEditor, and what tiling should do, said in two coordinates |
| `ViewTree` | the tree, the creation and deletion of constraints and views, the option menus | `flat` is `treeControl.dataNodes` and `expanded` its expansion model; `checked` and `stale` are the checklist's nodes that are in the tree and those that are not |
| `ViewEvents` | the interface of the two: which views exist, which is active, whether the list is shown | `Add`, `Select`, `Delete` |
| `CellValues` | giving values to cells: the mouse on the grid, the field of ValueOptionsMenu, the content map | the grid's `selectedCell` and the menu's `selectedCellIndex`, the field's text, and whether the browser would fire `change`; typing and committing are two steps with any clicks and drags between them |
| `EventBus` | `SharedDataEventService` | a stack of what runs: walks of an array by `emit` and calls of a handler with a kept event by `on`; between two steps the handler on top may call `Emit`, `On` or `RemoveHandler`, or return |
| `SolveRound` | the content of a grid and of its answer: the solving method, `toJson`, `ModelParser` and the constraint classes, `OutputMsg::toJson`, `onmessage`, `loadSolution` | `message` is what is sent, in the form of the place `at` where it is; an action per handler, and `Draw` for the edits that the user goes on making. `board` stays from round to round; what MiniZinc reads in the text of a cell is a parameter |
| `SolveRelay` | `SolutionsComponent.postModel` to `eventSource.onmessage`, through the controller, QpidClient and the broker, for several browsers and restarts of the backend | a variable for each place where a model or an answer can be; an action per handler, per hand-over between threads, and per failure |
| `AnswerFeed` | what the page may rely on | each user sees a subsequence of the answers to their own models, in the order sent |
| `SolverProcess` | the solver process as its neighbours see it | the addresses of the broker, the answers on their way there, whether the process runs; SolverWorker and SolverLink add the inside |
| `SolverWorker` | the threads of the solver process | a program counter per thread; a test and the wait after it are two steps, and so are a push and the notification after it |
| `SolverQueue` | what the solver process promises | a FIFO of models: each taken once, in order, and answered once if well formed |
| `SolverLink` | the two connections of the solver process, when they fail, and its death and restart | each place where a model or an answer can be, also on the wire and in the broker's memory of what is not settled; the threads are one queue here, `held`. The operations that SolverWorker also has are called `Link...` |
| `SequenceLemmas` | nothing: lemmas on sequences (the first and last place where something stands, insertion, removal, sequences without repetition), and `Follows` (a sequence is in the order of another, none of it twice) | |
| `GroupEditor_proofs`, `CellValues_proofs`, `ViewTree_proofs`, `EventBus_proofs`, `SolveRound_proofs`, `SolverWorker_proofs`, `SolveRelay_proofs` | the theorems about the modules they are named after | |
| `MC...` | the instances that TLC checks | |

ViewTree and GroupEditor describe the same page. Each is checked to implement
`ViewEvents`: ViewTree does to the views nothing but what ViewEvents
allows, and GroupEditor allows itself everything that ViewTree might do
(`OnDeleteSelected(S)` takes any set of views; `OnClickItem(v)` takes any id ever
issued, because the tree can show an item whose view is gone).

CellValues is the same mouse as in GroupEditor, looked at from its other side: there a
click puts a cell into the active group, here it selects the cell that the field edits.
The two share only `selectedCell`, of which GroupEditor keeps what the groups need.

The other modules model `emit` as a call of the handlers that are registered. EventBus
says when that is right: no handler of the application is registered with `once`, and
the ones removed while an event is emitted (the group list's, when VIEW_CHANGE takes it
from the page) stand after the one that is running, so none is passed over
(`SkipsOnlyAfterRemoval`).

SolverQueue is what SolveRelay and SolverWorker agree on: SolverWorker implements it,
and SolveRelay's `Answer` is its answering step, for models that the backend has made
and so are well formed. It speaks of a process whose connections hold.
SolverLink shows what is left of that when they do not: an answer may come twice
or not at all, only when a delivery was repeated, or when what held the model or its answer failed
(`AnswersAccounted`), and between two failures it is SolverQueue again (`QueueBetweenFaults`).
What SolverLink says of the process itself, that it is one queue from `on_message` to
`sendSync`, is what SolverWorker is shown to implement (`ImplementsLink`). There the connections
hold, the broker remembers all that it has given out, and the fault of a data race is the one
fault, a `Crash`. So there are three descriptions of the process, and each is compared with
the other two.
SolveRelay's restart is that of the backend alone, so `ImplementsFeed` (no answer shown
twice) does not extend to a solver whose receiving connection fails.

Some simplifications are the same everywhere. Ids count from 1 as the
factories do, so 0 is `undefined`. The colour of a group is its id. An object that the grid has
dropped is unreachable in the code, and its entries are reset. The list's array
is a set, because `Object.values` orders integer keys and `splice` only removes.
Labels, relations and counts of a view are data that no property of GroupEditor and
ViewTree looks at; SolveRound has them. The
counters (`MaxViews`, `MaxGroups`, `MaxConstraints`, `MaxMsgs`, `MaxModels`,
`MaxRestarts`, `MaxFaults`) are bounds of the
models only, and so are EventBus's; `MaxShift` is a bound on the search of `TileFindSpot`
that no search needs to exceed.

In SolveRelay a model is a number and so is its answer, so that properties can tell
which answer arrived; the code's answers carry the user's id only. User ids are taken
to be distinct, though the code draws them at random. What makes a model or an answer
unreadable is reduced to a set of them. Reactor's sink is external: it hands an
answer to all subscribers at once when each has asked for one, keeps `SinkSize` of
them meanwhile, and refuses more. The thread that emits also drains, so the receiver
takes no message while an answer can be delivered; that a thread of the server may be draining
in its place at that moment is left out.

In SolveRound one grid is on its way at a time: SolveRelay is where several are, and
there answers come in the order of the posts. Editing goes on meanwhile, which matters to nothing but
the next post, since `toJson` copies. A model or an answer that is lost on the way is, for the
solution grid, one that was never posted, and an answer that comes twice one that was
posted twice. The text in the field of a cell is written into the model as it
is, after `q[i]=`, so it may be a number, an expression or a mistake. `Readable` are the texts that
compile and `Reading` says which values satisfy them, both for any such set and relation. A text
that does more than constrain (one that begins a comment, or an item of another kind) is left out.

An operator whose name ends in `_something` is a mutant: the operation before
the underscore with a plausible mistake. Every property fails when some mutant
takes the place of the original (`PROJECT.json`, "mutants").

### Failures

| Failure | Where | What the code does about it |
|---|---|---|
| a POST is lost, a stream fails | SolveRelay: `LosePost`, `OnError` | the page logs it; a stream is closed for good, whether or not the browser would have tried again |
| the backend loses the broker | SolveRelay: `LoseConnection` | nothing: models are accepted and not sent, until somebody restarts it |
| the backend dies, or is restarted | SolveRelay: `Restart` | streams and sink are gone. The broker may deliver the last answer again, whose acknowledgement (AUTO_ACKNOWLEDGE) was under way |
| an answer that does not parse | SolveRelay: `Unreadable` | the subscription that serves everyone ends |
| a connection of the solver fails | SolverLink: `LoseReceiver`, `LoseSender` | proton tries again for ever (`max_attempts` 0). The broker delivers again what it did not know to be accepted; answers under way may be lost |
| the solver process is killed | SolverLink: `Crash`, `Restart` | what it held is gone; somebody starts it again |
| two threads in one `std::queue` | SolverWorker: `RaceFault` | undefined behaviour: the process may die. That it goes on with a broken queue is not modelled |

## The runs

| Run | Instance | Shows |
|---|---|---|
| `two_views` | 1x3 board, 2 views, 3 groups | the five invariants of GroupEditor, that editing one view leaves the others alone, and the refinement of ViewEvents |
| `board` | 3x3 board, every shape and every set of obstacles | the index arithmetic is movement in the plane without wrapping, and tiles are clipped copies of the shape (`ShapesMoveWhole`); `tile()` takes no cell from a group, comes closer to its end with every turn (`TileDescends`) and ends; a one-cell shape leaves no free cell in line with a tile (`LinesFill`) |
| `view_tree` | both constraint names, 3 constraints, 2 views | the invariants of ViewTree, that a deletion leaves in the tree only what was checked before the tree was last rebuilt, that a new view can be seen, and the refinement of ViewEvents |
| `cell_values` | 3 cells, 3 texts | the field edits the marked cell, the board shows what the solver is sent, and no text ends in a cell it was not typed for |
| `worker` | 3 models, the second malformed | order and at-most-once through three threads; the threads are the one queue that SolverLink takes them for; the process comes to rest only when all is answered or a wakeup was lost on the models' side (`QuietMeansAnswered`), and nothing but that or a crash keeps a model |
| `links` | 3 models, the second malformed, 2 faults | a model is answered twice only if it was delivered twice, and is never lost but with what failed (`AnswersAccounted`); what is not lost is answered |
| `relay` | 2 users, 4 models, one invalid and one with an unreadable answer, 1 restart | each user sees their own answers in order and at most once; an answer is refused only while a stream is stalled, or because it cannot be read, and so no stream that stalls or leaves ends the relay |
| `relay_liveness` | 2 users, 3 models, one with an unreadable answer, 1 restart | an open stream gets its answer, or ends |
| `event_bus` | 2 events, 3 handlers, 3 emissions, nested up to 3 deep | each handler is called at most once per emission and passed over only after a removal before it; a removed one is never called; ids are unique and events not forgotten, with the exceptions named in the properties |
| `round` | 2 cells, up to one view of each constraint with up to two groups, bounds and counts that may be no numbers, texts in cells that MiniZinc can or cannot read, three methods; a second grid, any number of rounds | numbers that the page shows are at all times a solution of the grid that was answered last, up to signs, and best by the chosen method unless time ran out; a grid that the page calls unsolvable is. Answers that are failures do not count |
| `lost_wakeup` | 2 models | is expected to fail: see Findings |
| `signs` | as `round` | is expected to fail: see Findings |

### Why the bounds are enough

*two_views.* Two views are the least with which an edit can touch the wrong one,
or a selection name a deleted one. Three groups give a row before and after the
active one, or two groups in one view and one in another. Three cells in a row
are enough for a cell to move between two groups while another stays, and for a
tile on each side of a shape.

*board.* 3x3 is the smallest board with a middle cell: only there can a pattern
move one step in a direction without touching an edge, and an obstacle lie between
two free cells in both directions. The eleven group ids are the two groups and one for each
cell. The initial states are states of GroupEditor;
the button is pressed once, so the run ends there (`CHECK_DEADLOCK FALSE`).

*view_tree.* Two names are all that the code offers. Three constraints mean that a
constraint of a name already deleted is created again, which is what separates a
lookup by name from one by id. At the bounds everything may be deleted and then
nothing is left to click, so the run does not check deadlock.

*cell_values.* With three cells a drag can cross one and come back to the first, which
toggles it, or end in a third. The three texts are the empty one, the field's first one (0) and
another, since an empty field, a field never typed in, and a cell never written are told
apart by three different tests in the code.

*worker.* A third model is what arrives after a wakeup was lost, and a malformed
one between two well-formed ones would show an answer overtaking. When every model is
answered the process waits for ever, so deadlock is not checked.

*links.* The second fault may hit what the first has caused to be delivered again, or the
connection that has just been opened again; with three models one is in the process, one
unsettled and one with the broker when it happens. When all is answered nothing is left to
do, so deadlock is not checked.

*relay.* With two users one can hold up the other, or leave last. With a sink and
streams that hold one answer each, everything that can be full is full at some time.
Four models are an invalid one, one whose answer ends the relay, and two between which order
can be lost; the restart may come at any point, with an answer in each place. When all
streams have ended or the connection is lost nothing need happen, so deadlock is not checked.

*relay_liveness.* Three models fill a stream and the sink and leave one to be
refused. Invalid models are accepted by nobody and so cannot keep anyone waiting.

*event_bus.* Three handlers are one that is running, one to remove or add, and one that
the change may pass over or call twice. Three emissions nested three deep let a
handler emit the event it is handling, and another one emit in turn. Event 0
and another are needed because the code treats 0 differently. At the bounds
everything may have returned, so deadlock is not checked. The run has also passed with four
handlers (4.1 million states).

*round.* Two cells tell alldifferent from no constraint, every relation from the
others, and the least sum from the greatest; a group that is empty and one that is not are
both sent, and a view without groups
is not. Contents may be outside the domain, or one of three texts: another cell (`q[1]`), one that
takes the condition away (`1 \/ true`), and one that does not compile. Limits, contents and constraints
vary in turn. One other grid is
enough to tell the grid that is answered from the one before it and from the one on the page, and
each can be posted in any method, any number of times, so the rounds have no bound.

### Fairness

`GroupEditor`: `WF(TileNext)`. The loop of `tile()` runs to its end within one
browser event; nothing else is promised, since the user owes nothing.

`SolverWorker`: weak fairness of the receiver and main threads and of the rest of
`on_message` once it has begun: the operating system schedules every runnable
thread. Strong fairness of the handlers that the container starts and of the
functions in the work queue: each waits in the container's own queue, is started
when the thread is free, and needs at most a mutex that its holder releases
again and again. Weak fairness of `Arrive`: the library sends what it was given.
No fairness of `Post`, of `SpuriousWakeup` or of `RaceFault`:
nobody owes the process a model, and no progress may depend on a wakeup for no
reason. A child `minizinc` is started with a time limit of its own, so `Solve` is
fair with the main thread.

`SolverLink`: weak fairness of opening the two connections (proton tries for ever, and there
are finitely many faults), of what then happens on them, and of the process's own work, which
SolverWorker describes (and where it is not unconditional). No fairness of faults, of `LinkPost`, or of
`Restart`: that the process is always started again is a premise of
`AnsweredUnlessGone` (`[]<>up`), not a promise.

`SolveRelay`: weak fairness of the receiver thread, of the sink's delivery, of each
browser's reading, and of noticing a closed connection on either side (`Cancel`,
`NoticeCut`): threads are scheduled, and a
connection that is closed is found out by the next write or by TCP. The solver's
`Answer` is fair too; that is an assumption of this module, and run `lost_wakeup` shows that
the solver as it is does not always meet it. Neither a POST nor the request for
a stream is promised to arrive, no stream is promised to stay open, and nobody is
promised to restart the backend.

`CellValues`, `ViewTree`, `EventBus` and `SolveRound`: none; they have no liveness property.

## What is proved

All of it for every value of the constants. The only assumptions are the named ones of the
modules: bounds are natural numbers, the board has a row and a column, sizes are
positive, `Nil`-like values are outside the sets they are added to, malformed models are
models, the grids drawn are grids that the page can hold, with a first cell, and numbers
that fit an `int` of Java, and what MiniZinc can read in a cell is some of what can be typed there.

`GroupEditor_proofs`, for every board, number of views and number of groups:

| Theorem | States |
|---|---|
| `Inductive` | `Spec => []IndInv` |
| `TypeCorrect` | `Spec => []TypeOK` |
| `CellsArePartitioned` | `Spec => []CellsPartitioned` |
| `ListIsCurrent` | `Spec => []ListShowsView` |
| `PageIsCurrent` | `Spec => []PageShowsModel` |
| `ControlsAreTrue` | `Spec => []ControlsTellTruth` |
| `TilingKeepsCells` | `Spec => TileKeepsCells` |
| `TilingDescends` | `Spec => TileDescends` |
| `EditsStayInView` | `Spec => OtherViewsUntouched` |
| `EditorImplementsViewEvents` | `Spec => ImplementsViewEvents` |
| `ShapesMove` | `TilingSpec => []ShapesMoveWhole` |
| `LinesAreFilled` | `TilingSpec => LinesFill` |

The properties are not inductive one by one. A deletion keeps
`CellsPartitioned` only if the row deleted is a group of the active view; that needs the
list to be on the page only when a view is
active; a highlight stays within the active group only if that group is
the one the service finds (all three are `ListShowsView`); painting after an insertion is
right only if it was right before. So `IndInv` is all of them together with two
facts that the code relies on without saying so: the ids issued are new
(`IdsIssued`), and while `tile()` runs there is an active view and an id for
every tile that may still be laid (`TilingInView`). The last is what makes the
bound on groups harmless: a tile takes at least one free cell, so the ids left never
fall below the free cells (lemma `TileCost`). One lemma per action shows that it
keeps `IndInv`, with shared lemmas for what several actions do (`ViewChangedInd`,
`AddGroupInd`, `DeleteRowsInd`, `InsertCellsInd`); `EditFrame` is the part of the
invariant that no edit of cells can touch. The tiling operators enter `IndInv` only through
`TileFindSpotType`: a spot is a set of cells on the board, whatever the search
chooses. The same lemma bounds the loop (`TilingDescends`): a turn that lays a tile takes at
least one free cell and pushes at most four spots (`PushSpotsGrows`), a turn that skips its spot only
shortens the queue, so four times the free cells plus the spots queued falls with every
turn. What `TileTerminates` adds, and TLC checks, is that a turn can be taken while
the queue is not empty. `EditsStayInView` rests on the same invariant: a group belongs to one view,
new groups have new ids, and what is edited or deleted belongs to
the active view or to a view that goes. For the marked row
(`ControlsAreTrue`) the rows up to the active group's are counted: the mark stays at or behind
it when no row is added before it (`MarkStays`).

What the search chooses is the subject of the last two theorems. A flat index is a row and a column
(`DivMod`), one pass of `moveFlatCells` takes an index of the board to its neighbour in the plane
or to an index that is off the board and stays off it (`MoveCellIs`, `OffStays`), and so
k passes are the translate by k places (`ShiftIsTranslate`). The passes are a recursive function,
unfolded by looking at the least number of passes at which the claim could fail. After
as many as the board is long nothing is left on it (`ShiftEnds`), so the
search stops, at the nearest free translate (`SpotIsNearest`). `ShapesMove` then needs that the
queue holds copies of the shape (`QueueHasCopies`): a spot of a tile is found from the tile, not
from the shape, and a translate of a clipped translate is in one translate of the whole
(`TranslateTwice`). For `LinesAreFilled` the invariant speaks of what has not happened yet: a
free cell in line with a tile has a spot of the queue at or before it (`FreeCellsAwaited`). A spot
that is popped and skipped, because a tile took its cell, is no loss, since that tile pushed its
own spots, and they lie behind it in the same line (`BeyondSpot`). TLC has checked both
invariants (`TilesInv`, `LinesInv`) on the board of run `board`.

`CellValues_proofs`, for any set of cells and any texts:

| Theorem | States |
|---|---|
| `Inductive` | `Spec => []IndInv` |
| `BoardIsContent` | `Spec => []BoardShowsContent` |
| `FieldIsMarked` | `Spec => []FieldShowsMarked` |
| `NoTextAstray` | `Spec => TypedGoesWhereMeant` |

Here the two invariants and the type are inductive together: that a commit writes
where the mark is needs `selectedCellIndex = selectedCell`, and that a late `change` writes
nothing new needs that the field shows the cell's value whenever nobody typed since.

`SolverWorker_proofs`, for any number of models, however they are malformed:

| Theorem | States |
|---|---|
| `Inductive` | `Spec => []IInv` |
| `TypeCorrect` | `Spec => []TypeOK` |
| `SenderIsWoken` | `Spec => []SenderNotStranded` |
| `WorkerImplementsQueue` | `Spec => ImplementsQueue` |
| `WorkerImplementsLink` | `Spec => ImplementsLink` |
| `RestMeansAnswered` | `Spec => []QuietMeansAnswered` |

`SenderNotStranded` becomes inductive with `SenderDiscipline`: there is no credit before the
sender is open, and `sendSync` is about to wait only if it has seen, under the lock, that the
sender was not open. `HoldersHold` says that a thread holds a message
exactly in the middle of handing it on.

Both refinements rest on one lemma, `ThreadsAreOneQueue`. `Taken`, the concatenation of the five
places between `on_message` and `sendSync` where a model can be, gets a model at its end
(`OnMessage`) and loses its front when main finds it malformed (`Drops`) or hands over its answer
(`Answers`); every other step of a thread moves one element from the front of one place to the end of
the one before it, or none, and leaves the concatenation alone (`Hands`). With the broker's models
behind it that is SolverQueue. For SolverLink the proof has to say what the broker
remembers. `BrokerHasRest`: the broker still has the models posted last, in their order, and
what the process has comes from those before them. So giving out everything unsettled again
is giving out the models from the first one on, and nothing of the process needs to be remembered for it.
`OpenFirst`: nothing was handed to the work queue, or sent, before the sender was open.

`QuietMeansAnswered` is the safety half of `AnsweredUnlessStranded`. It follows
from what SolverQueue does not lose (`TodoOrAnswered`: a well-formed model that was posted is in
`Todo` or among the answers), from `SenderNotStranded`, which says that main at rest is not
waiting to send once there is credit, and from `HoldersHold`, which says that threads at rest hold
nothing. What remains of `Todo` is then in `recvBuffer` or `messages`, where
only a lost wakeup leaves it.

Its last section is about SolverLink, the connections of the same process,
for any number of models and of failures:

| Theorem | States |
|---|---|
| `LinkInductive` | `LinkSpec => []LinkInv` |
| `AnswersAreAccounted` | `LinkSpec => []AnswersAccounted` |
| `LinkIsQueueBetweenFaults` | `LinkSpec => QueueBetweenFaults` |

An answer that came twice says nothing of where its second copy was before, so `LinkInv`
counts: of each model there are, over the five places where it or its answer can be, at most
one copy more than the times it was delivered again, and the broker never holds a model that it
still remembers as not settled. Without the second part a failure could put two copies back
and count one. The steps rest on what `Append`, `Tail` and concatenation do to the
number of occurrences (`SequenceLemmas`). That is `RepeatsAreRedeliveries`, the one half of
`AnswersAccounted`; the other, `NothingLost`, is inductive as it stands once it is said with a set for
each place (`AllSomewhere`). It is the safety half of `AnsweredUnlessGone`.

`SolveRelay_proofs`, for any users, models, restarts and sizes, and any models and answers
that cannot be read:

| Theorem | States |
|---|---|
| `Inductive` | `Spec => []IInv` |
| `TypeCorrect` | `Spec => []TypeOK` |
| `RelayOutlives` | `Spec => []RelayOutlivesStreams` |
| `RefusalsNeedStall` | `Spec => RefusedOnlyWhenStalled` |
| `RelayImplementsFeed` | `Spec => ImplementsFeed` |

That an answer is new to a user when the page shows it does not follow from the
page's own state: it depends on everything still to come. The invariant `InOrder`
follows the answers upstream. `Flow` is the sink's buffer, then the broker's
solutions, then its models; for each open stream what was shown, what is in its pipe and
`Flow`, one after the other, are in the order in which the models were sent, none of them
twice (`Follows`). A step moves an element along this sequence or drops one, and
`Follows` survives both. The same of the unacknowledged answer with what the broker
still has is what a restart needs: an answer delivered again is shown to nobody who saw it,
because every stream that was open then is cut and stays so (`StreamsBeginEmpty`).
`RefusalsNeedStall` is an action property over two of these parts: the sink is full only while some
stream holds as much as it may (else the thread that emits would have emptied it), and the
subscription has ended only after an answer that cannot be read (`RelayOutlives`).

`ViewTree_proofs`, for any names, constraints and views, however often a name is used again:

| Theorem | States |
|---|---|
| `Inductive` | `Spec => []IInv` |
| `TypeCorrect` | `Spec => []TypeOK` |
| `TreeShowsTheGrid` | `Spec => []TreeIsGrid` |
| `SelectionIsConsistent` | `Spec => []ParentCheckedIffChildren` |
| `KindsMatch` | `Spec => []ViewKindMatches` |
| `OnlyStaleGhosts` | `Spec => GhostsWereStale` |
| `NewViewIsSeen` | `Spec => AddedViewIsSeen` |
| `TreeImplementsViewEvents` | `Spec => ImplementsViewEvents` |

The code reads the flat list by searching it: back from a view for its constraint, on from a
constraint to the next one, and through the whole list for a name. The proofs first replace each
search by the relation that it decides, `Heads` (the item at j is a constraint and all from there to i
are views), and then show what an insertion into the list and a filter of it do to that
relation. `IInv` says that every view stands under the constraint it belongs to (`Nested`), that the
grid's constraints and views all have items (`InGridInTree`), that no item stands twice
(`NoneTwice`), that names of constraints differ, that a new id is new everywhere (`IdsIssued`),
and that the menu follows the active view (`MenuFollows`). `NoneTwice` is what a deletion needs:
what was filtered away is nowhere else. A checked constraint and its views
(`CheckedTogether`) are kept together because an item is only inserted when
the checklist is about to be replaced, and because a filter of the list by the checklist itself
leaves nothing checked.

`EventBus_proofs`, for any events, handlers and emissions, nested to any depth:

| Theorem | States |
|---|---|
| `Inductive` | `Spec => []IInv` |
| `TypeCorrect` | `Spec => []TypeOK` |
| `AtMostOnce` | `Spec => []CalledAtMostOnce` |
| `IdsAreUnique` | `Spec => []IdsUniqueUnlessNested` |
| `NothingForgotten` | `Spec => []NoEventForgotten` |
| `SkipsFollowRemovals` | `Spec => SkipsOnlyAfterRemoval` |
| `RemovedStaysSilent` | `Spec => RemovedNeverCalled` |

That no handler is called twice depends on what every walk on the stack still has before it, so
the invariant holds of each frame of the stack and not of the top alone (`FramesOK`). A walk has
called nothing of what stands behind its index (`Ahead`): a removal moves handlers to the
front only, and what is added is new, because a name is registered once (`Distinct`). As long
as nothing at or before the index was removed, everything that the walk found at its start and
that is still there stands within its length, and was called if it stands at or before
the index (`Behind`); so when it ends it has passed over nothing. The arrays hold handlers under
the ids that `on` returned for them (`IdsMatch`), and if a handler that was to be removed is still
there then `removeHandler` has found another one of its id first (`RemovedShares`). For the ids,
a call of `on` that gives its handler a kept event has no id to return yet: ids of earlier
calls are smaller than the one it was given, and later calls know it among those that they
are nested in (`GivingOK`, `GivingInOrder`). What is kept for a kind while `on` gives away an
event of that kind is lost when that `on` returns; `KeptMayGo` says that it was delivered
already, or emitted meanwhile.

`SolveRound_proofs`, for every set of cells, every grid that can be drawn on it, any texts and whatever
MiniZinc makes of them, and any number of rounds:

| Theorem | States |
|---|---|
| `Inductive` | `Spec => []IInv` |
| `AnswersAreTrue` | `Spec => []ShownIsTrue` |
| `NaturalsAreShown` | `Spec => []`(the grid answered last has natural limits `=> ResultIsShown`) |

`IInv` says of each stage of a round what the earlier ones have made of the grid that was posted
(`OnItsWay`), whatever has become of the one on the page. `ShownIsTrue` itself is kept over the rounds by
what `loadSolution` writes: all cells, or none, or "odele" in the first, after which
the board is no longer all numbers (`LoadedIsTrue`). The heart of it
is `SolutionsAreMeaning`: if the backend accepts a grid and MiniZinc accepts the model, the
model's solutions are exactly the assignments that the user asked for. It rests on
`CellIs`, for what is typed into one cell, on
`ConstraintIs`, for one group of one view, and on `AllDifferentIs`, which compares the
counting of values with their being different in pairs. `NaturalsAreShown` is the other side of
the finding about signs: what the repository's README promises holds of every grid without negative
limits.

### Only model-checked

Five properties need fairness and stay with TLC, because the prover has neither liveness
nor ENABLED. For four of them what is not fairness is proved:

| Property | What is proved of it |
|---|---|
| `TileTerminates` | every turn comes closer to the end (`TilingDescends`) |
| `AnsweredUnlessStranded` | at rest, all is answered or a wakeup was lost (`RestMeansAnswered`). That `Quiet` is where no thread has a step was checked by TLC, as an invariant with ENABLED on the instance of run `worker` |
| `AnsweredUnlessGone` | no model is lost unless it is in `gone` (`AnswersAreAccounted`) |
| `OpenStreamGetsAnswer` | the relay outlives its streams and refuses nothing without a stall (`RelayOutlives`, `RefusalsNeedStall`) |
| `WakeupDrains` | nothing: it is about scheduling alone |

The two properties that are expected to fail, `EveryModelAnswered` and `ResultIsShown`, are
refuted by TLC. Of the second, what holds is proved (`NaturalsAreShown`).

## Findings

**A model can wait for ever for its answer** (run `lost_wakeup`). The listener in
`cpp/main.cpp:103-104` pushes to `messages` and notifies `cv` without taking `m`.
If main has just found `messages` empty and has not yet called wait, the
notification wakes nobody: main then waits beside a queue that is not empty, until
another model arrives. `cpp/ProtonClient.cpp:52-53` does the same to `recvBuffer`.
`README.md:7` says "Solver responds back to the spring app with the result"; the
run shows a fair behaviour in which no thread is starved, nothing crashes, and it
does not. `AnsweredUnlessStranded` shows that this, or a crash, is the only way,
and `WakeupDrains` that one notification which finds the receiver blocked clears
everything in its buffer. Taking `m` around line 103 and `receiverLock` around line 52 would
remove both and the data races on the two queues.

**Negative values lose their sign** (run `signs`). `cpp/main.cpp:32` erases every `-` of
an answer, to be rid of the line that MiniZinc puts after a solution, and so also the
minus of every value. With a minimum below 0 the page may show 1 and 1 for
two cells that must differ. `ShownIsTrue` shows that the signs are all that is lost.

More things are so in the code and the models, and are stated as properties
that hold:

- Deleting a row before the clicked one leaves the mark on a row below the active
  group's (`ControlsTellTruth` says below, never above).
- The eraser stays selected when the tools leave the page and come back with an
  unlit button (`ControlsTellTruth` is only the other direction).
- Items checked before a constraint or view is added appear unchecked afterwards,
  are still deleted from the grid by the next "Delete Selected", and stay in the
  tree (`GhostsWereStale` says that nothing else does). If a constraint whose item has stayed
  is created again, adding a view expands the old item and not the new one
  (`AddedViewIsSeen` names the exception).
- What is typed while no cell is selected, or before another cell is clicked, is dropped
  (`TypedGoesWhereMeant` says that it goes nowhere else).
- A stream that has ended is never requested again: `solutionStream` stays set
  (`app/solutions/solutions.component.ts:27`) and `reset` has no caller. The page then posts models
  without hearing of them (`OpenStreamGetsAnswer` speaks of an open stream only). It is also
  why an answer that is delivered again after a restart is not shown twice.
- A model is posted before the stream is requested. If it is solved before the stream
  opens, nobody gets the answer (`OpenStreamGetsAnswer` needs the stream to be open
  while the model waits).
- One stream that is open but not read holds up the answers of all users, and then
  the sink refuses more (`RefusedOnlyWhenStalled`).
- One answer that does not parse ends the relay for all users until the backend is restarted
  (`RefusedOnlyWhenStalled` and the theorem `RelayOutlives` say that nothing else does). A lost connection to the broker
  does the same, and models are still accepted.
- A model that was delivered and not settled when the receiving connection failed is solved
  and answered twice (`AnswersAccounted` says that nothing else is).
- A handler registered inside the callback of a kept event takes the id that the outer
  `on` then returns as well (`IdsUniqueUnlessNested`). No handler of the application does so.
- Whatever is typed into a cell is written into the model (`java/solver/ValueConstraint.java:25`). An
  expression such as `q[1]` or `1+1` is solved and its solution shown; one with an operator that binds less
  than `=`, such as `1 \/ true`, says something else than that the cell has a value
  (`ShownIsTrue` is about what MiniZinc reads, `CellMeaning`).
- A text that MiniZinc cannot read makes it fail. main's "Model error" arrives as
  "Modeleo", matches none of the page's tests, and "odele" is put into the first cell; the
  others keep what they had (`ShownIsTrue` says that this is never taken for a solution).
- After an answer with "ERROR" the solution grid keeps the numbers of the grid that was answered
  before, beside the one that was just posted (`app/constraint-grid/constraint-grid.component.ts:203`;
  `ShownIsTrue` speaks of the grid answered last, failures not counted).
- A minimum, maximum or count that is not a number makes `postModel` throw; the page does
  not say so.
- When MiniZinc is stopped by its time limit the page shows the solution it had, which
  need not be the best, and does not say so (`ShownIsTrue`, `timedOut`).

## Not modelled, and the plan

Not modelled for good:

- styles, layout and logging; module declarations, CORS and CSRF settings, the
  configuration file, build files and images; the component tests, which only create each
  component;
- code that nothing reaches: BEFORE_DELETE_CONSTRAINT and LOAD_SOLUTION have no effect,
  `addNode` and `getNestedParentChildIdx` of the tree and `reset` of the solutions are
  never called, and neither is `close` of the Proton client, because main does not return;
- `QpidClient.stop`, which runs once, after everything else; `set` and `get` of the event
  bus, two accesses to a Map; event handlers that throw;
- a failure of the broker itself: its addresses are durable and it is not in the repository;
- the order in which the handlers of one VIEW_CHANGE run: they are one step in GroupEditor and in
  ViewTree, and nothing checks that another order would do as well;
- what minizinc prints beyond what the code looks for.

Four hazards have no property. main may wait for a child that is blocked on its output
(`cpp/main.cpp:143`), which is outside the model. `QpidClient.send` swallows its exception
(`java/qpid/QpidClient.java:100`), of which the page could not tell anything anyway. The mark of the group
list moves to another row (`app/group-list/group-list.component.ts:78`), and a handler
registered with `once` makes `emit` pass over the next one
(`app/services/shared-data-event.service.ts:24`): both really happen, and the properties allow them.

Planned, in this order:

1. `Workbench`: ViewTree, GroupEditor and CellValues composed over their shared variables,
   with one grid.
2. SolveRelay over SolverLink instead of SolverQueue, with answers that come twice.
