# A verification project for qless-core, pk-engine-js, pk-core-js and pk-admin

The repository collects about eighty projects under `github.com/<owner>/<project>`
(`projects.txt` lists them, `sh/pull` fetches them).  Most are libraries of functions,
bindings or tools.  Two groups carry protocols of their own, with state that outlives a call,
callbacks, failures and retries:

* `seomoz/qless-core`: 24 Lua scripts, 2,200 lines, that make a Redis server into a job queue
  with clients, workers, leases and crashes;
* `logiceditor-com/codebase`: `pk-engine-js` (the browser side of games), `pk-core-js` (what it
  rests on) and `pk-admin/www` (an administration site): about 11,000 lines of JavaScript,
  comments included, where everything happens in callbacks.

The modules here model their cores, TLC checks them on small instances, and TLAPS proves their
main properties for every instance.  Paths of Lua sources below are relative to
`github.com/seomoz/qless-core`, those of JavaScript to `github.com/logiceditor-com/codebase`.

## 1. The system

### qless: how it runs

Clients and workers are processes in any language.  They keep no shared state: each call is
one script that Redis runs to its end before it starts the next, so a script is atomic with
respect to all others.  What interleaves is the *order* of calls, and between two calls of a
worker anything may happen to the job it holds.  A script that raises an error keeps what it
wrote before: Redis does not roll back.  Time is an argument of each call.

| component | state | operations |
|---|---|---|
| jobs | hash `ql:j:<jid>`: state, queue, worker, retries, remaining, failure, tags, priority | put, cancel, get |
| queues | sorted sets `ql:q:<q>-work` (by priority), `-locks` (by end of lease), `-scheduled` (by time due), `-depends`, `-recur` | put, pop, peek, pause, unpause |
| leases | entries of `-locks`, and `ql:w:<worker>:jobs` | pop, heartbeat, complete, fail, retry |
| dependencies | `ql:j:<jid>-dependencies` and, the other way round, `-dependents` | put, complete, depends, cancel |
| failures | lists `ql:f:<group>`, set `ql:failures` | fail, unfail, pop, retry, put, cancel |
| history | `ql:completed` | complete |
| tags | the list in the hash, index `ql:t:<tag>`, counts `ql:tags` | tag, put, cancel, complete, recur |
| recurring jobs | template `ql:r:<jid>`, `-recur` | recur; pop and peek spawn from it |
| configuration | `ql:config`, `ql:paused_queues` | config, pause, unpause |
| workers, statistics | `ql:workers`, `ql:s:*` | workers, deregister_workers, stats |
| tracking | `ql:tracked` | track |

A job is *waiting*, *scheduled*, waiting for others (*depends*), *running*, *complete* or
*failed*.  `pop` gives jobs to a worker under a lease.  The worker renews it with
`heartbeat` and ends it with `complete` (possibly into another queue), `fail` or `retry`.
A lease that ran out is not noticed by anyone until a later `pop` of that queue, which takes
one from the job's remaining retries and either gives the job to the caller or fails it.

### qless: what is hard

* One fact lives in several keys: where a job is (the hash and five sorted sets), who has it
  (the hash, `-locks`, the worker's job set, and the process's own memory), what it waits for
  (two sets, one at each end), whether it failed (hash, list, index).  Seven scripts move
  jobs and each must update all of them.
* Workers act on stale knowledge: after a lease is lost, or a client moved or cancelled the
  job, the old owner still calls heartbeat, complete, fail or retry, with the queue it
  remembers.
* Processes die holding jobs; a limit on concurrency must neither be exceeded nor be used up
  by the dead.
* `cancel` recurses and can fail half-way.
* The boundary of `zcount` and `zrangebyscore` includes `now` on both sides.
* Names, counts and times of recurring jobs are in separate keys.

`PROJECT.json` lists each hazard with its line and the properties that cover it.

### qless: what makes it correct

A job is in exactly the set its state calls for; no live lease changes hands; who owns a job
agrees with who is recorded; nobody waits for a job that cannot release it; retries are counted
once; limits hold; failed and completed jobs are found by their index; tags and priorities in
an index agree with the hash; recurring jobs come on schedule and under fresh names; and,
once clients stop, every job comes to an end.

### The browser: how it runs

JavaScript runs one callback at a time, to its end or to the exception that ends it where it is.
What interleaves is the order of callbacks: frames, answers to requests, files that arrive or
fail, timeouts, clicks.  An exception keeps what the callback wrote before.

| component | state | operations (callbacks) |
|---|---|---|
| main loop | `can_process_events_`, the browser's request for a frame | `start`, `run_frame_` |
| event queue | `queue_` | `push`, `run`, events that push events |
| requests | each sent, answered, badly answered or lost | `send_request` and its callbacks |
| `PK.Error` | depth of `handle_error`, `critical_error_raised_`, handler | `handle_error`, `critical_error` |
| viewport | list of screens, `is_drawing_`, `must_redraw_` | `show_screen`, `return_to_previous_screen`, `request_redraw`, `draw` |
| integrity | `must_check_integrity_`, timer | `check`, in each frame |
| loader | preloader count, `resources_loaded_`, chains of checks | `init`, `check_loaded_data` |
| graphics, sounds | images by name; counts of loaded and of all sounds, errors, timeout | `load_graphics`, `load_sounds`, events of the browser |
| board, topology | `chips_` | `place_chip`, `swap_chips`, `fill_chips`, `burn_chips`, `shift_chips_down` |
| undo | two stacks, `current_memento_`, `read_only_` | `Before_do`, `Undo`, `Redo`, `Clear`, `Make_read_only` |
| navigation | the address, `last_topic_` | `go_to_topic`, the change event of Ext.History |
| pages | the panel of each topic, panels being built, requests to save | `init`, `show`, `hide`, saving and its answers |

They meet in the frame: `run_frame_` first asks for the next one, then runs the events that
answers have pushed, checks the integrity of the input handlers and draws the viewport, with
`handle_error` around all of it.

### The browser: what is hard

* A frame that throws half-way leaves flags and the queue as they are at that point, and
  must still be followed by the next frame.
* `handle_error` throws too, and counts its own depth to notice recursion.
* Loading adds up images and sounds, and each image that arrives starts its own chain of
  checks; sounds that were given up may still arrive or fail.
* Panels are built when their columns, properties or record have come; by then the user may
  be on another page.  What an editor saves is found by two different routes.
* Undo's two stacks and its memento have to stay a time line through changes, clears and locks.
* `fill_chips` can fail with part of the cells filled, before it tells anyone.

### The browser: what makes it correct

Events run in order and none is lost, but behind one that fails; a failure does only the
damage that it causes; a redraw asked for is made; the game is told once, and only with
everything there; failed sounds are told; undo walks along the states that were made; the page asked for
is the page in view, and what is saved is saved under its own id.

`PROJECT.json` lists each hazard of both groups with its line and the properties that cover it.

### The rest of the repository

`PROJECT.json` names every group of projects with its main files.  Two more have behaviour
that is worth models of their own (section 7): the coroutine dispatchers (copas, simulua) and
the messaging libraries (zbus, lua-websockets, jet).  The others are pure functions on tables,
text and data, bindings to C, compilers, or programs that run other programs.

## 2. Modules

| module | what it is |
|---|---|
| `Qless` | jobs, queues, leases, dependencies, failures, history: the core |
| `QlessLoose` | `Qless` with two kinds of careless client |
| `QlessLive` | fairness, and progress of `Qless` |
| `QlessBudget` | `Qless` with a record of how often each job was handed out |
| `QlessJobs` | abstract specification: leases and blocking without queues, sets, retries |
| `QlessRefinement` | the mapping of `Qless` to `QlessJobs` |
| `QlessTags` | tag lists, the index of tags, the counts |
| `QlessOrder` | scores and priorities: which job a pop takes |
| `QlessRecur` | recurring jobs |
| `QlessWorkers` | the known workers, their job sets, and who deletes them |
| `PkEngine` | main loop, event queue, requests, errors, viewport, integrity |
| `PkLoading` | preloader, images, sounds, and the checks that find them loaded |
| `PkUndo` | undo and redo |
| `PkTimeline` | abstract specification of undo: the states in their order, and a place in them |
| `PkBoard` | the match-3 board, its topology, and a listener that draws it |
| `PkAdmin` | navigation, a table and an editor that are built late, saving |
| `MCQless`, `MCBudget`, `MCRecur` | instances for TLC |
| `MCProgress` | qless without clients, and the board with all its calls, one at a time |
| `MCParts` | tags, order, recurring jobs, workers and the turns of the board, one at a time |
| `MCBrowser` | the engine, loading, undo and the pages, one at a time |
| `PkSequences` | filtering a sequence, as `PkEngine` and `PkBoard` do, by a recursive function |
| `QlessInvariant`, `QlessTheorems` | the inductive invariant of `Qless`, and what follows for `Qless` and `QlessBudget` |
| `QlessRefinementProofs` | `Qless` implements `QlessJobs` |
| `QlessPartsProofs` | proofs about tags, order, recurring jobs and workers, and about `MCParts` |
| `PkSequenceLemmas` | lemmas about numbers and sequences that the proofs below share |
| `PkProofs` | proofs about the engine and loading |
| `PkBoardProofs` | proofs about the board |
| `PkPartsProofs` | proofs about undo, its refinement included, the pages, and `MCBrowser` |

A definition named as a *mutant* in its comment is a variant of the code with a plausible bug.
No specification uses it; the property named beside it in `PROJECT.json` fails when it takes
the place of the real one.

### Qless

One action per script, or per outcome of a script where outcomes have little in common.

| action | script |
|---|---|
| `Put(q, j, delayed, r, D)` | put.lua: creates a job or moves it from any state |
| `Pop(q, w, n)` | pop.lua: `Allowance` (max-concurrency), reclaiming of `Expired` leases, promotion of due jobs, `Assign` |
| `Heartbeat`, `Fail`, `Retry` | heartbeat.lua, fail.lua, retry.lua |
| `Advance`, `Complete` | complete.lua with and without a next queue |
| `Refused(j, w)` | heartbeat, complete or retry answer false and the process gives up |
| `Cancel(S)` | cancel.lua: all of S, or the part that was done when the error came |
| `DependsOn`, `DependsOff` | depends.lua |
| `Unfail(g, q, n)` | unfail.lua |
| `Peek`, `Pause`, `Unpause`, `SetLimit` | peek.lua, pause.lua, unpause.lua, config.lua |
| `Crash(w)`, `Lapse(q, j)`, `ComeDue(q, j)` | a process dies; time passes |

The variables are Redis keys, one to one, except `held`, which is what each process
remembers: the queue it popped a job from.  It is the argument of complete and retry, which the
scripts never compare with the hash.  `Fail` is open to every process that still remembers
the job, because the script does not check the owner.

Abstractions.  A lease is `live`, on the `edge` (its score equals `now`: valid for `zcount`
and expired for `zrangebyscore`) or `over`, a delay is `wait` or `due`, and time passing moves
them on; lengths of time are left out, so every relative speed is covered.  A pop takes any
members of a sorted set that its LIMIT lets through, `QlessOrder` says which.  User data,
the history inside a job, statistics and notifications are left out.  Which jids clients name
as dependencies is the constant `MayWait`.

The client discipline of `Spec`: no delayed put of a job that still has dependencies, and no
heartbeat for a job the process gave back.  Both are accepted by the scripts; `QlessLoose`
adds them, and shows what they break.

### QlessJobs and QlessRefinement

`QlessJobs` is what users are told: a job is absent, ready, blocked, live or lapsed with an
owner, done or dead.  `HandOut` takes only ready and lapsed jobs; `Finish` readies in the same
step exactly the jobs that waited for it alone; `Remove` takes jobs together with all that
wait for them.  The mapping reads a job's phase from its hash and from its entry in the
`-locks` of the queue that the hash names.

### QlessTags, QlessOrder, QlessRecur, QlessWorkers

These look at one more kind of data each, with the life of a job reduced to what matters
to it.

`QlessTags`: the list of tags in a hash (with repetitions: put takes what it is given), the
index and the counts, and the five ways in which put, tag add, tag remove, cancel and the
trimming of history write them.

`QlessOrder`: `priority - now / 10^10` is a pair of a level and a time, since `now` is below
10^10 and priorities are integers; a bare priority has the time 0.  The actions are the ways
into `-work` (`Enter`: put, retry, unfail, complete; `Free`: dependencies; `Hand`: due jobs)
and out of it, and `SetPriority`.  `Return` is the one for jobs whose hash has the priority already,
with the branches of a next queue that delays the job or makes it wait for others.

`QlessRecur`: `On`, `Off`, `SetInterval`, `SetQueue` are recur.lua; `Spawns` says how the
loop of pop.lua:120-180 divides its budget among the templates that are due (the earliest is
served until it is through; ties in any order); `Hand` writes hashes, sets, counts and times.
The jobs' later life is `Keep`, `Move` and `Delete`.

`QlessWorkers`: of a job only its worker and the end of its lease are kept, in numbers, since
the workers script compares times.  `WorkerPops` is pop with the jobs of expired leases it
finds (`lost`), those that are failed (`out`) and those of `-work` (`fresh`); a pop of a
paused queue, which takes nothing, registers the worker all the same.  `Renews`, `Ends`, `Fails`,
`Withdraws` are heartbeat, complete and retry, fail, put and cancel, `ListWorkers` and
`Deregister` the two scripts.  `quiet` records the jobs whose worker let max-worker-age pass without a
pop since their renewal, `disowned` those that a former worker failed: the two ways in which a
job set may be wrong.  As in `Spec`, a process that retried a job does not renew it.

Several specifications meet in one instance, so each has names of its own: `TagsSpec`,
`OrderSpec`, `RecurSpec` (and `NoReuseSpec`, without a second `on` after `off`), `WorkersSpec`, `EngineSpec`,
`LoadingSpec`, `UndoSpec`, `BoardSpec`, `AdminSpec`.

### PkEngine

An action is a whole callback.  `Frame` is `run_frame_` (main_loop.js:28): it runs the events
that are queued up to the first that fails (`FrameEventFails`), else makes the integrity check
(`FrameIntegrityFails`), else draws (`FrameDrawAsserts`, the assertion about recursive draws;
`FrameDrawFails`, a screen that throws), and else is done (`FrameDone`).  Each sets just what
the code had set when the exception came.

| action | code |
|---|---|
| `Send`, `AnswerData`, `AnswerBad`, `AnswerLost` | ajax_request_helper.js: an answer becomes an event, an error, or nothing |
| `SetErrorHandler` | log_system.js, the game's handler |
| `ShowScreen`, `ShiftScreens`, `ReturnToPrevious`, `RequestRedraw` | viewport.js |
| `InputFails` | user_input_handlers.js, a callback of the mouse that throws |
| `LoseHandlers`, `TimeUp` | other code on the page takes a handler; the timer of integrity |
| `Start`, `Allow` | main_loop.js |

What an event does is its kind: ask for a redraw, push another event, prohibit events, raise a
critical error, throw.  The frames and the order of events are explicit; `arrived`, `first`,
`ran` and `failures` record, for the properties, what came, what ran first, how often, and what threw.
`handle_error_calls_` is only ever compared with 0, and stops at `MaxLeaks`.

### PkLoading

`InitLoader`, `PreloaderLoad` (loader.js), `LoadGraphics`, `ImageLoad`, `ImageFails`
(gfx_store.js; a second image under a name replaces the first), `LoadSounds` (once), `CanPlay`, `SoundFails`, `Timeout` (sound_store.js) and `Check`, a chain of
`check_loaded_data` that ends or sets its next timeout.

`LoadSounds(format, listeners)` has every outcome of `return_sound_extension_by_browser_support`.  A
format is found; there is no `Audio`, which disables sound, and `load_sounds` throws at its first
sound; or no format is known, which is a critical error.  That error is thrown where errors are
handled already or nobody handles them, and stops `load_sounds` before it has set anything;
otherwise it returns, sound is disabled, and `load_sounds` makes its sounds and sets its timeout all
the same.  A browser without `addEventListener` (`~listeners`) stops it at the first sound as well.

### PkUndo and PkTimeline

`Do` is `Before_do` with the change that follows it.  `PkTimeline` keeps one sequence of states
and a position.  The mapping is: the undo stack, the document, the redo stack backwards.

### PkBoard

`PlaceChip`, `SwapChips`, `FillChips`, `BurnChips`, `ShiftChipsDown` are the calls that change
the board.  `FillFails` is `fill_chips` with `fail_on_difference` at the chip where it throws: the empty cells
that its loops came by before (`Before`) are filled, and `on_change_` is not called.  `Burned` finds runs from
the cells where they start, as the code does.  `ShiftedColumn` is the scan of a column in place:
`Fall`, the body of the loop, counts an empty cell or moves a chip within the column that the next
round reads.  `drawn` is what a listener shows that redraws the
cells it is told of, `unreported` the cells that failed fills have changed since they were last named.
`TurnNext` has burning and falling alone, the turns of a game.

Boards are square and have two columns or more: `init` takes `width_` from the length of `chips[1]`,
which is a column, and `height_` from the number of columns (board.js:54-55), and every access
is `chips_[x][y]`.

### PkAdmin

`GoTo` sets the address, by a link, a button of the browser or `go_to_topic` (its third parameter,
which shows the topic at once, is in `Another`); `Changed` is Ext.History finding the address changed; `Show` hides the topic in view and starts
building the panel of the next; `Arrives`, `NeverArrives` are columns, properties and records;
`Save` and `Saved` are the request to save and its answer, `Another`, `BackToTable`, `CloseError` the
buttons of the message box.  The panels that are being built are a sequence, in the order they were asked for,
of which any may be the next to go on.  `overlapped` records the pages that were being built when
another was asked for, and those asked for meanwhile; only these may be in view or saved wrongly.

## 3. Runs

All runs finish within the limits of a laptop; the largest takes about three minutes on two cores.
Those that end with a counterexample are in a table of their own below.

| run | instance | checks |
|---|---|---|
| `leases` | 2 jobs, of which one may wait for the other, 2 queues, 2 workers, 1 retry, delays | types, placement, owners, exclusiveness of leases; `Qless` implements `QlessJobs` |
| `dependencies` | 3 jobs, any dependencies, cycles included, 2 queues, 1 worker | the dependency relation, nobody stranded, with partial cancels |
| `limits` | 3 jobs, 2 queues, 1 worker, limit 2 lowered to 1, pops of 1 or 2, 1 retry, a named group of failures | the limit, the count of attempts, the indexes of jobs that ended |
| `progress` | qless: 3 jobs in a chain, 2 workers, limit 0 or 1; board: 2 by 2, 2 kinds of chips, all calls, fills that fail | liveness of qless; what a listener draws |
| `parts` | tags: 3 jobs, 2 tags, lists with repetitions; order: 3 jobs, 2 priorities, 3 ticks, pops of 1 or 2; recurring: 1 template, 2 queues, 2 intervals, on twice; workers: 1 job, 2 workers, leases of 1 tick, max-worker-age of 2; board: every filling of 3 by 3 with 2 kinds of chips, runs of 2 and 3 | index and counts of tags; the order of pop; schedule, queue and names of recurring jobs; what workers answers; burning, falling, topology |
| `catching_up` | 2 templates, 1 queue | the budget of a pop; nobody starves |
| `browser` | engine: 2 requests, each of which may push an event, that fails or not, 1 screen shown twice; undo: 3 mementos of 2 documents; loading: 3 images under 2 names, 2 sounds, 1 image of the preloader, all outcomes of the search for a format; pages: a table, new items, 1 element, 2 panels built at once | order of events, damage of failures, errors, redraws, integrity; undo implements `PkTimeline`; loading and what the game is told of its sounds; pages and saves |

`progress`, `parts` and `browser` each compose parts that share no state: the initial state says which of them
moves, and the others rest; the constant `Moving` chooses the parts of `MCBrowser` that may (`recursive_draw`
needs the engine only).  So each is checked exactly as it would be alone, and every part
reaches all its states.

Why the bounds are enough.  Placement and ownership relate one job, the queue it is in and
the one it came from, and an old and a new owner: two queues, two workers, and a second job
as competitor.  Dependencies need a chain of three (a middle job that blocks and is blocked).
In `leases` jobs fail for want of retries only; fail by a worker, with a group of its own, is in `limits`
and `progress`, and with the properties of `leases` in their theorems.
Limits need three jobs for a limit of two, and pops of two; one worker is enough, since a limit counts the leases of a queue and not whose they are.  Order needs one job to be
handed out, one left, and one that moves between them, with ties and non-ties.  A template
needs two spawned jobs to have an interval between them, and a second template to compete.
For what workers
answers, a job, an owner and a former owner are enough, with a lease shorter than the age at which a
worker counts as gone, and time for a worker to go, to be deleted and to come back.
`HistoryCount` is 1 or 2 so that trimming happens.  Two requests give a queue an event that
fails with others before and behind it, and one pushed in the middle of a pass.  Two of three images
share a name, so that one is replaced while it is under way; two sounds are the least with which
one arrives and another is given up.  Two mementos on the undo stack with one on the redo
stack make every pair of stacks at the depth.  A board of three has runs across, along and crossing, and columns with gaps
above and below; as every filling of it is an initial state of `parts`, the properties of burning, falling and
topology are those of pure functions on all its fillings.  Drawing relates two boards, for which two by two is
enough: a cell that a failing fill has filled, one that differs, and one that it did not come to.
Two panels at once are the least with which a page is overtaken by another, and data by those of another.

The bounds on counts are `MaxNow`, `MaxTime` and `Latest` (clocks), `MaxOns` (calls of recur on),
`MaxCopies` and `MaxCount` (tags), `MaxRequests`, `MaxScreens` (the code's own, 10 there and 2 here), `MaxLeaks`,
`MaxInits` and `MaxSaves`; the core of qless has none: its counters are bounded by the retries.

`CHECK_DEADLOCK FALSE` stands where a system may rest: all clients satisfied, the
clock at its bound, all files loaded, no request for a frame.

Fairness.  The qless part of `ProgressSpec` starts with all jobs put and no clients
(`LiveInit`), and `LiveFairness` of `QlessLive` assumes weak
fairness of popping each queue (workers are loops around pop), of what a process does with
a job it has (it ends in complete, fail, retry or death; which one is not assumed), and of
time.  It assumes nothing about heartbeats, and a heartbeat is possible on every job held.
`Advance` is left out there, since a job may tour queues for ever.  `LiveSpec` of
`QlessRecur` assumes that queues are polled, by pops that get past the expired leases, of
which there are finitely many at a time.

`BrowserSpec` of `MCBrowser` assumes that the browser calls a frame it was asked for
(`WF(Frame)`: `requestAnimationFrame` or a timeout), that the timer of the integrity check runs
out, that the timeouts of loading come and that an image is in the end either loaded or failed
(browsers fire one of the two events), that Ext.History looks at the address, and that
what a panel waits for comes or is known not to.  Nothing is assumed of sounds, of answers to the
engine's requests, or of users.

### Disagreements with the documentation

Five runs have one property each that states what a document, a comment or a message of the
code says, and a counterexample.  The last column has that line.

| run | what happens | against |
|---|---|---|
| `delayed_put` | put with a delay ignores the dependencies a job already has (put.lua:147), so the job runs before they are complete | pop.lua:302 |
| `late_heartbeat` | after retry, a late heartbeat locks the waiting job (heartbeat.lua:31), and another worker is given it under that lock | README.md:306 |
| `off_and_on` | recur off loses the count (recur.lua:82), and on spawns onto jobs that exist, so a job is handed out twice | README.md:306 |
| `recursive_draw` | a screen throws while it is drawn, `is_drawing_` stays set (viewport.js:175), and from then on every frame stops at an assertion though no draw is under way | viewport.js:166 |
| `documented_order` | pop takes the highest priority first (pop.lua:209), and of one priority jobs that were delayed or blocked before older ones (pop.lua:196, complete.lua:223) | README.md:141, :420, :533 |

The counterexample of `documented_order` is about the priority; `PutsInOrder` says exactly which jobs
go before older ones of their priority.

Others were met while the models were written.  The modules have the behaviour of the code, and no
property claims the opposite; where there is one that says how far this goes, it is named:

* a pop moves only as many due jobs as it wants (pop.lua:190), the others stay scheduled whatever their
  priority, where README.md:478 has all that are due join the queue first: `PriorityFirst` says behind which;
* a job put with other tags stays in the index of its old ones (put.lua:98, against README.md:519), and
  tagging a job with what it has raises the count (tag.lua:49, against README.md:522): `CarefulKeepsExact`
  says which calls keep the index and the counts exact;
* workers deletes the job sets of workers that renew their leases but do not pop (workers.lua:44; a
  heartbeat puts its own job back and no other), and a fail by a former owner leaves the job in its new
  owner's set (fail.lua:67), against README.md:361: `WorkersAnswer` says which jobs these are;
* without a handler `handle_error` throws before it lowers its depth (log_system.js:254); the next
  critical error leaves the flag up, and all later ones are only logged as recursive
  (log_system.js:214): `ErrorsBalanced` says that a handler keeps both;
* `fill_chips` may throw with cells filled (board.js:273), before it tells its listeners, which are called
  on any change by board.js:41: `ListenersCurrent` says which cells a listener may have wrong and until when;
* a record that arrives after its page was left adds its panel beside the page in view
  (table_element_editor_maker.js:639), and of two editor panels the first is saved with the data of the
  second (table_element_editor_maker.js:301): `PageInView` and `SavesOwn` say which pages these may be;
* complete with a delay leaves the state waiting and answers scheduled (complete.lua:141-146);
* a job whose lease ends at this very moment is counted both as running and as stalled
  (workers.lua:57-58);
* with more leases than a lowered limit allows, the negative count is no LIMIT and pop hands
  out every expired job (pop.lua:37); `WithinLimit` shows that it adds none;
* when several sounds are given up, the failures before are dropped (sound_store.js:112);
  `FailuresReported` states exactly that;
* `init` of a board exchanges width and height (board.js:54-55), so a board that is not square is
  scanned beyond its array or in part only, and one of a single column stops at `chips[1]`.

## 4. Proofs

Everything below is for any sets of jobs, queues, workers and groups, any retries, limits,
intervals and priorities; any number of requests, images, names, sounds, elements and
documents, any depth of undo and any size of board; under the assumptions each module states
about its constants: the null values differ from real ones, numbers are natural, and `Jids`,
`Sounds` and `Names` are finite.

**Qless.**  `InvariantKept` is `Spec => []IInv`, where `IInv` is the conjunction of all the
safety invariants with loose types.  None is inductive alone:

* a pop marks whatever it finds in `-work` as running, so `Placement` after it needs that only
  waiting and scheduled jobs are there before it: `Placement` itself;
* complete and retry clear the entry in the queue the caller names, so `Placement` needs
  `HolderCurrent`; and that needs `OwnerListed` and `Placement`, to know that whoever
  reclaims or moves the job also changes the owner in the hash;
* complete frees `dependents[j]` and puts them in the work of the queue their hashes name,
  which is right only because exactly the jobs in the depends state wait
  (`NothingStranded`) and both sides agree (`DependencyInverse`);
* trimming the history must not delete a job that somebody waits for: completed jobs have no
  dependents, by `NothingStranded` and `CompletedIndexed`.

`DependencyInverse` is the exception: the first part of `QlessInvariant` proves it from the
types.  The proof of the step has one lemma per action; `QlessTheorems` derives each property
from `IInv`.

`LeasesHonoured` (`Spec => LeaseHonoured`) is an action property: by `IInv` the owner of a live
lease is in the hash of a running job; pop gives away only expired leases and jobs of
`-work`, which have none; every other script that changes the owner clears the lease.

`AttemptsCounted` (`BudgetSpec => []AttemptsBounded`) classifies what a step may do to a job
(`Fate`: begin a new stage, leave it alone, move it on, cost it a retry, fail it), with one
lemma for each group of actions, and shows that the record of attempts then agrees
with the hash (`Counted`): a job at rest was handed out once for each retry it has lost, a running
one once more.  `Placement` says that what a pop takes is at rest or runs, `RetriesLeft` that
the last retry is the one before the failure.

`LimitsHold` (`Spec => WithinLimit`).  Only pop makes leases (`ClientsLeaseNothing`,
`EndsLeaseNothing`, `TimeLeasesNothing`): a heartbeat renews one that is there, by
`HolderCurrent` and `Placement`.  `PopAdds` is the arithmetic of pop: each lease of the queue is counted
against the limit, or may be reclaimed, or, on the edge, both; either all
expired leases are reclaimed, and what is taken from `-work` fits under the limit with those that
are left, or as many as the count are, and what is taken only replaces jobs that
have failed.  A negative count, after a limit was lowered, reclaims all that expired and takes nothing else.

`PromisesKept` (`Spec => KeepsPromises`) is the refinement.  There is one lemma per script: it
names the step of `QlessJobs` that the script is, or that it is none, and the jobs whose phase it
changes; all others keep phase and owner (`Stutters`, `Moves`).  Each takes `IInv` before and
after the step.  A complete is one `Finish`, which readies the jobs that waited for this one alone,
because the code finds them by `dependents` and the mapping by `dependencies`; a cancel that stops
half-way is one `Remove`; a pop that reclaims, fails and hands out jobs is one `HandOut`.

**QlessTags** (this and the next three in `QlessPartsProofs`).  `TagsFound` holds for all clients.
`ExactnessKept` says that a careful call
keeps exact counts exact, whoever else calls; `CarefulCounts`, that counts are always exact
where all clients are careful, that is, tag a job with what it lacks.

**QlessOrder.**  `ScoresCurrent`: the level of a score is the priority in the hash.
`HighestFirst` (`OrderSpec => PriorityFirst`): of `-work`, pop takes the highest scores, hence the highest
priorities.  A due job may be left in `-scheduled` only when the LIMIT was used up: then
all that were moved were due no later (`Firsts`), and they are as many as the pop hands out at most.
`TakenInOrder` (`OrderSpec => PutsInOrder`), about jobs in `-work`, needs in addition what a score says of the time a
job came (`DatesInv`): a job that was put has the time of its put for a date, all others the
time 0, and no date is later than now.

**QlessWorkers.**  `WorkersAnswerRight`.  What `workers` deletes is decided by ql:workers,
which has a worker's last pop or nothing (`SeenCurrent`); so whoever loses its set has been without a pop for
max-worker-age, and its running jobs are recorded as quiet (`QuietNoted`).  All that ends a lease has one lemma,
`ReleaseKeeps`: the set it is struck from is the owner's, or the entry becomes disowned.

**QlessRecur.**  `TemplatesPlaced` and `ScheduleKept` rest on an invariant that the
time of the next job is greater than the interval, so that shifting it by the difference of
two intervals never makes it 0, and on the arithmetic of the loop (`Fits`, `Loop`).
`JobsPlaced` adds that no job's number is beyond the count of its template, which holds
because `on` keeps the count, and fails after `off`.
`SpawnedOnDemand` (`RecurSpec => SpawnOnDemand`) is about numbers of jobs, which mean something only of
finite sets, and the sets of templates and of jobs need not be finite.  `FewInv` says that finitely many
templates are on and finitely many jobs wait; that what a pop
spawns is finite follows by mapping each new job to its template and its number in the
backlog (`FewSpawned`), and a pop that leaves a job waiting has
handed out as many as it was asked for.

**PkEngine** (in `PkProofs`).  `EventsInOrder` (`EngineSpec => []FirstRunsInOrder`).  A pass that fails leaves the
whole queue, so the next pass runs events again; the invariant (`QueueInv`) is that the first n
events of the queue have run, the others have not, and the others are the rest of what arrived
(`RanUpTo`); that no event is in the queue twice; and that the event an event pushes is
there only after it has run.  `DamageExplained` follows from the same invariant, since n is
positive only after a failure.  `ErrorsStayBalanced` is an action property of every callback:
with a handler in place, `handle_error` reaches the line that lowers its depth.

**PkLoading** (in `PkProofs`).

* `ToldWhenLoaded`: two counts are added on both sides of the test of `check_loaded_data`.
  The invariant says that the loaded images are no more than the names that have one, and the
  counted sounds no more than all (`loaded_sounds_` is the number of sounds that are settled,
  `SoundsCounted`), so the sums agree only when both parts do; and `resources_loaded_` cuts
  every further chain.
* `FailuresTold`: until loading is complete, `errors_` is the set of the sounds that failed, and the list has
  not been turned off (`ErrorsDropped` and the other parts of the invariant); so what the last sound
  reports is all of it (`OneReports`), and what the timeout reports depends on how many sounds it gives
  up (`TimeoutReports`).

**PkBoard** (in `PkBoardProofs`), for boards of any size.

* `ListenersKeptCurrent`: each call that returns names every cell that it changed, and a fill that fails
  records the cells that it has filled as unreported.
* `TopologyRight`: the cells next to a cell and on a ray from it lie n steps of its direction
  away (`StraightAhead`), and so the direction from one to the other is found again.
* `RunsBurned`: the code follows rays from the cells where runs start, the property speaks of segments.
  From any cell of a segment of alike ones there is a first that is alike, found as the least
  member of a set, and its ray reaches at least as far as the segment.
* `ChipsSettle`: `shift_chips_down` changes the array that it scans.  The cells above the one that is
  looked at are as they were, those below are filled or emptied as the scan left them, and `dy` is the
  number of empty cells below.  `Landing(x, y)` counts these, and says where each chip comes to lie when the scan is through; the chips
  above keep their order because `Landing` is strictly monotonic on them.  The column
  afterwards is empty down to one place and full from there on, and full of the same chips.

**PkUndo** (in `PkPartsProofs`).  `UndoSound`: whenever something can be redone, the memento is the document
(`MementoCurrent`, which is the assertion of `Redo`, undo_redo.js:68), and the two stacks
together never exceed the depth, though nothing trims the one for redo (`DepthBounded`).
`UndoImplementsTimeline` (`UndoSpec => KeepsTimeline`) rests on both: redo pushes the memento
where the time line has the document, and the time line cuts its past where the code drops
the bottom of the stack.  Its lemmas are about appending, reversing and cutting sequences.

**PkAdmin** (in `PkPartsProofs`).  `PagesInOrder` and `SavedUnderOwnId`: `Orderly` says of every page that is not in
`overlapped` that it is in view only as the page asked for, known to its topic, with no panel being
built, and that the data an editor finds then are its own.  The panels being built are all of pages in
`overlapped` (`Overlapping`), or there is a single one, of the page asked for (`Building`).  A page that is
asked for while panels are being built puts itself and all of them into `overlapped` (`AllOverlap`);
and while one is being built, every panel in view is of a page in `overlapped` (`OthersOverlap`).

**The compositions.**  `PartsSound` and `BrowserSound` state the types and all the safety
invariants of the runs `parts` and `browser`, and `ListenersCurrent`, of the compositions themselves, for any constants.
A step of a composition is a step of each part, a stutter of those that rest
(`EachMoves`, `EachPartMoves`), so the parts' invariants are kept together; the types that they leave open are
proved beside them (`EngineTypes`, `LoadingTypes`, `AdminTypes`).

**Induction.**  The library's induction theorems are about operators, which no prover here can
instantiate.  `PkSequenceLemmas` derives the least member of a set of numbers from the fact that their order
is well-founded, and from that induction in terms of sets, which can be
instantiated: it is what the proofs about filtering sequences (`Those`), falling chips and
runs use.  Where the code filters, the models use `Those` (`PkSequences`) and not `SelectSeq`,
which is a `RECURSIVE` operator.

**Only model-checked**: the liveness properties (`EventuallySettled`, `ExpiredReclaimed`, `CaughtUp`,
`EventsRun`, `FramesServe`, `LoadingEnds`, `PageShown`), which need fairness and `ENABLED` and are out of
the prover's reach.  Every other property of a passing run is stated by a theorem.

## 5. Hazards without a property

Where the code fails in any case, a property that it does not would be a run with a counterexample
and no more; five of these are above, and the others are in the list that follows their table: the stale entries and
the drifting counts of tags, the sets of quiet workers and of disowned jobs, the depth without a handler.

No document says what should happen in two more, which are consequences of a failure that lasts:

* an integrity check that throws never sets `must_check_integrity_` again (integrity.js:39), so there are
  no more checks; `DamageHasCause` says that nothing else has this effect;
* an image that fails is never counted (gfx_store.js:44), so loading does not complete; `LoadingEnds`
  says that only this, and a browser without `addEventListener`, keeps it from completing.

The others are small, and a test shows what happens:

* dependency cycles are accepted, and jobs in one wait (put.lua:138); `unfail` with a count of 0
  moves the whole list; `priority` of a job that does not exist raises an error instead of
  returning false; `recur update` takes intervals of zero or less; put of a failed job lowers
  the failed count of the queue it goes to (put.lua:116); clocks of workers may differ;
* the settings of a client are saved as a whole, by whoever changes one
  (client_settings.js:58, :105); the dialog of table_view_maker.js:366 deletes the rows
  selected when it is answered; listeners of a login pile up with repeated calls of
  social_network_api.js; the pressed button of a control stays pressed when the pointer leaves
  the page.

## 6. Not modelled

qless: statistics, history inside jobs, tracking, notifications and the scripts that only read
(get, jobs, queues, failed, stats) change nothing that another script decides by.  Fractions of
seconds and clocks that go back are left out.

pk-engine-js: the trees of controls, drawing and geometry, playing sounds, the adapters to
four social networks (whose interfaces are external and not in the repository), translations.
pk-core-js: conversions and lookups, which are pure.  pk-admin: forms, grids, renderers,
filters, linked tables, the settings of a client; they hand on what Ext gives them.

Of the JavaScript in the repository, tens of thousands of lines, most is
other people's: builds of SproutCore (the same code several times, plain and packed), jQuery with
plug-ins, leap.js, a calendar, copied beside samples.  They are no part of these systems, and
are left alone.  The models cover about 1,500 lines of the first-party JavaScript, those where state
is kept across callbacks, and 1,250 lines of Lua.  No honest extension would come near a
third of all the JavaScript.

## 7. Plan

Done: the survey; `Qless` with its abstract specification, liveness and budget; tags, order,
recurring jobs and workers; the engine, loading, undo with its abstract specification, the board, the
pages; the proofs of section 4.

1. Proofs: invariants of `QlessJobs` (that a blocked job is blocked by something, that dead jobs
   have no owner), which then hold of `Qless` by the refinement; bounds on the numbers of the parts.
2. Linked tables and deletion in pk-admin, against the grid that is reloaded meanwhile.
3. `QlessStats`: the counters of a day (put.lua:105-120, complete.lua, fail.lua, unfail.lua).
4. `Copas` (keplerproject/copas): sockets in the read and write sets against suspended
   coroutines: no coroutine lost, none resumed for an event of another.
5. `ZbusBroker` (lipp/zbus) and `WebsocketClient` (lipp/lua-websockets): pending calls and
   their timeouts, the close handshake.
