# TLA+ models of netnslab

netnslab builds network labs out of Linux network namespaces: `deploy` turns a
YAML file into namespaces, veth pairs, bridges, addresses and routes, `destroy`
removes them again, and `ui` serves a browser front end with packet captures,
batch commands and terminals. This directory holds TLA+ models of the code in
`../src`, the TLC configurations that check them and proofs for TLAPS.

The models read from the command line up to the browser. Modules named MC hold
the instances for TLC, modules named Proofs extend the module they prove about.

| module | models | checked with | proved in |
|---|---|---|---|
| `LabRegistry` | what deploy and destroy promise about a lab (abstract) | through `LabLifecycle` | `LabLifecycleProofs` |
| `LabLifecycle` | the two commands, one `ip` command or file operation per step | `MCLabLifecycle` | `LabLifecycleProofs` |
| `Addressing` | the address plan a deploy makes first | through `RoutePlan` | `PlanProofs` |
| `RoutePlan` | static routes and default gateways from that plan | `MCRoutePlan` | `PlanProofs` |
| `CaptureTasks` | the packet captures of the UI server | `MCCaptureTasks` | `CaptureTasksProofs` |
| `BatchExec` | the commands of a batch, their pool and deadlines | itself | `BatchExecProofs` |
| `ExportStore` | archives of artifacts, tokens and downloads | `MCExportStore` | `ExportStoreProofs` |
| `TerminalTabs` | terminals: tabs, websockets, handlers, shells | itself | `TerminalTabsProofs` |
| `TopologyView` | the browser's view of a lab | `MCTopologyView` | `TopologyViewProofs` |
| `BatchDrawer` | the browser's batch operations | `MCBatchDrawer` | `BatchDrawerProofs` |

`PROJECT.json` says for every definition which lines it models.

## The system

**deploy and destroy** (`internal/cli/commands.go`, `internal/netns`,
`internal/mgmt`, `internal/labstate`). State: the namespaces, links and bridges
of the kernel, the run directory `/var/run/netnslab/LAB` with one directory per node and
`lab-state.json`. Nothing locks any of it, so that several commands, or one
that follows a killed one, interact through that state. Every operation is an
external command with a ten second timeout (`runCommand`), or a file operation.
Hard: an error at any of several dozen steps, with a deferred rollback; a kill,
without one; a timeout whose command had its effect; two commands at once. It is
correct when a lab nobody works on is complete or gone, what is left can be
found and removed, and a deploy never harms another lab.

**address plan** (`internal/topology`) and **static routes**
(`internal/routing`). Pure functions of the configuration that fill in
`Interface.IP`, `PeerIP` and `Link.Subnet`, in loops over links and over Go maps,
whose order is arbitrary. Correct when no subnet or address is handed out twice,
acceptance does not depend on map order, and the routes of all routers together
bring a packet to its subnet.

**configuration** (`internal/config`): reads and validates YAML. It keeps no state;
what an accepted configuration is enters the plan as an assumption (`IsConfig`).

**captures** (`internal/ui/batch_capture.go`). State: the map `captureTasks`
under a mutex, a tcpdump and a waiting goroutine per capture. Interacts with
HTTP handlers in goroutines of their own. Hard: the lock is given up between the
check and the store of a task, and between removal and interrupt. Correct
when no running tcpdump is lost and no ended one is listed.

**batch execution** (`internal/ui/batch_exec.go`). State: for the time of a
request, a channel of jobs, a pool of at most 32 workers and a list of results. A
command has a deadline. Hard: `Run` waits for the pipes of a command as well, and
the deadline does not close those. Correct when every node asked for is run once
and the answer says what became of it.

**exports** (`internal/ui/artifact_export.go`, the download handler of
`server.go`). State: the map `exportFiles` from tokens to files which expire, under a
mutex, and the files, under none. Hard: a file has the name of its lab and second,
so that two exports can share it; a download opens and removes the file outside
the lock. Correct when a token yields the archive it was made for, and no archive stays
behind.

**terminals** (`internal/ui/terminal.go`, `static/app.js:1266-1605`). State: the tabs of
the browser and which one is active; per terminal a websocket, a handler, a
goroutine that copies from the pty, and the shell. Hard: either side may
close at any moment, a tab may be opened by the answer to an older click, and the
size of a pty follows from window, font, tabs and socket in any order. Correct
when no shell outlives its tab and the shell on display has the size of its
container.

**topology view** (`static/app.js`). State: `state.lab`, `state.topology`,
`state.selectedNode`, the graph, the list and the details, the snapshots that
differences are made from, the refresh interval. It is one thread, but each
`await` lets other handlers in, and answers come in any order. Correct when
the panes agree with each other and come to agree with the server.

**batch drawer** (`static/app.js`). State: the selection, the places that show it,
the filter, and one result pane that all operations write to. Correct when what is
marked is what is sent, nothing is done to a node that was not shown as marked, and
the pane does not stay at "Running".

The browser talks to the server by HTTP requests and websockets only, and the
server to the other commands only through what it finds in the kernel and in the run
directory.

**UI server, read-only commands, logging, entry point**: no state of their own.

## What is modelled

### LabLifecycle and LabRegistry

A process runs one command. `pc` names the stage of `NewDeployCommand` or
`NewDestroyCommand` it is in, `todo` what is left of the stage's loop (any
element may be next: Go map order), `cur` the element in work. A stage is one
action: `EnsureLabDirs`, `CreateNamespace`, `EnsureLoopbackUp`,
`CreateVethPair`, `MoveEndA`, `MoveEndB`, `ConfigureLink`, `ConfigureNode`
(bridge ports, sysctl, routes, netem, startup script), `CreateMgmtBridge`,
`CreateMgmtPair`, `MoveMgmtEnd`, `ConfigureMgmtEnd`, `WriteNodeEnvFile`,
`TruncateState` and `WriteState`, the two halves of `os.WriteFile`. The
teardown, shared by the rollback and by destroy, is `ClearNetem`,
`DeleteMgmtVeth`, `DeleteMgmtBridge`, `DeleteNamespace`, `RemoveEntry` and
`RemoveLabDir`. Every action has an outcome: success, failure, or failure after
the effect. Success needs the objects the command names; a failure without that
cause, a late one and a `Kill` count as faults. `spoilt` records the labs of which a
removal failed, since the code ignores those errors.

Abstracted: which addresses, routes and sysctl values are set (done or not
done), and what the startup script does. Some actions are several `ip` commands or file
operations on one object: `ConfigureLink`, `ConfigureNode`, `CreateMgmtBridge`, `MoveMgmtEnd` and
`EnsureLabDirs`. The directory of logs, which is made and removed beside the run directory and which
neither command reads, is left out, and so is the second `DeleteLink` of a teardown, for
links that older versions named (`mgmt/bridge.go:72`). The kernel is modelled by what the code
relies on: a deleted namespace takes its devices along, a veth its peer.

`LabRegistry` is the promise: a lab is absent, building, deployed, removing or
damaged; deployed means all of it, absent nothing. `LabLifecycle` implements
it under the mapping `StatusOf`, `ExtentOf`. Pairs that failed before their first
end was moved are not in a lab's extent: no rollback and no destroy
removes them.

### Addressing and RoutePlan

`cfg` is an accepted configuration: kinds of nodes (numbered in the order of their
names), links with endpoints and perhaps addresses, and the pools. An
address is a number with the size of its network. `phase` and `li` follow
`AllocateAddresses`: `CheckShape`, `ManualLink`, `CollectSegments`,
`BridgeSegment` (for any bridge left), `DirectLink`, `CheckDuplicates`. An
allocator is its counter `next`; it cuts a pool into blocks from the start of the pool,
which `IsConfig` knows to be a multiple of the block, as `net.ParseCIDR` clears the host bits.
`RoutePlan` goes on with `ComputeStaticRoutes` (`BuildGraph`, `bfsNextHop`,
`findNextHopIP`) and `HostDefaultGateways`. The search is a recursive function over the
visits of the queue, and a visit (`Visit`) one over the links: the `Neighbour` of each link is
met in the order in which `BuildGraph` appends it, and `Discover` skips one that has been
visited, so that the second of two parallel links changes nothing, as it adds nothing to
`Adjacency`. Go map order decides about nothing else there: a subnet's first owner and a
router's neighbours come from the list of links.

Abstracted: interface names, since every end of a link is an interface of
its own (validation refuses duplicates); IPv6, which the code refuses; node kinds
with spaces around them, which validation lets pass and nothing else knows.

### CaptureTasks

A request walks the nodes it was given: `CheckRunning`, `Launch`, `Store` for a
start, `RemoveEntry` and `Signal` for a stop, then `Respond`. Each is the code
between two points where other goroutines can run, the two critical sections
among them. `Exit` is tcpdump's end, `Reap` and `Forget` the goroutine
that waits for it; `Restart` replaces the server, whose processes live on.
Filters, file names and the listing are left out.

### BatchExec

`Refuse` is the check at the head of the request, `ReadName` the loop that trims
and deduplicates the names one by one, `Accept` the filling of the channel. A worker does
`TakeJob`, `FinishJob`, `EndWorker`; between the first two, the command of its job does
`ExitCommand` or `KillCommand` (its deadline), and may leave a child that holds its
pipes until `Release`. A command ends with any code of its own, 124 included, or by a signal
(-1); `Killed` in `exits` tells the signal of the deadline from others, which `ExitCode`, as in
Go, does not. That a command ends is when `Wait` sees it: killed before, it counts as killed. `PassDeadline` is the deadline that passes while `Run` waits
for them. `Answer` is what follows `wg.Wait`. The texts of output are left out;
`asked.sound` stands for all of a request but its names.

### ExportStore

An export is also its token, and goes through `Create`, `Write`, `Register`; a download
through `Lookup`, `Open`, `EndDownload`, `Remove`; each is the code between two points
at which another goroutine can see a difference. A file records who wrote it last and
whether all of it is theirs. `Tick` is the clock in seconds, on which names and expiry
depend. The histories `shared` (names two exports used) and `taken` (tokens
downloaded) only serve the properties. Which artifacts are collected is left
out.

### TerminalTabs

A session is its number. The browser's side is `OpenLive`, `OpenNow`,
`OpenLoaded`, `OpenFails`, `ClickTab`, `ClickClose`, `ChangeMode`, `SelectLab`, `Zoom`,
`ResizeWindow` of the user and the callbacks `Observe` (ResizeObserver), `OnOpen`,
`OnClose`; the server's is `Upgrade`, `StartShell`, `Resize`, `EndHandler`, `ExitShell`,
`EndReader`. A size is the pair of window size and font it was computed from, since
only equality of sizes matters; `term`, the messages in `sent` and `pty` are the three
places it passes through. Left out: bytes, colours, the second resize message of a frame, which
repeats the first, and two changes of the window within one frame.

### TopologyView

A pending `loadTopology` is a record in a slot of `calls`: what it asked for and with
which options. `Answer` and `Fail` are everything that follows its `await`, to the end
of the handler that waited, with the second load for a node in between. The server
gives the lab as it was at any time since the request was sent; `Redeploy` changes its
shape. The handlers are `LoadLabs`, `Tick`, `SelectLab`, `Refresh`, `ToggleLive`,
`ToggleDiff`, `ToggleAuto`, `TapNode`, `ClickRow`, `OpenTerminal` and `Fold`. `crossed` and
`early` are histories for the properties. Left out: positions and zoom, labels, the
information float of an edge, the hint line.

### BatchDrawer

`Reselect` is what all changes of the selection do; `ToggleNode`, `Clear`, `AddMatched`,
`OnlyMatched`, `TypeFilter`, `OpenDrawer`, `CloseDrawer`, `SetBatchTab`, `ChooseExport`,
`SelectLab` are the handlers; `DrawTopology` and `TakeTopology` the answers to topology
requests, which may come at any time here. `Run`, `Stop` and `List` send a request,
`ServeStart` and its like are the server's whole work on it (its steps are in
the modules above), `Arrive` its answer, which for start and stop sends the list that follows. What a
filter matches is the constant `Matching`. `Refuse` is a refusal, or the loss of a request or of
its answer, after which the server may have acted. `intact` and `hidden` are histories.

### What the modules share

The browser's three modules meet in `state.lab`, the answers to topology requests and clicks on
nodes. Each has its own copy and admits any order in which the others may
act on it: `BatchDrawer` and `TerminalTabs` let answers of topology requests come at any time, and
`TopologyView` lets any node be chosen at any time. The lines of a
handler that belongs to two of them are mapped in each, for the part it models.

## What is checked

Every property has a mutant of the code's model that TLC finds to violate it; the
mutants stand beside the definition they change.

| run | bounds | shows |
|---|---|---|
| `lifecycle` | 3 commands, 2 labs, 2 nodes, 1 link, 1 fault of any kind | `ImplementsRegistry`; `LeftoversKeepTheirDir`: what a kill left has its run directory; `SavedOnlyWhenBuilt`: the state file is true when written; `FaultFreeNeverFails` |
| `lifecycle_live` | 2 commands on one lab at the same time, 1 fault | `EveryCommandEnds` |
| `captures` | 3 requests, 1 node, 1 restart | `RunningIsTracked`, `TrackedHasWaiter`, `EndedIsForgotten`, `StopEndsCapture` |
| `planning` | all labs of 4 links between 4 nodes of four mixes of kinds, rings, islands, bridges, stars at the limit of a subnet, configured addresses; LAN subnets of 8 | `SubnetsApart`, `AddressesUsable`, `AcceptedIfPlannable`, `RoutesLead`, `FailsOnlyWhenSplit`, `GatewaysLocal` |
| `batch_exec` | up to 3 names out of 3 nodes, an unknown one and a blank; 1 or 2 workers | `AnswerCoversRequest`; `CodesAreHonest`: 0 means success, a kill by the deadline is told as 124, 124 means a passed deadline or the own code of the command, and other codes are the command's; `BatchEnds` |
| `exports` | 3 exports, 2 downloads, 1 lab, 4 seconds, entries live 1 | `TokensHaveFiles`, `SendsItsArchive`, `FilesAreOwned` |
| `terminals` | 2 labs, 2 terminals, 2 fonts, 2 window sizes, 3 acts of the user | `TabsConsistent`, `SizeInSync`, `SessionEndsWhole` |
| `topology_view` | 2 labs in 2 shapes with a name in common, 2 requests in flight, 3 acts, 1 failure | `DetailFollowsSelection`, `DiffWithinLab`, `EveryIntervalIsHeld`, `ViewSettles` |
| `batch_drawer` | 2 labs with a name in common, 2 requests in flight, 5 acts, 3 filter texts, one of them no regex | `MarksFollowSelection`, `ProgressEnds`, `ListTellsOutcome`; `TouchesOnlyShown`: once the list shows the lab, nothing is done to a node that was not marked in it |

Why the bounds are enough. Three commands on a lab are the longest chain that
matters: one that leaves something, one that meets it, one that meets what that
one left; all three may instead share two labs and collide on names that do not
carry the lab. Two nodes and a link have every stage's work, with a first and a
last element. A second fault falls into a rollback that already ignores its
errors. Three requests on one node are a capture, a stop, and a start that races
with both. With four nodes a search has two hops to go, a ring two ways round,
and an island two members; the pools hold all subnets, or run out. Three names over two
workers make a worker take a second job, and a list may repeat a name or spoil a
sound one. Three exports are two that share a name and one beside them; two
downloads race for one token, and four seconds let an entry expire between any two
of their steps. Two terminals are an active one and another; three acts open one,
change something, and change it back while the socket connects. Two requests in flight
are enough for answers to overtake each other, with three acts to send them, choose
another lab and do one thing more. In the drawer five acts are: open it, select, run, change the lab, run again.
Every passing run also has a mutant for each of its properties, which shows that
the case the property is about is reached within the bounds.

Fairness. `LabLifecycle` assumes that a process takes its next step, which the
timeout of `runCommand` justifies; the step that runs a startup script
is excepted, because `RunStartupExec` has no timeout. `CaptureTasks` assumes that
goroutines run and that an interrupted tcpdump ends; one that is not
interrupted need not. `BatchExec` assumes that goroutines run and deadlines pass, not that a
command or a child of it ends. `TerminalTabs` assumes that callbacks are called and
goroutines run; not that a user acts or a shell ends, nor that the request of a
socket which the browser has given up arrives. `TopologyView` assumes that the server
answers or fails and that the interval ticks; the user need do nothing.
`Addressing`, `RoutePlan`, `ExportStore` and `BatchDrawer` are checked for safety only.

`CHECK_DEADLOCK FALSE` stands in every configuration: the models end when every
command or request is done and every plan is made.

### Where the code does not keep what it says

Three runs state what the code says, and TLC must find them violated.

| run | the code says | it does |
|---|---|---|
| `interrupted_destroy` | README: destroy tears down a deployed lab | once the management bridge is gone, every destroy fails before it deletes a namespace |
| `concurrent_deploys` | `commands.go:47`: a deployed lab is refused | two deploys pass the check together, and the rollback of one deletes the lab of the other |
| `p2p_order` | `addressing.go:357`: lexicographic by node name | the addresses are swapped with the ends: the order is that of the file |

More of the kind was seen while modelling; no run is spent on these.

- `commands.go:47` advises to run destroy first, but a directory without a state file refuses
  the deploy and destroy cannot load it.
- The peer of a management pair is created as `eth0` on the host, which may have one.
- `batch_capture.go:155` refuses a capture that is running, but two starts can pass the
  check together, and the first tcpdump is lost. `RunningIsTracked` therefore excepts overlapping starts.
- `examples/README.md` speaks of static routing between routers, but a router reached
  through a bridge only makes the whole deploy fail. `FailsOnlyWhenSplit` says when else.
- When the automatic refresh is switched on before `init` has loaded anything, `init` starts a second
  interval that nothing can stop (`app.js:2153`). `EveryIntervalIsHeld` excepts that case by `early`.
- A late answer of the lab selected before leaves a snapshot of it, with which a node of the same
  name in the new lab is compared (`app.js:1061`). `DiffWithinLab` excepts that case by `crossed`.
- The errors per node that a start shows are overwritten at once by the list that follows
  (`app.js:287-289`), so that `ListTellsOutcome` can only speak of the list.
- Run is disabled without a selection even when the export is of all nodes.
- `batch_exec.go:151` reports 124 for a command that failed in time, if a child of it held the output
  beyond the deadline, and `batch_exec.go:149` for one that returns 124 itself: only the text "timeout
  after" tells them apart. `CodesAreHonest` says what can be concluded from a code.
- After a change of the lab the batch selection stays (`app.js:1923-1929`). Until the topology arrives, a
  click on Run acts on nodes of the new lab by names that are marked in the list of the old
  one. `TouchesOnlyShown` is about the time after that.
- `batch_exec.go:144`: the timeout of a command does not end the batch while a child holds
  its output. `BatchEnds` names that as the only exception.

## What is proved

For every value of the constants (TLC: the instances above). The named ASSUMEs of the
models, which TLC evaluates in the passing runs, are the only assumptions on them, but for the
hypotheses on `SameLab` and `HostEth0` given below.

- `LabLifecycleProofs!TypeCorrect`: type correctness of both commands. The
  inductive invariant `TypeInv` adds what each stage's loop may hold and which
  element a process in the middle of one has in `cur`; without that, a namespace
  could be created for a link.
- `LeftoversAreAnnounced`: `LeftoversKeepTheirDir`, where
  commands on one lab do not overlap (`SameLab = FALSE`; with overlap it is
  false, as `concurrent_deploys` shows for its neighbour). The invariant says what each stage of
  a teardown has already swept: whatever is left of an unspoilt lab is still in a loop ahead of the
  process, or the directory is there.
- `StateFileIsTrue`: `SavedOnlyWhenBuilt`, also for `SameLab = FALSE`. `BuildInv` says for each
  stage of a deploy what it has done to every element that is no longer in its loop (`Deeds`),
  so that at the end of the last loop all of the lab is there when the file is written.
- `LifecycleImplementsRegistry`: `ImplementsRegistry`, the initial state and every step, a kill and
  a late failure included (`SameLab = FALSE`). A step must start from a state that the abstract
  action allows, so `RegInv` adds that a lab without a command is built or gone (`Settled`), that
  no file is there without the directory (`Filed`), that an end of a pair is in a namespace that
  exists (`Housed`), and how far a teardown has come among the files.
- `FaultFreeCommandsSucceed`: `FaultFreeNeverFails`, for `SameLab = FALSE` and where a management
  network is not enabled on a host with an `eth0` of its own, a case that does fail. `SmoothInv` is
  the other half of `BuildInv`: as long as no fault has happened, nothing that a stage makes is there
  yet for an element still ahead of it (`AllAhead`), and the element that a process holds is
  where its step expects it (`Held`).
- `PlanProofs!TypeCorrect` and `SubnetsNeverOverlap`: `SubnetsApart`, for
  any number of links and bridges in any order. `SubnetsApart` says nothing of
  subnets to come, so `HandedOut` is added: every subnet is one of the first
  `next[x]` blocks of pool x and within it. `NextIsNew` then derives that the
  next block is apart from all of them, by arithmetic inside a pool and by
  `Apart(pools)` between the two; `TakingKeepsApart` is the one argument for both
  allocating actions.
- `AddressesAreUsable`: `AddressesUsable`. `PlanInv` says that an interface has the address of
  its number in the subnet of its link (`PlacedInv`), that the links of a bridge share one
  (`SharedInv`), and which interfaces have had their turn (`ServedInv`). Numbers on a bridge are
  ranks, counted as a cardinality; `RanksDiffer` derives from the order `Before` that they differ.
- `OrderDoesNotMatter`: `AcceptedIfPlannable`. `CountInv` says that a counter is the number of
  segments and links served, so that a rejection for lack of room means that the pool is
  too small for all of them, whichever came first; `DuplicateMeans` and `SkippedMeans` tell
  the rest of the rejections from the configuration.
- `GatewaysAreLocal`: `GatewaysLocal`. That every CHOOSE of the code's first bridge, node or link
  finds one rests on `Least`, from the well-foundedness of < on the natural numbers.
- `PlanTypeCorrect`, `StaticRoutesLead`, `FailureMeansSplit`: `PlanTypeOK`, `RoutesLead` and
  `FailsOnlyWhenSplit`, hence that breadth-first search is right. `Iteration` gives the recursive functions
  their values (by `Induction` on a set of numbers, so that no operator has to be instantiated).
  `Swept` is the invariant of the search, between any two links of a visit: parents lead back to the source
  one level at a time, the queue is sorted by level and spans two of them, and every neighbour of a
  router that has left the queue has been reached. `VisitSweeps` keeps it, `SearchEnds` counts the
  visits, `SearchFinds` concludes that either a shortest way was found or a set that no link
  leaves, and `NextHopLeads` that the next hop is the first router of a shortest way. So each hop by the
  table of another router is one link nearer to the owner (`WalkArrives`), and the search is stuck exactly where
  the routers are split. `WellAddressed` is the condition in both properties; configured addresses may
  not meet it, but every plan without them does (`AutomaticPlansAreWellAddressed`).
- `BatchExecProofs!TypesHold`, `CodesHonest`, `EveryNodeOnce`: the three invariants of the run, for any list of
  names and any number of workers. `ExecInv` says of the names read so far that each is in the list once
  (`NamesInv`), that the channel holds the jobs not yet taken, in their order (`QueueInv`), that a
  job taken is in the hands of one worker or has its result (`WorkersInv`, `JobsInv`), and
  that only a deadline kills and a result is made of the way its command ended (`CodesInv`).
- `CaptureTasksProofs!TypeCorrect`, `EntriesHaveWaiters`, `NoCaptureLost`:
  `TrackedHasWaiter` and `RunningIsTracked`. They rest on tasks being fresh when
  they are launched, on a goroutine removing only after its process was reaped,
  and on a start that is alone finding no entry of a live task.

- `ExportStoreProofs!TypeCorrect`, `ArchivesAreOwned`, `TokensKeepFiles`,
  `DownloadsSendTheirArchive`: `FilesAreOwned`, `TokensHaveFiles` and `SendsItsArchive` for any
  number of exports and downloads, any lifetime and any clock. The strengthening says where a
  path comes from and that it is set while it is used (`Placed`), that whoever shares a
  path is known to (`ClashesKnown`), that a writer's file is there unless the name is shared
  (`WritersHaveFiles`), and that a download about to remove has taken its entry out
  (`TokensEnd`); so no removal still to come is that of a token in the map.
- `BatchDrawerProofs!TypeCorrect`, `SelectionIsShown`, `RequestsTouchOnlyShown`,
  `ProgressIsReplaced`, `ListsTellOutcomes`: all four properties of the run. `MarksFollowSelection` is
  inductive as it stands, and so is `ProgressEnds` over the types.
  `ListTellsOutcome` needs `Knows`, what each request in flight knows of the
  captures that nobody else touched. `TouchesOnlyShown` joins the browser's half to the server's:
  as the list marks every selected node that it shows, a request with a hidden node names one
  that its lab lacks (`Sound`), and such a request is refused as a whole.
- `TopologyViewProofs!TypeCorrect`, `SelectionIsDetailed`, `DiffsStayInTheirLab`,
  `IntervalsAreHeld`: the three invariants of the run. `TypeInv` adds to the types that there is no
  request and nothing drawn before a lab is chosen, and that a timer held is an
  interval that runs; over it the first two are inductive. `HeldInv` adds that at most one
  request is that of `init`, which ends it once, and that a timer is only held while the box is ticked.
- `TerminalTabsProofs!TypeCorrect`, `TabsStayConsistent`, `SizesEndInSync`: both invariants of
  the run. `ViewInv` is the browser's half: the active tab shows, and a terminal that is seen and
  has been observed has the size of its container (`Fitted`). `Synced` is the other half: the last
  message on its way, or else the pty, has the size of the terminal. The two together
  give `SizeInSync`. That `FirstTab` is a tab rests on `LeastExists`, from the
  well-foundedness of < on the natural numbers.

Every invariant of every run is stated by a theorem, and so is the refinement. Only model-checked are the liveness
properties (`EveryCommandEnds`, `StopEndsCapture`, `EndedIsForgotten`, `BatchEnds`,
`SessionEndsWhole`, `ViewSettles`): they need fairness, and with it ENABLED, which these provers do not
handle. The three violations are TLC's counterexamples. Of commands that overlap on one lab, which
`SameLab = FALSE` excludes, only the types are proved, and only their end is model-checked.

## Plan

Done: deploy and destroy against `LabRegistry`; address plan, routes and gateways; captures; batch
execution; exports; terminals; the topology view; the batch drawer. Left, in this order:

1. `MgmtPlan`: management addresses, which are counted in one byte
   (`mgmt/bridge.go:86-110`).
2. Composition of `CaptureTasks` with `LabLifecycle`: captures of a lab that is
   destroyed and deployed again.
3. Proofs: what two commands that overlap on one lab still keep, which `SameLab = FALSE`
   excludes from the theorems of `LabLifecycleProofs`; the safety half of
   `EveryCommandEnds` and `BatchEnds`, a measure that every step of a command lowers.

## Not modelled

- YAML decoding, flags and wording of errors: no state. What an accepted configuration is enters
  as an assumption (`IsConfig`).
- The read-only commands, the UI server's routing of requests, and the
  topology picture it makes of live `ip` output: functions of what they read.
- The drawing of the front end: layout and positions, themes, labels, the float with an
  edge's information (which stays open when another lab is selected), the
  hint line (which keeps "Loading..." after a failed load that was not silent, `app.js:1770`), and the export of the picture as PNG
  or SVG. No other part reads any of it.
- Pinning of nodes in the graph: a double click, timed by a `lastTap` that all nodes share, unpins one
  beside what the single clicks do (`app.js:819-831`).
- The text of commands, filters of captures, contents of archives.
