# Verification of ros2_hzj_dds

TLA+ modules, TLC configurations and TLAPS proofs kept beside the Python code of
this repository. The vendored middleware (Fast DDS, Cyclone DDS, rmw) and the
ROS and Unitree client libraries are external: they appear only as what the code
expects of them.

## The system

| Part | Code | State it keeps | Operations |
| --- | --- | --- | --- |
| G1 motion | `dimos_bridge/.../g1/effectors/high_level/dds_sdk.py` | `_stop_timer`, the timers it made, what the robot executes | `move`, `stop`, `publish_request` (7105), auto-stop |
| G1 posture | same file | none of its own; the robot's FSM state | `stand_up`, `lie_down`, `publish_request` (7101) |
| ROS pubsub | `dimos/protocol/pubsub/impl/rospubsub.py` | node, executor, spin thread, stop event, publisher and subscription tables | `start`, `stop`, `publish`, `subscribe`, unsubscribe, `_spin` |
| DDS pubsub | `impl/ddspubsub.py`, `service/ddsservice.py` | participants, writers, readers, listeners, callbacks | `start`, `stop`, `publish`, `subscribe`, unsubscribe, listener dispatch |
| Pubsub interface | `pubsub/spec.py` | queues, seen topics, discovered subscriptions | `sub`, `queue`, `aiter`, `subscribe_all`, `subscribe_new_topics` |
| Transports | `core/transport.py` | a lazily started pubsub each | `broadcast`, `subscribe`, `start`, `stop` |
| Conversion | `impl/rospubsub_conversion.py` | two caches of classes | copy between dimos and ROS messages, directly or through LCM bytes |
| Ping-pong benchmark | `scripts/bench/pingpong.py` | expected number, event, stamps, results; nodes, buses, responder processes | one loop in four case functions, listener, responder; building and taking down a case, the report |
| Throughput benchmark | `pubsub/benchmark/` | counters, event | publish for a while, wait for the drain |
| Chain environments | `config/env/`, `dual_chain_env.py` | process environment | `apply_a`, `apply_b`, exports |
| Benchmark runners | `scripts/bench/run_*.sh`, `collect_env.py`, `write_summary.py` | the artifact folder of a runner and topology | one script around `pingpong.py`, may be interrupted |
| Gates | `scripts/check_*.py`, `print_bench_gates.py`, `prove_rmw.py` | none; they read documents, scripts and maps | exit 0 or 1 |
| Evaluations | `scripts/eval/` | results so far | five suites, one exit code |

A module's `cmd_vel` stream is delivered by a transport to `move` on the
transport's thread, while RPC workers call `move`, `stop`, `stand_up` and the
rest on theirs. A transport owns a pubsub; the ROS one calls back on its spin
thread, the DDS one on a reader's thread. The benchmark uses the DDS pubsub, or
rclpy directly, from a client thread whose listener runs on the middleware's.
So every part is called by several threads, and most shared attributes are not
locked: the hard behaviour is interleaving (check-then-act on `_stop_timer`,
`_node`, `_ros`, the listener tables), stop racing with use, timers and late
messages, and calls that fail half-way.

What makes each part correct:

- motion: the robot never walks unattended, a stop that took effect stays in
  effect, timers do not pile up;
- posture: AI mode is started from the state the robot is in; an obeyed
  `stand_up` ends with the robot standing if it was down (if it stood, and
  `ai_standup` is on, the toggle squats it);
- ROS pubsub: one spin thread, none after `stop`, handles only of the current
  node, a started pubsub delivers;
- DDS pubsub: a subscription is served from the return of `subscribe` until it
  ends, and not after;
- benchmark: a round trip belongs to its ping, every ping is accounted for, the
  loop is closed, the run ends;
- transports: a message reaches a pubsub that is up, what a transport believes of
  its pubsub is true at rest, its lock is released;
- mixins: no subscription is left behind by `unsubscribe_all`, each topic is
  announced once, a queue gives its reader what was put in it;
- conversion: a message that goes there and back is the same message, and its
  counts are those of its arrays;
- environments and runners: a case starts on a clean process, the report says
  what happened, its notes name the environment it was measured in, the files of
  a run agree, the prompt comes back;
- gates and evaluations: when they vouch for a tree, no forbidden claim is in it,
  what the maps cite is there, and the two scripts set chains that are apart.

The code keeps most of this and not all: where it does not, a passing run checks
what it does keep, with the exception in the property, and a run that expects a
violation shows the rest where a comment, docstring or text of the repository
promises it.

## Modules

| Module | Models | Runs |
| --- | --- | --- |
| `G1Calls` | the callers of the G1 SDK and their statements | through the three below |
| `G1Motion` | velocity commands and the auto-stop timer | through `MCG1`, `g1_cancel_race` |
| `G1Posture` | posture commands | through `MCG1` |
| `MCG1` | both halves of the SDK for TLC, one to a session | `g1_sdk` |
| `PubSubSession` | what starting and stopping a pubsub promises the callbacks (abstract) | through `RosPubSub` |
| `RosPubSub` | `RawROS` under `DimosROS`, refines `PubSubSession` | through `MCRosPubSub` |
| `MCRosPubSub` | `RosPubSub` for TLC, with bounds on the calls that overlap | `ros_pubsub` |
| `PubSubContract` | what a subscriber is promised (abstract) | through `DdsPubSub` |
| `DdsPubSub` | `DDS` over `DDSService`, refines `PubSubContract` | `dds_pubsub` |
| `Transports` | the three families of transports | `transports` |
| `Mixins` | what `spec.py` builds on publish and subscribe | through `MCMixins` |
| `MCMixins` | `Mixins` for TLC, with the symmetry of the dispatchers | `mixins` |
| `Conversion` | the copies between dimos and ROS messages | `conversion` |
| `PingPong` | the benchmark's loop, listener and responder | `pingpong` |
| `BenchRun` | one run of `pingpong.py` around that loop | through `ChainRuns` |
| `ChainRuns` | environment contracts, runners and their files, over `BenchRun` | `chains`, `chain_notes` |
| `EnvScripts` | the two environment scripts as texts | through `Evals` |
| `Gates` | the document gates, over `EnvScripts` | through `Evals` |
| `Maps` | the two source maps and their gates, over `Gates` | through `Evals` |
| `Evals` | `run_evals.py` over an edited tree, over `Maps` | `evals`, `evals_verdicts` |
| `G1Proofs` | theorems about `G1Motion` and `G1Posture` | (TLAPS) |
| `RosPubSubProofs`, `DdsPubSubProofs`, `TransportsProofs`, `MixinsProofs`, `PingPongProofs`, `ChainRunsProofs`, `EvalsProofs` | theorems about the module of that name (`ChainRunsProofs` also about `BenchRun`) | (TLAPS) |

Conventions. `pc[c]` is the next statement of a thread and is named after it; a
statement that reads an unlocked attribute is a step of its own, also when it
reads it again just after a test. A `with lock` block is one step where all that
it uses is under that lock; where it is not, as in the unsubscribe of `RawROS`,
whose `_node` a `stop` clears without the lock, the block is several steps during
which the others may not take the lock. A code path that holds no shared state is
folded into its neighbour. An attribute that is `None` is the number 0. A Python
exception leads to the location `raised` (or back to `idle` where the method
catches it).
Variables marked *history* record what happened, for the properties only; no
guard reads them. An operator commented *Mutant* is a wrong version of the one
after it; the properties are known to fail when it replaces that one.

`G1Motion` and `G1Posture` share `G1Calls`: the same threads call both halves of
the SDK, which share no state but the robot; `MCG1` checks the two in one run, a
session being of one half while the other stands still.

`G1Motion`. `check`, `loadCancel`, `cancel`, `clear` are the statements of
`_cancel_stop_timer`; `command` the call of the Unitree client; `create` to
`start` the three statements that arm the timer. `phase` and `cancelled` are a
`threading.Timer`: `Expire` is the end of its wait with the test of its
cancelled flag, `AutoStop` the callback. `motion` is what the robot executes:
`continuous` until commanded otherwise, `timed` for a `SetVelocity`, which the
robot ends itself. A failing call may or may not have reached the robot, and
fails by an exception or by its return code, which `move` does not look at: it
then arms its timer. An attribute read twice may be `None` the second time
(`UseNone`): the exception of `cancel()` leaves the method, that of the arming
statements is caught.

`G1Posture`. The ladder of `stand_up` is a chain of `Command` steps with the
queries between them; a refused command does not stop the ladder, an exception
ends it. The robot is in the state last accepted; damping and zero torque let it
sink; 706 swaps squatting and standing. `aiStandup` is the configuration value,
chosen once. Three histories say what a property may go by: `answer`, what the
robot said to the last query of the caller; `known`, that it is still where the
caller last saw or sent it; `clean`, that since the call began it did all it was
told by the caller and was told nothing by another.

`RosPubSub`. *Owners* call `start` and `stop`, *users* the rest. Nodes,
executors and threads are numbered as they are made, so that an old one is told
from the current one. One topic stands for all, since the tables are keyed by
topic. Of rclpy: a destroyed node raises when used, `spin_once` on an executor
that was shut down raises, an executor runs only callbacks of the node added to
it, and an exception of a callback leaves `spin_once`. A spin thread takes a
message in one step and begins its callback in the next; an unsubscribe or a stop
may fall in between. Any call that `start` makes may raise, and leaves what was
set so far (`halfway`, `faulted`); `stop` reads `_executor`, `_spin_thread` and
`_node` anew at each use, and so raises when another thread cleared one.

`PubSubSession`. The mode is what the calls of `start` and `stop` have done: down,
starting, up, stopping until the join, quiet until the node is destroyed. In
`RosPubSub` it is read off the statements of the owners and the node (`Mode`), a
subscription is active while it is on a node that is alive and was not destroyed
(`Life`), and a thread is calling from the message it takes for a callback to
the end of it (`Calling`). Calls that overlap, a join that gives up, and a start
that raised with its node made, make a session *contested*: it promises
less from then on, but still that a subscription that is over stays so, and that
a callback begins only when one is active.

`DdsPubSub`. One topic again. A subscription is a number; `Twins` are those made
with the same callback object, which one unsubscribe removes together. A
listener's `batch` and `calling` are the loops of `on_data_available`. Of
Cyclone DDS: a reader that left the table takes no new samples, and the batch in
hand is finished.

`PingPong`. Pings carry their case, so that a pong taken for another's is seen.
`ranOut` are the waits that used up their timeout, `cutShort` those that ended
with neither. The four case functions share one loop; the map points some
actions to one and some to another of them.

`Transports`. `kind` is the family: *base* are the LCM and shared-memory
transports, whose flag `_started` is tested without a lock; *ros* makes a
`DimosROS` per start; *dds* holds a re-entrant lock. The pubsub below is only
made, up or down: what goes on inside is `RosPubSub` and `DdsPubSub`. Every call
of it may raise, and the exception leaves the method past the statements after
it: a flag stays as it was, `_ros` stays assigned, the lock is released.
`unstarted` and `unstopped` are the pubsubs whose last start or stop raised;
`contested` and `overlapped` record which calls met a start or stop of another.

`Mixins`. A dispatcher has one message in hand and calls the callbacks that were
registered when its dispatch began. `isolating` is chosen once: a callback that
raises is logged (the DDS listener) or ends the thread (`RawROS._spin`).
`reported`, `joining` and `subscribed` are the three stages of `on_new_topic`. Of
`asyncio.Queue`, `get()` is the test, the getter registered and the wait; a
`put_nowait` from a dispatcher falls anywhere between them, and resolves only a
getter that is there. The watcher's callback, the subscribes of discovery and the
unsubscribes of `unsubscribe_all` may raise.

`Conversion`. A message is a record with a form (`num`, `bytes`, `array`, `list`,
`msg`); the copies dispatch on the form of the value at run time, as the code
does. Five classes stand for all: a leaf (with a renamed field, `nanosec`/`nsec`),
an element of arrays, a message of bytes and of arrays of any length with their
counts and a field that only one side has, one of arrays of a fixed length, and
one with a field that ROS declares as another kind than dimos. The set of
importable modules is chosen at first and may grow. A conversion raises when a
class cannot be imported or named, when a setter of the ROS message refuses the
value, and when `lcm_encode` is given an array of another length than its fixed one.

`BenchRun` and `ChainRuns`. `at` is the statement of `main` and of the case
function it is in, with the `finally` blocks as steps of their own; a responder
may ignore SIGTERM and a spin thread may not end. `destroy_node` and the shutdown
may raise, which makes the case an error and skips what comes after them
(`Torn`, recorded in `unclean`). The operator sources a chain,
exports variables of his own, runs a script and interrupts it. Of a file the
model keeps its status and the run that wrote it. A session looks at one run
statement by statement, or at two as wholes (`detail`), since what a run leaves
to the next is in the files and the shell only. The wholes are the reports that
`ReportAllowed` allows, and the detailed sessions check that it allows what
`pingpong.py` does (`StatusHonest`).

`EnvScripts`, `Gates`, `Maps`, `Evals`. A developer edits the tree as it is
shipped and runs the evaluations. A document is the groups of phrases its gate
looks for (each may be gone), its claims in order, and the rows of a table; a
map is a set of citations. What a regular expression matches is not modelled,
but whether it is anchored, searched once or for every match, and which lines it
excuses is. A session edits the documents, the scripts or the maps (`part`).

## Runs

Every passing run finishes its state space.

| Run | Constants | Distinct states | Shows |
| --- | --- | --- | --- |
| `g1_sdk` | 2 callers, 2 moves, every call may fail, either configuration | 534,731 | `DeadMan`, `StopHolds`, `OneTimer`, `SerialCancel`, `AiFromKnownState`, `GetsUp`, `MotionEnds` |
| `ros_pubsub` | 2 owners, 1 user, 2 starts, 2 subscriptions, slow callbacks, starts that raise | 180,569 | `OneSpinner`, `QuietWhenStopped`, `HandlesCurrent`, `DeliveryReady`, `ImplementsSession`, `StopReturns` |
| `dds_pubsub` | 2 clients, 3 subscriptions of which 2 twins, 2 listeners, batches of 2 | 860,532 | `ActiveDelivers`, `UnsubscribeHolds`, `ImplementsContract` |
| `transports` | 2 threads, 3 pubsubs, every family, every call may raise | 313,569 | `ReachesStarted`, `RaisesForCause`, `AtRestTrue`, `LockReleased` |
| `mixins` | 2 topics, 2 dispatchers, queue of 1 or unbounded | 2,885,120 | `EndsClean`, `ReaderFed`, `AnnouncedOnce` |
| `conversion` | arrays of up to 2, floats of 2 bytes, any missing modules | 172,488 | `RoundTrip`, `CountsTrue` |
| `pingpong` | 3 cases of 3 pings (1 warm-up) on shared topics | 1,791,019 | `OwnRoundTrip`, `Accounting`, `ClosedUntilLate`, `RunEnds` |
| `chains` | 2 cases, 2 runs, every runner and topology, any cases served by the other host | 239,088 | `CleanStart`, `StatusHonest`, `FilesAgree`, `RunsEnd` |
| `evals` | 2 edits of the shipped tree | 679,830 | `ClaimsCaught`, `CitesHold`, `ChainsApart` |

Three runs each find one sentence of the repository violated by its code:

| Run | Property | What happens |
| --- | --- | --- |
| `g1_cancel_race` | `CancelNeverRaises` | two threads are in `_cancel_stop_timer`: one clears the attribute between the test and the call of the other, whose exception leaves `stop` before `StopMove` |
| `chain_notes` | `NotesTrue` | `run_chain_a.sh` in a shell with the variables of chain B measures under those and notes that it sourced chain A |
| `evals_verdicts` | `VerdictsCaught` | the gate of the three-chain document does not look behind the first verdict, which a prohibition excuses |

### Exceptions in the properties

The properties of passing runs name the cases in which the code does not keep
them. These are:

- `DeadMan`, `MotionEnds`: a command refused after the timer was taken away, the
  timer's own included, and a timer that could not be started (`blind`); a
  `Move` that is only refused by its return code is none, as its timer is armed.
  `OneTimer`, `SerialCancel`: overlapping calls. Two moves that overlap may each
  arm a timer, of which `_stop_timer` keeps the later: no later cancel reaches
  the other, and it fires into whatever motion follows. For the cancel of two
  overlapping calls see `g1_cancel_race`.
- `AiFromKnownState`: another caller commanded the robot since it was last seen
  or commanded, or it did not obey the damp (`known`); the answer of the second
  query was overridden (`AsAnswered`): `self._get_fsm_id() or FsmState.DAMP`
  replaces 0, zero torque, the answer of a query that did not fail. Queries that
  fail are no exception. `GetsUp`: a command that was not obeyed, or one of
  another caller (`clean`). It says where the robot ends from either posture
  (`wasDown`): one that stood already is squatted by the toggle.
- `OneSpinner`, `QuietWhenStopped`: overlapping `start`/`stop` calls and a join
  that gave up. `ImplementsSession` has none of its own, but promises less of a
  session that is contested by these, or by a start that raised with its node
  made. `HandlesCurrent`: overlapping calls, that start, and an entry made
  between the clearing of the tables and the destruction of the node, which
  survives `stop`. `DeliveryReady`: overlapping calls, a callback that raised,
  and a thread that the system could not start, which stays recorded so that no
  later start replaces it.
- `UnsubscribeHolds`: after `stop` an unsubscribe function does nothing, and the
  batch a discarded reader has in hand still reaches the callback.
- `ReachesStarted`: a stop that raised and left the transport believing in its
  pubsub; a start that raised in a `ROSTransport`, which has assigned `_ros` by
  then and does not start it again, so that it loses what is broadcast without
  an error; calls of `start` and `stop` (of the first use too) that met another,
  in the transports without a lock. `RaisesForCause`: the same of
  `ROSTransport`, where a stop of another thread also clears `_ros` between the
  `start()` of a broadcast and the assertion after it; the others add no
  exception to those of their pubsub.
  `AtRestTrue`: the same raised calls, in one direction only, and overlapping
  ones.
- `EndsClean`: a topic whose `on_new_topic` ran while the list was copied; the
  topic whose unsubscribe raised and those after it. `ReaderFed`: messages put
  from a dispatcher's thread after the reader found its queue empty and before
  its getter is registered: they wake nobody, and the reader waits beside them
  until another one comes.
- `RoundTrip`: an array of floats, which comes back as its bytes, and a field that
  ROS does not have. Of a fixed length, such an array arrives in a message that
  is not complex only; through LCM bytes it raises.
- `OwnRoundTrip`: a pong so late that it meets a later case on the same topic
  (the cross-host topology) is taken for that case's, whose own pong then comes
  late and can meet the case after it: the wait at the start of such a chain was
  given up, those after it were not. `ClosedUntilLate`: a late pong between
  `ev.clear()` and the new `expect_seq`, which ends the next wait at once.
  `Accounting` speaks of cases that end without an exception.
- `CleanStart`: a node or context whose teardown raised, the context until a
  case ends without an error; a spin thread or responder that was told to end
  and does not; the bus of a case of chain B that raised. `StatusHonest`: across
  hosts the responder serves one QoS, and the cases of the other end without
  samples and without an error, in a report that is still `ok`.
- `FilesAgree`: files of a script that did not get to its end; a `BLOCKED.txt`
  or a `raw.json` of an earlier run stays. An `environment.md` that is `ok` may
  stand beside a `raw.json` that is `partial`: the script asks only for samples.
- `ClaimsCaught`: in the three-chain document a verdict claim after a prohibited
  one (`evals_verdicts`); in the ADR a second complete row. `CitesHold`: a line
  that moved is only a warning. `ChainsApart`: a later line of the script that
  exports or unsets the variable again (`Overridden`): the suite reads the first
  export, the shell obeys the last line, and the two chains may then share a
  domain or a middleware.

The tree as it is shipped passes every gate, and `run_evals.py` exits with 2: its
bench suite is blocked where there is no ROS.

### Bounds, and why they are enough

Two threads show every race here: each is between one thread inside a method and
one other. Two moves let a timer outlive its move and meet the next one's. Two
starts let a leftover of the first meet the second. Three subscriptions are two
twins and one other; two listeners, one discarded and one current; batches of
two have a sample in hand and one to come. Three pings have one before and one
after the one that goes wrong; three cases let a pong meet the next case and
displace its pong, which meets the one after; in `chains` two let a case start
over what another left. `MCRosPubSub` bounds which calls are entered,
never the steps of one under way: while calls take turns one owner stands for
all, a publisher is used beside one subscription and two subscriptions beside no
publisher; once calls of two owners overlap there is one start and one
subscription without publishing, or more starts and users that are idle. Three
`DimosROS` objects are one that is replaced by two threads at once, and the next. Two topics and two
dispatchers have one message each of one topic, or of two; a queue of one is
full after one message, and an unbounded one is cut at one, since it is drained
or left before it grows. Arrays of two items tell order and length apart, and a
float of two bytes is longer than an item. Two runs over one folder are one that
leaves files and one that meets them. Two edits are a claim and the one it hides
behind, a line and the one that undoes it, or two things that are wrong at once.
The bounds are `MaxMoves`, `MaxStarts`, `MaxSubs`, `MaxListeners`, `MaxBatch`,
`MaxPubsubs`, `MaxPending`, `MaxQueued`, `MaxItems`, `Cases`, `Total`, `Runs`,
`Edits`; each is a guard of the action that makes a new object, or of the set
that is chosen from.

`mixins` takes the dispatchers as symmetric, which they are: its properties
are about safety, and no definition names one.

Deadlock is checked but in `ros_pubsub`, `pingpong`, `conversion`, `chains` and
`evals`: with the bound used up, a stopped pubsub is at rest, the benchmark ends, a message has arrived, and a
session of runs or edits is over.

### Fairness

`G1Motion`: a method that was entered runs on (its calls have timeouts), and a
timer's wait is finite; nobody has to call anything, and the end of a timed
motion is not assumed. `RosPubSub`: calls of `start` and `stop` run on or raise,
and so does the spin thread, whose callbacks end; a `stop` that waits for the
lock of the tables gets it in the end though users take it again and again, as a
lock that is free time and again is not withheld from one thread for ever (strong
fairness). `PingPong`: the client's
thread runs and its wait runs out; the network owes nothing. `Transports`: a
call under way goes on, and a thread that waits for the lock may stay there only
while another holds it. `ChainRuns`: the script and the main thread of
`pingpong.py` run on (`wait(timeout=3)` and `join(timeout=1.0)` end by
themselves); neither a responder nor a spin thread owes an end. The other
modules state no liveness and assume none.

## Proofs

Each theorem has the form `Spec => []Inv` (or `Spec => [][A]_vars`), from the
assumptions on the constants that the module declares, and is proved from an
inductive invariant: it holds initially, every action keeps it, and it implies
the property. TLC checked each property, and the invariants of `PingPongProofs`,
`ChainRunsProofs` and `EvalsProofs` too, before they were proved. Two abstract
specifications, `PubSubContract` and `PubSubSession`, are shown to be implemented
by every behaviour of `DdsPubSub` and of `RosPubSub`: the initial states map to
initial states, and every step to a step or a stutter.

`G1Proofs` proves, for every set of callers, every number of moves and
every set of failing calls (`MotionAssumption`):

- `MotionAttended`: `Spec => []DeadMan`;
- `StopIsKept`: `Spec => []StopHolds`;
- `SerialOneTimer`: `Spec => []OneTimer`;
- `SerialCancelHolds`: `Spec => []SerialCancel`.

They rest on `TypeCorrect`, that a timer which is referenced has been made. A
statement may still find none: `cancel` then raises, and the arming statements
end the call. `DeadMan` alone is not inductive: a caller that is arming a timer
may find that the timer it is about to start was cancelled or started by
another. `DeadManInv` says who keeps the robot attended: a live timer; or a
caller that has taken the timer away, or has just moved the robot, and has not
yet made the next timer (`Taken`); or a caller in the arming statements whose
timer is the one recorded, still only made and not cancelled (`Arming`). A step
that ends one of the three begins another: cancelling the last live timer makes
its caller `Taken`, making a timer turns `Taken` into `Arming`, starting it
makes it live. `StopInv` adds to `StopHolds` that while it claims quiet every
method under way is a `stop`. `SerialInv` says that, while calls have not
overlapped, at most one caller is inside, the timer it holds is the one
recorded, and every pending timer is that one; both serial theorems follow from
it (`SerialAlways`).

Of `G1Posture` it proves `AiIsKnown` (`PostureSpec => []AiFromKnownState`) and
`StandUpGetsUp` (`PostureSpec => []GetsUp`), again for every set of callers, with
failures or without. `Knowledge` has two halves, for the two histories that
interference resets: `KnowsState` says, at each rung, that the robot is in the
state the caller goes by while that is known; `KnowsPosture` that a robot which
has obeyed is up or down as it was when the call began, until the damp or the
toggle. That needs one fact about the robot itself, that it is not up in zero
torque or damping, which is part of `PostureTypeOK`.

`RosPubSubProofs` proves the five invariants of `ros_pubsub`, for every number of
owners, users, starts and subscriptions: `TypeCorrect`, `StartMakesOneSpinner`,
`StopQuiets`, `TablesNameTheNode`, `StartedDelivers`. While the calls of `start`
and `stop` do not overlap, `Serial` holds: one caller is inside; `Phase` gives,
for each of its statements, what has been built or taken down so far; and when
none is inside the pubsub is `Stopped`, `Started`, or `Broken`, which is what a
start leaves whose thread the system could not start. `Phase` is why the others
are not inductive by themselves: that a new thread is the only one follows from
what `stop` left behind many steps before. Users and spin threads are shown to
keep every phase (`UserEffect`, `SpinEffect`), users with the one exception that
`raced` records.

`RosImplementsSession` proves that every behaviour of `RosPubSub` is one of
`PubSubSession`, contested or not. `Inv` is not enough for it, since it speaks of
the current node only and a subscription may be on any: `NodesInvariant` adds that
no other node is alive while calls do not overlap, so that `stop`, which destroys
one node, ends every subscription there is; and that nothing refers to a node or
is destroyed before it was made, so that a life runs one way. `ModeIs` reads the
mode off the one caller inside. Then each statement of a call that is not
contested turns the mode or stays in it (`OwnerTurns`), the join with no callback
running by `Phase`; a user's step begins or ends the life of one subscription
(`UserRefines`); and the callback that a spin thread enters is the only one, in a
session that is up or stopping (`SpinRefines`).

`DdsPubSubProofs` proves `DdsActiveDelivers`, `DdsUnsubscribeHolds` (an action
property) and `DdsImplementsContract`, that every behaviour of `DdsPubSub` is one
of `PubSubContract`, for every number of clients, subscriptions, listeners and
samples and whichever subscriptions share a callback (`DdsAssumption`). The
invariant, `DdsInvariant`, says what the two halves of subscribe and unsubscribe
may rely on between the two locks: a subscribe under way is cut just when its
listener is no longer the topic's (`AddInv`), an unsubscribe under way works on
the only listener that may still have its callback (`RemoveInv`), and the
listeners that `stop` discarded hold what it cut and nothing else (`TableInv`).
For the refinement, each step is shown to change the life of a subscription as
one action of the contract does, or not at all; `LifeIs` reads the lives off the
invariant.

`TransportsProofs` proves `TypeCorrect`, `UseReachesStarted`, `CallsRaiseForCause`
and `RestIsTrue` for every number of threads, whatever calls of the pubsub raise.
`WitnessInv` ties the two histories
to the present: two calls inside a start or stop are recorded as overlapping.
`BaseInv`, `RosInv` and `DdsInv` then say, for each family, what the one caller
inside knows, and that a pubsub which is believed to be up is up or troubled
(`Served`); for DDS there is only one caller by the lock, and overlaps are no
exception.

`MixinsProofs` proves `NewTopicsAnnounced` (`AnnouncedOnce`, an action property),
`UnsubscribeAllEndsClean` (`EndsClean`) and `WaitingReaderFed` (`ReaderFed`, which
needs the same of the step before the wait). `LockInv`: the holder of the
lock has the watcher yet to call, what it found unseen is unseen, and a topic is
announced just when it is in the set. `DiscoveryInv` follows a topic from
reported through joining into the list, and from there into the copy, also when
one of its calls raises.

`PingPongProofs` proves `TypeCorrect`, `OwnRoundTrips`, `LoopClosed`
(`ClosedUntilLate`) and `CountsAddUp` (`Accounting`) for every number of cases and
of pings, measured or not, on topics of their own or shared
(`PingPongAssumption`). None of the three is inductive, since none mentions the
network. `WayInv` does: every ping or pong under way is in one place (`Single`),
none is ahead of the loop (`Sent`), and each is that of the wait in progress or
`Late`. `LoopInv` says what the current wait may find: its own ping's pong, or on
shared topics a late one of an earlier case (`GotInv`), and that the event is set
before its time only after an earlier wait ran out (`EventInv`). `CountInv` adds
up the warm-up, the round trips and the timeouts of the pings a case has passed
(`Counted`). The proof corrected the property: `OwnRoundTrip` used to say that
the very ping whose pong is taken for another's was given up, which holds for two
cases and fails with three, where TLC shows a displaced pong that displaces
another.

`ChainRunsProofs` proves `TypeCorrect`, `CasesCleanUp` (`CleanStart`),
`ReportsHonest` (`StatusHonest`) and `FilesOfARun` (`FilesAgree`) for every
number of cases and of runs (`CasesAssumption`, `RunsAssumption`). `BenchInv`
says for each statement of `pingpong.py` which fixtures can exist there: that a
node is of the case under way or of one whose teardown raised, that a context
which no case under way uses was left by such a one and every case since was an
error (`ContextInv`), that a responder not yet killed is that of the case under
way, that a bus without a case belongs to one that raised, and that the rows are
those of the cases that are over. Around it, `RunnerInv` lists what a script can
have left to do, blocked or not; `CallInv` ties `pingpong.py` to the line of the
script that waits for it and to the `raw.json` it writes; and `FileInv` says
which files are of this run at each of those lines, so that what an earlier run
left is never taken for this one's. Preparing the proof made the model more
exact: the responder of the other host is started with one QoS and serves all
sizes of it, so `remote` is the set of cases it serves and not one of them.

`EvalsProofs` proves `NoClaimHides` (`ClaimsCaught`), `CitedIsThere`
(`CitesHold`) and `ChainsStayApart` (`ChainsApart`) for any number of edits of a
session and any runs between them (`EditsAssumption`), where TLC looked at two
edits. Nothing is assumed of the tree but its shape (`TreeOK`): what the gates
say is proved of every tree on which they pass. `GatesPassed` takes the suite
apart; `ClaimsPassed`, `PathsPassed` and `ScriptsPassed` say what each group of
gates leaves possible. A gate that searches once judges the first match, so a
claim it lets through stands behind that one (`PlainBehindFirst`); that there is
a first match is the well-foundedness of the numbers. `RunInv` carries this to
the report: while a run has had no failed suite, what the gates it ran say is
true of the tree, which no edit has touched since it began. For the scripts,
`LastOfIs` says what the last line about a variable is and `LineOrLater` that a
line of a script either is what a shell ends with or has one after it that says
otherwise; `KeptOrUnset`, that a variable which no line of chain B exports ends
unset or as it was. `Sourced` is written for this as "the last line about a
variable wins" and not as a fold over the lines.

Only model-checked:

- `MotionEnds`, `StopReturns`, `RunEnds`, `LockReleased`, `RunsEnd`: liveness,
  out of TLAPS's reach here.
- `RoundTrip` and `CountsTrue` of `Conversion`: the copies are recursive over
  the fields of a message, which takes an induction over data, and they are
  written with recursive operators, for which the prover has no SMT backend.

## Not modelled

- Arm gestures and speech of the G1 SDK: one external call each, no state.
  `start()` of the SDK is before the initial state.
- Callbacks that call the pubsub they are called from.
- `prove_rmw.py`: it looks for the ROS of the machine it runs on and prints what it
  finds. Only its exit code is here, which is 0 whatever that is.
- Exceptions of the calls of `DdsPubSub` and of `publish` on a node that is alive;
  those of `RawROS.start`, of the transports' pubsub, of `Mixins`, of the conversion
  and of a case's teardown are modelled.
- The throughput benchmark (`pubsub/benchmark/`): a pytest module whose results
  are elapsed times; its loop and its wait are a simpler `PingPong`.
- Percentiles and jitter of a report, `write_delta.py` and the wording of
  reports: arithmetic over floats and text, sequential and unit-testable.
- The responder role of `run_cross_host_a.sh`, which runs until it is
  interrupted and leaves no file the client reads.
- The service base class and topic names (empty hooks, constants) and the Go2
  blueprint (a table of transports).
- The vendored middleware: C and C++ of third parties, external here.
- Payloads are left out everywhere but in `Conversion`.

## What could follow

1. Which subscription a callback of `RosPubSub` serves: with it, `PubSubSession`
   could promise each subscription what `PubSubContract` does.
2. The composition of `Transports` with `RosPubSub` below it in place of a pubsub
   that is made, up or down.
3. Callbacks that publish and unsubscribe on the pubsub they are called from.
