# Formal model of the xArm 6 drawing system

TLA+ specifications of the drawing system in this repository: the GUI and the
shape listeners that make an arm draw, the planner they share, the SDK's wrapper and
command bus below the driver, the ros2_control hardware, and the launch files
that configure and start all of it.  TLC checks small instances; TLAPS proves the
safety of some of the components for every value of their constants.  `PROJECT.json` lists the runs, the mutants each property was
tried against, the source lines each definition stands for, and the hazards.

Abbreviated paths: `xarm_ros2/` and `xarm_gui/` are under `src/src/`.

## 1. The system

```
 GUI (Tk) --topics--> emer_planner ------- XArmPlanner --actions--> move_group
     \                (callbacks + worker threads)                      |
      \-topics------> shape_command_executor --services--> xarm_planner_node
                                                                        |
                 controllers <-- controller_manager <--> UFRobotSystemHardware
                                                           |  read / write
                 XArmDriver (report callbacks) <---------- XArmAPI (SDK)
                                                           |  UxbusCmd: one request at a time
                                                      TCP to the controller box
```

| Component | State it keeps | Operations | What makes it correct |
|---|---|---|---|
| `emer_planner` (`xarm_planner/test/emer_planner.cpp`) | `worker_running_`, `stop_requested_` (atomics), one `XArmPlanner` | three subscription callbacks in the executor thread; a detached worker thread per drawing | one drawing at a time; a stop bounds what follows it and cancels only what it was meant for; every drawing ends and says how |
| `XArmPlanner` (`xarm_planner/src/xarm_planner.cpp`) | a plan slot, a Cartesian trajectory, the flag that chooses between them; no lock | plan…, `executePath`, `stopRobot` | what is executed is what the caller planned |
| `shape_command_executor` (`xarm_gui/…/legacy/suscriptor_interfaz.py`) | `_worker_thread` (locked), `_stop_requested` (not locked) | `_on_command`; a worker thread that calls services and polls their answers | as above; a stop releases the worker although requests cannot be taken back |
| planner node (`xarm_planner_node.cpp`) | one `XArmPlanner` | four services, one thread | requests left by a stopped client do not reach the next one |
| SDK command bus (`uxbus_cmd*.cc`, `socket.cc`, `queue_memcpy.cc`) | mutex, transaction id, receive ring, port state | send, poll for the answer, flush; a receiving thread | an answer belongs to its own request, late answers and lost ones included; every command returns |
| `UFRobotSystemHardware` (`xarm_controller`) | commands, readiness, `initialized_`, `reactivate_controller_later_` | `read`, `write` in a 150 Hz loop; calls to the controller manager | no jump when the arm comes back; controllers off while it is not ready, on again after |
| SDK wrapper (`xarm_api.cc`, `xarm_events.cc`, `xarm_report.cc`) | feedback results, state from reports, condition variable | connect, wait for a motion or the end of a pause, feedback and report threads | every wait ends; a result reaches the one who waits for it |
| configuration builders (`uf_ros_lib`) | none: functions of the launch arguments and YAML files | one dictionary of parameters per concern (description, limits, controllers, planning), for one arm and for two, each in two versions; the controller manager's file | names, prefixes, joints and groups agree, whoever wrote them down |
| launch files (`xarm_*/launch/*.py`) | the launch configurations, event handlers, processes | nested `launch_setup` functions; start and exit handlers | what the arguments ask for comes up, once, in an order that lets it come up |
| gripper actions (`xarm_driver.cpp`) | one result and one feedback message for all goals | goal, cancel, execute in a thread per goal | every goal ends once |
| GUI (`xarm_gui`) | the list of drawn points | draw, clear, publish command, pose, path | the path follows the strokes |
| services of the driver, ROS client, other SDK wrappers, serial port, descriptions, Gazebo plugins, MoveIt servo input, demo | none, or data only | forwarding, parsing, output | see section 7 |

The hard behaviours: callbacks and worker threads that share flags and a plan
slot without a lock; a stop that is a message and arrives later than the
request it should stop; requests that a stopped client abandons but cannot
cancel; answers that come after the command that asked gave up; a receive ring
cleared by one thread while another pushes; conditions of the robot that change
between the read and the write of one turn; calls to the controller manager
that fail half-way; results of several callers in one map that each of them
clears; launch files that include each other, with arguments that stay set for
whatever is visited later, and several pieces of code that must build the same
names.

## 2. Modules

| Module | Models | Remarks |
|---|---|---|
| `XArmPlanner` | `XArmPlanner` and move_group | the methods as operators, conjoined with the caller's program counter |
| `EmerPlanner` | `emer_planner.cpp` over `XArmPlanner` | detailed specification |
| `ShapeService` | what the listener promises, without threads | abstract; `EmerPlanner` implements it |
| `LegacyListener` | `suscriptor_interfaz.py` and the planner node over `XArmPlanner` | requests, queues and answers are explicit |
| `QueueMemcpy` | `queue_memcpy.cc` | `push` and `flush` assignment by assignment |
| `CommandBus` | `UxbusCmd`, `UxbusCmdTcp`, `SocketPort` over `QueueMemcpy` | threads, receiver, controller box |
| `RobotHardware` | `uf_robot_system_hardware.cpp`, `_call_request`, the report callback | the controller manager and spawners are external |
| `XArmAPI` | the waiting of the SDK wrapper: `set_position` with `wait`, the pause, the feedback maps, `set_state`, `clean_error`, the report and feedback threads | the robot is external; a command is one step, what happens inside it is `CommandBus` |
| `DrawingPanel` | the canvas of the GUI, `discretize_path`, `send_path` | segments along the axes |
| `RobotConfig` | the YAML files and what xacro generates, as the names in them | data the next modules read |
| `MoveItConfigsBuilder` | `moveit_configs_builder.py`, the substitutions beside it, `uf_robot_utils.py` | operators |
| `LaunchFiles`, `GazeboLaunchFiles` | what each launch file's `launch_setup` returns | operators, one per file |
| `LaunchService` | the launch service, the processes and the controller manager | the state machine over the four modules above |
| `…MC` | small instances for TLC | no definition of a module is replaced |
| `EmerPlannerProofs`, `RobotHardwareProofs`, `XArmAPIProofs`, `CommandBusProofs`, `LegacyListenerProofs`, `LaunchFilesProofs`, `LaunchServiceProofs`, `LaunchOutcomeProofs` | theorems | |

How state and actions correspond to the code:

* **XArmPlanner.**  A plan is the pose it leads to.  `xarm_plan_`,
  `trajectory_` and `is_trajectory_` are the fields; `target` is what
  `setPoseTarget` stores inside `move_group_` (planning is two steps because
  another thread may store another target in between).  `Torn` stands for a plan
  read while another thread writes it, and for a Cartesian trajectory that ends
  early: `planCartesianPath` overwrites `trajectory_` before it knows whether it
  failed and then leaves `is_trajectory_` as it was.  `motion` is what move_group
  executes and for whom; that it refuses a second motion meanwhile is an
  assumption about this external node.  `stopRobot` posts a message (`PostStop`)
  that aborts whatever runs when it arrives (`StopArrives`).
* **EmerPlanner.**  `exec` is the program counter of the one executor thread;
  `pc[j]`, `job[j]`, `wp[j]` those of worker j.  A step is what a thread does
  between two accesses another thread can see.  `Start` is a single step: the
  compare-exchange succeeded, so no worker is alive, and the executor is the
  thread that runs it.  `WaypointMoves` ignores the result of `executePath`, as
  the code does.  `ResetStop` is the store after the loop, `ReportPath` and
  `ReportPathEnd` the two places where a GUI drawing publishes its final status.
  `Throws` is the catch clause.
* **LegacyListener.**  `_call_service` waits up to five seconds for the service
  (`Unavailable`, or `CallPlan`, `CallExecution`, steps of their own because a stop may
  come before them), sends (`Asks`), then polls: it looks for an answer
  (`PlanAnswered`, `ExecutionAnswered`), then at the flag (`GivesUp`); the answer may
  come between the two.  `AskExecution` is the look at the flag before a request for
  an execution.  `Forget` and `Clear` are the last two statements of
  `_run_shape`, of which only the first holds the lock.  `Takes…` and
  `PosePlanned`, `StraightPlanned`, `Executed` are begin and end of a service
  callback in the node's only thread; with `wait` true it is busy until the
  motion ends.
* **CommandBus.**  `Lock` is a command taking the mutex with the requests it
  will send (a command that wants a feedback widens the feedback type first and
  sets it back after).  `FlushStep`, `Write`, `Receive`, `TimesOut` are the
  statements of `send_modbus_request` and `recv_modbus_response`; `TakeFrame`,
  `RecvFails`, `Push`, `GiveUp` those of `recv_proc`: it closes the port where `recv`
  fails, which is after the end of the connection (`ConnectionEnds`, external), and
  where the queue stays full.  A frame is its id, the number of its
  request and whether it is whole.
* **RobotHardware.**  `rt` is the real-time thread: where it is in the loop and
  for which arm.  `ListOff`, `SwitchOff`, `ListOn`, `SwitchOn` are the two
  service calls of `_deactivate_controller` and `_activate_controller`, which
  may fail; `Carry` is a switch the controller manager makes, only in its
  `update` phase since `write` runs in its thread.  `curr` is what the report
  thread stored last (`ReportTorn` is a value between its assignments, of which
  `Mixtures` are those that neither report has: readiness where one of them says
  stopped and the other a mode of its own, for example).
* **XArmAPI.**  `pc[c]` is where caller c stands: testing the pause (`lock`,
  `paused`), about to send, in `_wait_feedback` between two polls (`wait`) or
  about to look at the state and the result (`poll`), or in the `get_state` that
  ends `set_state` and `clean_error` (`refresh`).  `SetFeedbackKeyTransid` is a
  part of the sends, since the code files the key before it sends.  A result is
  the number of the move that the feedback spoke of, so that a property can tell
  whose it was.  `ClearResults` is the `clear()` by which one caller takes the
  results of all.  `ReadReport`, `UpdateState`, `NotifyAll`, `UpdateError` are
  the steps of `_update` that other threads can see, in the code's order.
* **DrawingPanel.**  The five handlers of the panel (`Start`, `Draw`, `Release`,
  `Send`, `Clear`); `DiscretizePath` is the loop over the segments as a fold,
  `SendPath` the change of axes.
* **MoveItConfigsBuilder.**  A file is the set of names the launch files tell
  apart in it, a name the tuple of the parts it is formatted from.  There is one
  operator per method of the builders.  The dual builder looks for the second
  arm's gripper under the first arm's type where the code does (`DualJointLimits`),
  the substitutions do it elsewhere (`DualControllersYAML`).
* **LaunchFiles, GazeboLaunchFiles.**  An operator per file gives the entities
  its `launch_setup` returns, in order: includes with their arguments, nodes with
  the data they are configured from, handlers; `raise` where a loader would.
* **LaunchService.**  `todo` is what is left to visit, depth first
  (`VisitInclude`, `VisitNode`, `VisitHandler`, `VisitShutdown`, `VisitRaise`);
  `ProcessEvent` runs the handlers of one start or exit.  `cfg` is the one
  dictionary in which the arguments of every include stay set.  `Spawn`,
  `SpawnerTimesOut`, `InsertRobot`, `InsertFails`, `ManagerDies`, `CloseRviz` are
  what the (external) processes do; `Accepts` is the test a controller manager
  makes before it starts a controller.

## 3. What the runs check

| Run | Question | Properties | Size |
|---|---|---|---|
| `EmerPlanner` | three messages in any order over three topics | `TypeOK`, `OneWorker`, `StopBoundsMotion`, `StopAttribution`, `OwnPlan`, `EndsWithStatus`, `ServiceSpec` (refinement of `ShapeService`), `Quiesces` | figures of 1 and 2 corners |
| `EmerPlannerStop` | a stop, when motions need not end by themselves | `StopEndsDrawing` | no queue overflows |
| `EmerPlannerPoseStop` | the same for a target pose | `StopEndsMotion`: violated | 2 messages |
| `EmerPlannerStatus` | the final status after a stop | `StatusTruthful`: violated | 2 messages |
| `LegacyListener` | two drawings, stops at any moment | `TypeOK`, `OwnSegment`, `OneDraws`, `StopHeard`, `StopReleases` | 4 commands, 411 000 states |
| `LegacyListenerStop` | a stop between two drawings | `StopCancels`: violated | as above |
| `CommandBus` | two clients, late and lost answers, a full ring, ids that wrap, a connection that ends | `TypeOK`, `OwnAnswer`, `FiledUnderOwnId`, `RingIsFifo`, `PortSurvives`, `CommandsReturn` | ring of 2, ids 1–3, 5 requests, 562 000 states |
| `RobotHardware` | an arm that fails, is moved and recovers, its controllers off and on again | `TypeOK`, `FirstCommandHolds`, `RequestsAlternate`, `HeldDisables`, `ControllersComeBack` | 2 changes, 961 000 states |
| `RobotHardwareIndicator` | what the indicator says | `IndicatorMeansDisabled`: violated | 1 change |
| `XArmAPI` | two callers that wait, stop, pause, resume and repair | `TypeOK`, `OwnFeedback`, `CallsReturn` | 2 moves, 2 orders, 1 fault, 479 000 states |
| `DrawingPanel` | how far apart the points are that reach the arm | `SpacedByStep`: violated | 3 points |
| `Launch` | every launch file with 228 combinations of robots, grippers, prefixes and arguments left out | `TypeOK`, `LaunchStarts`, `NothingTwice`, `EndpointsMatch`, `NoSpawnerRefused`, `SpawnersFindManager`, `PlanningConfigured`, `GripperPlannersHaveGroups`, `DescriptionsAgree`, `SubstitutionsAgree`, `RobotComesUp`, `ClosingStops` | 1 fault, 45 000 states |

What the five violations show (quoted in `PROJECT.json`, "findings"):

1. A stop does not end a motion to a target pose: the callback that should
   handle it waits behind `sub_pose_callback` in the only executor thread.
2. `execute_waypoints` clears `stop_requested_` before the worker chooses its
   final status, so a cancelled drawing is reported completed.
3. `_run_shape` clears `_stop_requested` after it released the lock, so it may
   clear a stop meant for the next drawing.  (That a stop lets the one request
   through whose look at the flag it overtook is not counted: `passed`.)
4. `reactivate_controller_later_` is set whether or not the controllers were
   switched off, and nothing tries again.
5. `discretize_path` makes at most one point of a segment and forgets the rest,
   so the points of a fast stroke are farther apart than the step.

Histories: variables marked "history" are not read by any action; they record
what a property has to remember (a stop while a drawing was alive, segments begun
since, a flush that overlapped a push, a failed call).  Conditions in properties
such as `~mixed`, `~raced`, `~stray`, `~missed` name behaviours in which the
promise does not hold; the hazards of `PROJECT.json` say where the code has them:

* `mixed`: a target pose is handled while a worker draws.  The executor plans in
  the shared slot, so the worker may execute the pose's plan.
* `raced`: `flush` takes no lock; a push inside it leaves indexes and count that
  disagree.  `OwnAnswer` needs no such exemption: the transaction id saves it.
* `stray`: a stopped client of the planner node left a *plan* request behind.  If
  the node takes it between the next client's plan and its execution, that
  execution runs the old plan.  Abandoned *executions* do no harm.
* `passed`: a stop came after the worker's look at the flag (`suscriptor_interfaz.py:191`)
  and before its request (`:207`).  `StopHeard` allows this one request, and no second.
* `lost`: the connection ended.  `PortSurvives` speaks of a connection that stands;
  `CommandsReturn` makes no difference.
* `missed`: a call to the controller manager failed, or a controller was spawned
  while the arm asked for all of them to be off.
* `forsaken`: a caller of the SDK wrapper whose result another caller cleared, or
  whose move ended by an error or a stop that somebody repaired before the caller
  looked.  It waits until its timeout, for ever if it gave none.  So does a caller
  that waits for the end of a pause when the connection is lost: nothing notifies
  it.
* In `LaunchStarts`, what can be typed and raises.  `NoDof`: `emer_planner` and
  `test_dual_planner` declare no default for the degrees of freedom.  `NoRobotIp`:
  `_robot_moveit_realmove`, `xarm6_planner_realmove` and, for each arm,
  `_dual_robot_moveit_realmove` declare none for the address of the robot; the run
  launches each of these files also without it.
  `GripperOfOtherType`: beside a first arm of type lite, the gripper of the second is
  looked for as a `lite_gripper` (`moveit_configs_builder.py:1203`).
* `SamePrefix` (in `NothingTwice` and `NoSpawnerRefused`): two arms with one prefix
  ask for the same controllers, and the second spawner of one is refused.
* `RealPluginAsked` (in `NoSpawnerRefused`): a file for a simulated or pretended robot
  was told to use the real one's plugin, with which a gripper's joint has no
  interface.  None of the 228 launches of the run is of this kind or has two arms of
  one prefix.
* In `PlanningConfigured`, the group `bios_gripper` of the bio gripper's planner
  file, which no SRDF has (the group there is `bio_gripper`).
* In `GripperPlannersHaveGroups`, `_robot_planner` with a prefix, which it leaves
  out, and two `xarm7_mirror`, whose group is called after xarm.
* In `SubstitutionsAgree`, a second arm with a gripper whose type is not the first
  arm's: the builder and the substitutions take the wrong type in different
  methods.

## 4. Bounds

* `MaxJobs` bounds worker threads.  It is at least the number of messages that
  can start one, so the guard it puts on the start never makes the executor wait
  (in `LegacyListener` a shape beyond it is not sent).
* `MaxPublished`, `MaxCommands`, `MaxRequests`, `MaxChanges` bound what the
  environment does.  Three messages contain every pair of a drawing with a stop,
  a pose or another drawing, and a third that meets what the pair left behind;
  two jobs and two stops meet in every order in `LegacyListener`; five requests
  are more than the ring and more than the ids; two changes are a failure and the
  recovery from it.
* `QueueDepth` is 10 in the code; 2 lets a queue of three messages overflow.
* `Total` is 3 nodes and `MaxId` is 65535 in the code.  A command
  starts only if no frame on its way has one of the ids it will use (`IdsFree`):
  the ids wrap in the model after three requests, and 65535 requests are never on
  their way at once in reality.
* Poses, positions: two or three, enough to tell a right one from a wrong one.
* `XArmAPI`: two moves and two orders let each caller wait while the other stops,
  pauses, resumes or repairs; one fault is an error or a lost connection.  The ids
  (1 to 65535 in the code) are two, and one is used again only when nothing on its
  way carries it and nobody waits for it (`FreeIds`): a result that a timed out
  wait left in the map is met again, which is what the reset is for.
* `DrawingPanel`: a canvas of a few pixels and strokes along its axes, so that
  distances are integers; the violation needs one segment longer than two steps.
* `CommandBus`: the connection ends at most once, at any moment; this port is not
  connected again (the wrapper makes a new one).
* `RobotHardware`: a report that is torn so that it reads "ready" counts as a change;
  without a bound the indicator would go up and down for ever.
* `Launch`: `Launches` holds each launch file with each kind of gripper, and where
  the file treats them differently each robot, with and without a prefix, and for
  two arms every pair of types with every distribution of grippers.  Degrees of
  freedom other than 6 differ in the number of joints only and are tried once.
  `MaxFaults` is one failure of an insertion or one death of a controller manager.

`CHECK_DEADLOCK FALSE` is set in every run: when the environment has used up its
bound and everything is at rest, nothing is left to do, and a process that
exits (`rt.at = "exit"`, a closed port) does no more.

## 5. Fairness

* `EmerPlanner`: the operating system runs the executor and the workers, and a
  stop message arrives (`ThreadsRun`).  `Spec` adds that every motion ends, as
  the trajectory execution of move_group sees to; `LongMotionSpec`, under which
  the properties about stopping are checked, does not.  The GUI owes nothing.
* `LegacyListener`: worker threads run.  Nothing is assumed of the planner node,
  so `StopReleases` holds even if it is silent.
* `CommandBus`: threads run, clocks advance (a poll ends), the network and the
  controller box handle a request sooner or later, possibly without an answer.
* `XArmAPI`: threads run, reports and feedbacks keep coming while the connection
  lasts, a move ends in a robot that is ready.  Nobody has to resume, so
  `CallsReturn` assumes that pauses end (`[]<>(robot.state # Pause)`), and nobody
  has to repair or to time out.
* `LaunchService`: the service's loop, the spawners and the insertion go on.
  Nothing has to fail and nobody has to close RViz; `RobotComesUp` speaks of
  launches without a fault.
* `RobotHardware`: the loop turns, reports come, the launch file spawns its
  controllers.  Strong fairness for `Carry` and for the answer to
  `list_controllers`: they are possible only in one phase of the loop (or only
  while `write` waits), and a service that is called again and again answers
  again and again.

## 6. What is proved

Assumptions: those named `…Assumption` in the modules; TLC evaluates them in the
runs.

`EmerPlannerProofs`, for every figure, drawing, queue depth and number of workers:
`TypeCorrect`, `OneWorkerHolds`, `StopBoundsMotionHolds`,
`StopAttributionHolds`, `OwnPlanHolds`, `EndsWithStatusHolds` and
`ImplementsService` (the safety part of the refinement).  None of these is
inductive: that a stop bounds the motion needs that the flag stays up as long as
the stopped worker is in its loop, which needs that no other worker can start or
leave its loop meanwhile, which is `OneWorker`.  `IInv` adds what each thread knows
at each of its steps, one conjunct per concern:

* `ThreadsInv`: only the last worker can be alive, and `worker_running_` says so;
* `WaitingInv`: a thread waits in `executePath` exactly while the arm moves for it;
* `StopInv`: a raised flag speaks of a stop meant for the living worker, and in the
  loop it is up as soon as there was one;
* `PlanInv`: the slot belongs to an undisturbed worker from its plan to the end of
  its motion;
* `StatusInv`: where a worker stands with its waypoints and its status.

There is one lemma per conjunct (`TypeStep` … `StatusStep`), each with a step per
action; `Inductive` combines them, under `LongMotionSpec`, of which `Spec` is a
special case.

`RobotHardwareProofs`, for any number of arms, controllers and positions:
`HardwareTypeCorrect`, `FirstCommandHoldsAlways` and `RequestsAlternateAlways`.
`FirstCommandHolds` speaks of the last steps of `write`; the invariant `SyncInv` carries it back to the read
of the same turn: from its read to its write, an arm that is not initialised has
as its command the position just read, unless a controller wrote one.
`RequestsAlternate` compares each request with the arm's one before it, of which the
code keeps no trace but its indicator.  `LatestInv` says that the indicator is that
trace: as long as no call failed, an arm's latest request says what its indicator
says, and `SwitchInv` that the thread is about to switch off only where the
indicator is down, and on only where it is up.  A request of a spawner or of another
arm that comes between changes nothing (`AddedRequest`), nor does one that the
manager carries out (`CarriedRequest`).  The run checks one arm only, the theorems
any number of them in one manager.

`LegacyListenerProofs`, for any number of commands and workers and any shapes:
`ListenerTypeCorrect`, `OneDrawsHolds`, `StopHeardHolds` and `OwnSegmentHolds`, from
`LInv`, which adds:

* `ThreadsInv`: the thread variable names every worker that has not forgotten itself,
  which is `OneDraws`; a worker that plans or waits stands at a pose of its path;
* `StopInv`: a worker that was stopped and draws finds the flag up, unless an older
  worker cleared it, which is why it asks for nothing more once it has looked;
* `LookedInv`: a stopped worker that stands between its look at the flag and its request
  was overtaken by the stop there, and has asked for nothing since, or an older worker
  cleared the flag; so the request that follows is the only one (`StopHeard`);
* `QueueInv`, `OneRequest`: a request of a worker that still draws is the one it waits
  for, and no worker has two, whatever stopped workers left in the three queues;
* `NodeInv`: the arm moves exactly while the node has a request for an execution in
  hand, and for its worker;
* `SegmentInv`: until a worker gives up on a plan, every plan asked for is one to the
  waypoint its worker stands at, and from the answer to the end of the execution the
  slot that `executePath` looks at holds it.  A request for an execution that a
  stopped worker left is harmless for that reason: it runs what the slot holds, for
  nobody that waits (`OwnSegment`).

`XArmAPIProofs`, for any number of callers, any set of ids, any number of moves and
faults: `WrapperTypeCorrect` and `OwnFeedbackHolds`.  `OwnFeedback` speaks of a call
that has returned; `OwnInv` says why its result was its own: two callers never
wait for one id, and whatever goes by that id in the robot, in the socket or in the
map is the caller's move; a feedback or a result speaks of a move that is over.
Every step but a send only moves things from the robot to the socket, to the map
and to the caller (`Flow`, lemma `FlowStep`), which keeps that (`FlowKeeps`); a
send brings in an id nothing goes by and clears the map under it (`SendKeeps`).
The clear of the whole map by any caller takes results away and adds none.

`CommandBusProofs`, for any number of clients and requests, any range of ids that is
not smaller than the requests of one command, and any depth of the receive queue:
`BusTypeCorrect`, `OwnAnswerHolds`, `FiledUnderOwnIdHolds`, `RingIsFifoHolds` and
`PortSurvivesHolds`.  They need one another, so `BusInvariant` proves `BInv`, which
adds to them:

* `HolderInv`, `TodoInv`, `CountInv`: who holds the mutex, what is left of its
  command, and that no more requests are given up or sent than there are;
* `PushInv`: a flush that overlaps a push never leaves more in the counters than the
  push puts there, nor another frame's id in its node;
* `FramesInv`: the frames between a request and its answer are no more than the
  requests given up and the one that waits, which is why a full queue tells of that
  many given up unless the connection ended (`PortSurvives`);
* `IdsInv`: no frame that was not taken has an id of a request to come, and none but
  its own answer has the id of the one that waits, which is what `OwnAnswer` rests on;
* `FiledInv`: the key is filed under the id the next request takes;
* `RingInv`: where the frames are, in terms of `head_`, `tail_`, `cnt_` and of how far
  a push is; lemmas `Slots` to `PushHolds` are the arithmetic of its wrap.

The assumption that carries `IdsInv` is in `Lock`: a frame that is still on its way
has none of the ids a new command will use (65535 requests do not fit between two
threads and a controller).

`LaunchFilesProofs`, `LaunchServiceProofs` and `LaunchOutcomeProofs`, for launches of
any file with any arguments (of whatever arms, prefixes, grippers, plugins) and any
number of faults: `LaunchTypeCorrect`, `DescriptionsAgreeAlways`,
`SpawnersFindManagerAlways`, `GripperPlannersHaveGroupsAlways`,
`SubstitutionsAgreeAlways`, `PlanningConfiguredAlways`, `EndpointsMatchAlways`,
`LaunchStartsAlways`, `NothingTwiceAlways` and `NoSpawnerRefusedAlways`.  The
assumption on a launch (`LaunchesAssumption`) is that it names a file that can be
launched by itself, does not hand in by hand what a builder generates
(`robot_description`, `moveit_config_dump`, `ros2_control_params`), and gives the
planner's executable no other program's name, and that its robots have a configuration
(`UnknownRobot`: a type and degrees of freedom without one, such as a lite with seven
joints, which is what a lite gets that is given no `dof`).

The first seven follow from one invariant, `LaunchInv`: a launch is fresh (its own file,
or the one a wrapper includes, was not visited yet), or it follows a mode
(`Follows`): the configuration its files share, whether there is a simulator, and
the arm.  What a mode asks of whatever is still to visit, of the handlers and of the
processes (`Fits`) is what cannot be seen in a single file:

* an include carries that configuration, or finds it among the launch
  configurations that an earlier include left, and repeats no argument with another
  value (`IncludeFits`);
* a node that works from the description, the manager's parameters or move_group's
  configuration has those of the mode (`NodeFits`);
* with a simulator only the end of the insertion starts spawners (`HandlerFits`);
  and as long as nothing went wrong, a spawner that is to be started, or runs, has a
  manager (`SpawningInv`).

`LaunchFilesProofs` shows it of the files: what an included one returns fits the mode
it is included in (`IncludedGood`), and the launch's own either raises, or sets a mode
that everything it returns fits, or hands on to another (`FileOpened`).
`LaunchServiceProofs` shows it of the steps of the service (`FollowsStep`).  An event
runs a list of handlers, which the model flattens with the recursive function of
`FlattenSeq`; that this function is what it should be is an induction on the length
(`SetInduction`, from the library's `WFMin`, `FlattenExists`, `FlattenSeqMade`).
`SubstitutionsAgree`, `PlanningConfigured` and `EndpointsMatch` are about data: a mode's configuration is the builder's for its
arms (`Single`, `Dual`), so they compare what two pieces of code make of one arm.
For `EndpointsMatch` that is, on each side, one name for each directory of the arm
(`ControllerFrom`, `ParamsAre`), and that names of different directories differ
(`ManagerNamesApart`, `PrefixedSame`): two arms with one prefix give a name the same
joints, so the merge loses nothing (`SameJoints`).

The three theorems of `LaunchOutcomeProofs` say what becomes of a launch, each with an
invariant that strengthens the one before it:

* `StartInv`, for `LaunchStarts`: the launch is about to visit the file it is of
  (`Opening`), or it raised and is one of those named above (`Failed`), or it goes on
  (`Going`): one description, of the arms the arguments ask for, is what every
  entity still to visit, every handler and every process is `Sound` for.  An include
  that is sound carries what the included file needs to not raise, and never sets the
  arms anew (`IncludeSound`); a node is sound if it works from that description, and
  a spawner if its controller is one that these arms have (`NodeSound`, `Startable`).
  `FileOutcome` and `IncludedSteady` show it of the files, and that a file which
  raises was given one of the three excuses (the argument treats an unknown robot as
  a fourth, which the assumption then takes away).
* `TwiceInv`, for `NothingTwice`: the `Books` of a launch are in order.  Every entity
  claims what it may start, by program and name; what is still to visit claims
  nothing twice and nothing that runs (`Tidy`), and so do the handlers whose event is
  still to come.  This is only inductive together with the events: each is announced
  once, so a handler that has run never runs again, and what it started can be
  claimed no more (`Ledger`).  `FileTidy` and `IncludedOrderly` show it of the files,
  `FlattenTidy` of the handlers that one event runs.
* `RefusedInv`, for `NoSpawnerRefused`: nobody was refused so far, and every active
  controller was started by a spawner that ended (`Granted`).  The manager refuses a
  controller that it does not know, whose joints lack interfaces or are claimed by
  another.  The first two are facts about what the builder and xacro generate for the
  same arms (`ReadySays`, `StartableAccepted`); the third is that controllers of
  different names share no joint (`ClaimsApart`), that equal names would be two
  spawners of one name, and that there are none by `TwiceInv`.

Only model-checked: every liveness property (`Quiesces`, `StopEndsDrawing`,
`StopReleases`, `CommandsReturn`, `HeldDisables`, `ControllersComeBack`,
`CallsReturn`, `RobotComesUp`, `ClosingStops`) and the fairness part of the
refinement, which are out of the prover's reach; and the expected violations, which
are counterexamples.  Every invariant of a passing run is stated by a theorem.

## 7. What is not modelled, and why

* Geometry, inverse kinematics, planning: inside MoveIt; a plan either leads to its
  target or fails.
* `emer_planner`: the destructor, which runs when `main` returns and the process ends.
* `CommandBus`: after a close of the port, by a full queue or by the end of the
  connection, the calls under way return and later ones fail, but that the thread
  deletes the ring while another may be in it is undefined and left out; a connect; frames that
  arrive in parts (a frame split behind a complete one is lost, `socket.cc:231`);
  a write that fails after the feedback type was widened (`uxbus_cmd.cc:86`); the
  serial port.
* `RobotHardware`: velocity mode, a second activation, the choice not to send an
  unchanged command within a second, the time the blocking service calls take
  (up to twelve seconds, `uf_robot_system_hardware.cpp:349`), `write_code_`, which
  is tested and never assigned (line 507).
* `XArmAPI`: connect (nothing in the workspace connects twice), the wait by polling
  for firmware without feedback, the limit of 256 commands in the robot, the
  feedback types START and TRIGGER (with START a wait ends when the move begins),
  the twenty polls during which a stopped state is tolerated while it may be
  another one's, and a send whose answer is late: a relative move returns the code,
  an absolute one shadows it (`xarm_motion.cc:41`) and waits.
* The driver's service handlers and the setters of the SDK wrapper forward their
  arguments and keep no state.  Report parsing is a table of offsets.
* The gripper actions of the driver and the gripper planner node: the drawing
  system moves no gripper.  Two defects met while reading them are listed as a
  hazard without a property (`xarm_driver.cpp:452`, `:467`).
* GUI: the conversion of an entered pose (degrees or radians by size), labels; that
  separate strokes are joined in one path; the origin, which a comment of
  `send_path` places in the centre of the canvas and the code in a corner.
* Launch files named after one robot: they include a modelled one with a fixed
  type (those of the xarm6, which the repository's README uses, are modelled).
  `_robot_moveit_common`, `_dual_robot_moveit_common` and `_robot_moveit_servo`
  are included by no other file.  Of the arguments, the geometry, meshes,
  namespaces and the values of addresses go unchanged into the description and are
  left out; that an address without a default is given is not.
* Launches of a robot without a configuration.  Where its controllers' file has to be
  changed, opening it raises; for one arm with nothing to change
  (`uf_robot_utils.py:146`, `:182`) the path of the missing file is handed on instead.
* Robot descriptions and MoveIt configuration beyond the names in `RobotConfig`, the
  mimic joint plugin, the fake hardware, servo input devices, the demo and the
  third-party camera plugin: data or stand-ins.

## 8. Plan

In the order of importance:

1. *Done.*  The listener that the README of the repository presents, with its
   planner, its abstract specification and its proofs (`XArmPlanner`,
   `EmerPlanner`, `ShapeService`, `EmerPlannerProofs`).
2. *Done.*  What every motion goes through: the command bus and the hardware
   (`QueueMemcpy`, `CommandBus`, `CommandBusProofs`, `RobotHardware`,
   `RobotHardwareProofs`).
3. *Done.*  The older listener and the planner node (`LegacyListener`,
   `LegacyListenerProofs`).
4. *Done.*  The SDK wrapper: the feedback map and those who wait on it, the wait
   for the end of a pause, the report thread (`XArmAPI`).
5. *Done.*  The discretizer and the drawing panel (`DrawingPanel`).
6. *Done.*  The launch files and what they configure (`RobotConfig` to
   `LaunchService`).
7. Two arms in one controller manager: what one arm's recovery does to the other
   (the modules allow it; the run has one arm).
8. *Done.*  A theorem for every invariant of the runs (`RequestsAlternateAlways`,
   `LegacyListenerProofs`, `LaunchServiceProofs`, `LaunchOutcomeProofs`).
