----------------------- MODULE BacklightSmootherSetup -----------------------
(***************************************************************************)
(* processKernel and deinit of the backlight smoother: the configuration   *)
(* is read and corrected, and the owner, the workloop and the event source *)
(* that BacklightSmoother relies on are created one after the other.  Each *)
(* creation may fail; what has been created before is released again.      *)
(***************************************************************************)
EXTENDS Integers

CONSTANTS Values,             \* values a property may have
          Max,                \* UINT32_MAX
          DefaultSteps,       \* kDefaultSteps (35)
          DefaultQueueSize,   \* kDefaultQueueSize (64)
          MinimumQueueSize    \* kMinimumQueueSize (32)

Absent == -1

ASSUME ValuesAssumption == Values \subseteq 0..Max /\ Max \in Nat
ASSUME DefaultsAssumption == /\ DefaultSteps \in Nat \ {0}
                             /\ MinimumQueueSize \in Nat
                             /\ DefaultQueueSize \in Nat
                             /\ DefaultQueueSize >= MinimumQueueSize

Properties == {"steps", "queueSize", "lowerbound", "upperbound"}
Objects == {"owner", "workloop", "eventSource"}

VARIABLES setupPc,      \* the next thing processKernel does
          user,         \* user[p]: what the user specified, or Absent
          enabled,
          steps, queueSize, first, second,
          pointers,     \* the members of the submodule that are not null
          alive,        \* the objects that exist
          registered    \* is the event source registered with the workloop?

config == <<steps, queueSize, first, second>>
resources == <<pointers, alive, registered>>
setupVars == <<setupPc, user, enabled, steps, queueSize, first, second, pointers,
               alive, registered>>

SetupInit == /\ setupPc = "enable"
             /\ user \in [Properties -> Values \cup {Absent}]
             /\ enabled = FALSE
             /\ steps = DefaultSteps /\ queueSize = DefaultQueueSize
             /\ first = 0 /\ second = Max
             /\ pointers = {} /\ alive = {} /\ registered = FALSE

\* The boot argument or the device property enables the submodule.
Enable ==
  /\ setupPc = "enable"
  /\ \/ enabled' = TRUE /\ setupPc' = "fetch"
     \/ enabled' = FALSE /\ setupPc' = "done"
  /\ UNCHANGED <<user, config, resources>>

Fetch(p, default) == IF user[p] # Absent THEN user[p] ELSE default

\* The upper bound is only fetched when there is no lower bound.
FetchConfiguration ==
  /\ setupPc = "fetch"
  /\ steps' = Fetch("steps", steps)
  /\ queueSize' = Fetch("queueSize", queueSize)
  /\ first' = Fetch("lowerbound", first)
  /\ second' = IF user["lowerbound"] # Absent THEN second
               ELSE Fetch("upperbound", second)
  /\ setupPc' = "sanitize"
  /\ UNCHANGED <<user, enabled, resources>>

Sanitize ==
  /\ setupPc = "sanitize"
  /\ steps' = IF steps = 0 THEN DefaultSteps ELSE steps
  /\ queueSize' = IF queueSize < MinimumQueueSize THEN MinimumQueueSize
                  ELSE queueSize
  /\ IF first > second THEN first' = 0 /\ second' = Max
                       ELSE UNCHANGED <<first, second>>
  /\ setupPc' = "owner"
  /\ UNCHANGED <<user, enabled, resources>>

\* deinit() releases the event source only when there is a workloop.
Released ==
  IF "workloop" \in pointers THEN pointers ELSE pointers \ {"eventSource"}

\* deinit() and enabled = false
Fail ==
  /\ alive' = alive \ Released
  /\ pointers' = pointers \ Released
  /\ registered' = (registered /\ "eventSource" \notin Released)
  /\ enabled' = FALSE
  /\ setupPc' = "done"

\* Object o is created and assigned to its member, or that fails.
Create(o, next) ==
  /\ setupPc = o
  /\ \/ /\ alive' = alive \cup {o}
        /\ pointers' = pointers \cup {o}
        /\ setupPc' = next
        /\ UNCHANGED <<enabled, registered>>
     \/ Fail
  /\ UNCHANGED <<user, config>>

\* Mutated form of Register: the failure is not seen.
RegisterUnchecked ==
  /\ setupPc = "register"
  /\ registered' \in BOOLEAN
  /\ setupPc' = "done"
  /\ UNCHANGED <<user, config, enabled, pointers, alive>>

Register ==
  /\ setupPc = "register"
  /\ \/ /\ registered' = TRUE
        /\ setupPc' = "done"
        /\ UNCHANGED <<enabled, pointers, alive>>
     \/ Fail
  /\ UNCHANGED <<user, config>>

processKernel == \/ Enable \/ FetchConfiguration \/ Sanitize
                 \/ Create("owner", "workloop")
                 \/ Create("workloop", "eventSource")
                 \/ Create("eventSource", "register")
                 \/ Register

\* IGFX::deinit calls deinit() of every submodule.
deinit == /\ setupPc = "done"
          /\ alive' = alive \ Released
          /\ pointers' = pointers \ Released
          /\ registered' = (registered /\ "eventSource" \notin Released)
          /\ setupPc' = "released"
          /\ UNCHANGED <<user, enabled, config>>

SetupNext == processKernel \/ deinit

SetupSpec == SetupInit /\ [][SetupNext]_setupVars

-----------------------------------------------------------------------------
\* Properties

\* The injected functions of an enabled smoother notify an event source that
\* the workloop serves (they call eventSource->enable() without a check), and
\* the workloop runs with values its loops are made for: at least one step, a
\* range that is not empty (what BacklightSmoother assumes of Steps,
\* LowerBound and UpperBound), and a queue that is long enough.
EnabledMeansServed ==
  setupPc = "done" /\ enabled =>
    /\ registered /\ pointers = Objects
    /\ steps > 0 /\ queueSize >= MinimumQueueSize /\ first <= second

\* "processKernel() guarantees that all pointers are nullptr on failure" (line
\* 1330): a submodule that is not enabled keeps nothing, and no object is
\* left behind without a pointer to it.
FailureLeavesNothing ==
  /\ setupPc = "done" /\ ~enabled => pointers = {}
  /\ alive = pointers
  /\ setupPc = "released" => alive = {}

\* Setup is all or nothing, whichever of its steps fails (processKernel, deinit).
SetupAllOrNothing == EnabledMeansServed /\ FailureLeavesNothing
=============================================================================
