------------------------------- MODULE KeyModule ------------------------------
(***************************************************************************)
(* Loading and unloading a key driver.  imx6uirq_init, keyio_init and      *)
(* imx6uirq_exit are the same in the four drivers, but that imx6uirq.c has *)
(* no wait queue.  Every call that may fail is checked and returns at      *)
(* once, without undoing what came before it; what keyio_init returns is   *)
(* dropped.  Meanwhile the key raises interrupts as soon as request_irq    *)
(* has enabled them, and processes open the device as soon as cdev_add has *)
(* made it known.                                                          *)
(***************************************************************************)
EXTENDS FiniteSets

CONSTANT Procs           \* processes that use the device

VARIABLES
  stage,       \* the next step of imx6uirq_init or imx6uirq_exit
  held,        \* what the kernel holds for the driver
  timer,       \* "raw" is a timer that has not seen init_timer
  ticking,     \* timer_function is running
  ready,       \* r_wait has seen init_waitqueue_head
  open,        \* processes that have the device open
  irq,         \* an edge is latched
  late,        \* history: key0_handler has run since del_timer_sync returned
  aborted,     \* history: imx6uirq_init has returned an error
  fault        \* the kernel has used a raw timer or queue, or unloaded code

loadVars == <<stage, held, aborted>>
timerVars == <<timer, ticking, irq, late>>
moduleVars ==
  <<stage, held, timer, ticking, ready, open, irq, late, aborted, fault>>

Loading ==
  {"cdev", "class", "device", "node", "gpio", "request", "timer", "queue"}
Unloading == {"deltimer", "freeirq", "delcdev", "destroy"}
Registrations == {"region", "cdev", "class", "device", "node", "gpio", "irq"}

\* imx6uirq_exit calls neither of_node_put nor gpio_free.
Kept == {"node", "gpio"}

ModuleTypeOK ==
  /\ stage \in {"absent", "loaded"} \cup Loading \cup Unloading
  /\ held \subseteq Registrations
  /\ timer \in {"raw", "idle", "pending"}
  /\ ticking \in BOOLEAN
  /\ ready \in BOOLEAN
  /\ open \subseteq Procs
  /\ irq \in BOOLEAN
  /\ late \in BOOLEAN
  /\ aborted \in BOOLEAN
  /\ fault \in {"none", "timer", "queue", "code"}

ModuleInit ==
  /\ stage = "absent"
  /\ held = {}
  /\ timer = "raw"
  /\ ticking = FALSE
  /\ ready = FALSE
  /\ open = {}
  /\ irq = FALSE
  /\ late = FALSE
  /\ aborted = FALSE
  /\ fault = "none"

-----------------------------------------------------------------------------
(* imx6uirq_init and keyio_init                                              *)

Obtain(resource, next) ==
  /\ held' = held \cup {resource}
  /\ stage' = next

\* imx6uirq_init returns an error: the kernel frees the module, and nothing
\* has been given back.
LoadFails ==
  /\ stage' = "absent"
  /\ aborted' = TRUE
  /\ UNCHANGED held

\* insmod: a fresh struct imx6uirq_dev, and alloc_chrdev_region.  A timer that
\* a former unloading has left behind expires before that; what it has kept is
\* still there.  A load after one that has failed is left out: it would add to
\* what that one has left.
Load ==
  /\ stage = "absent" /\ ~aborted
  /\ timer # "pending" /\ ~ticking
  /\ Obtain("region", "cdev")
  /\ timer' = "raw" /\ ready' = FALSE /\ late' = FALSE
  /\ UNCHANGED <<ticking, open, irq, aborted, fault>>

AddCdev ==
  /\ stage = "cdev"
  /\ Obtain("cdev", "class")
  /\ UNCHANGED <<timerVars, ready, open, aborted, fault>>

CreateClass ==
  /\ stage = "class"
  /\ \/ Obtain("class", "device") /\ UNCHANGED aborted
     \/ LoadFails
  /\ UNCHANGED <<timerVars, ready, open, fault>>

CreateDevice ==
  /\ stage = "device"
  /\ \/ Obtain("device", "node") /\ UNCHANGED aborted
     \/ LoadFails
  /\ UNCHANGED <<timerVars, ready, open, fault>>

\* keyio_init: of_find_node_by_path.  Its errors are dropped.
FindNode ==
  /\ stage = "node"
  /\ \/ Obtain("node", "gpio")
     \/ stage' = "loaded" /\ UNCHANGED held
  /\ UNCHANGED <<timerVars, ready, open, aborted, fault>>

\* Nobody looks at what gpio_request returns: a busy GPIO, such as one that a
\* former load has kept, makes no difference.
RequestGpio ==
  /\ stage = "gpio"
  /\ stage' = "request"
  /\ held' \in {held, held \cup {"gpio"}}
  /\ UNCHANGED <<timerVars, ready, open, aborted, fault>>

RequestIrq ==
  /\ stage = "request"
  /\ \/ Obtain("irq", "timer")
     \/ stage' = "loaded" /\ UNCHANGED held
  /\ UNCHANGED <<timerVars, ready, open, aborted, fault>>

\* InitTimer left out (a bug some property must notice; the same goes for every
\* operator named Bug...).
BugNoInitTimer ==
  /\ stage = "timer"
  /\ stage' = "queue"
  /\ UNCHANGED <<held, timerVars, ready, open, aborted, fault>>

InitTimer ==
  /\ stage = "timer"
  /\ timer' = "idle"
  /\ stage' = "queue"
  /\ UNCHANGED <<held, ticking, irq, late, ready, open, aborted, fault>>

InitQueue ==
  /\ stage = "queue"
  /\ ready' = TRUE
  /\ stage' = "loaded"
  /\ UNCHANGED <<held, timerVars, open, aborted, fault>>

LoadStep ==
  \/ Load \/ AddCdev \/ CreateClass \/ CreateDevice
  \/ FindNode \/ RequestGpio \/ RequestIrq \/ InitTimer \/ InitQueue

-----------------------------------------------------------------------------
(* imx6uirq_exit                                                             *)

\* rmmod: .owner = THIS_MODULE keeps the module while the device is open.
Rmmod ==
  /\ stage = "loaded"
  /\ open = {}
  /\ stage' = "deltimer"
  /\ UNCHANGED <<held, timerVars, ready, open, aborted, fault>>

\* DelTimer with del_timer in place of del_timer_sync.
BugDelTimer ==
  /\ stage = "deltimer"
  /\ IF timer = "raw" THEN fault' = "timer" /\ UNCHANGED <<timer, stage>>
                      ELSE timer' = "idle" /\ stage' = "freeirq" /\ UNCHANGED fault
  /\ UNCHANGED <<held, ticking, irq, late, ready, open, aborted>>

\* del_timer_sync waits for timer_function.  A raw timer has no base to lock.
DelTimer ==
  /\ stage = "deltimer"
  /\ ~ticking
  /\ IF timer = "raw" THEN fault' = "timer" /\ UNCHANGED <<timer, stage>>
                      ELSE timer' = "idle" /\ stage' = "freeirq" /\ UNCHANGED fault
  /\ UNCHANGED <<held, ticking, irq, late, ready, open, aborted>>

FreeIrq ==
  /\ stage = "freeirq"
  /\ held' = held \ {"irq"}
  /\ irq' = FALSE
  /\ stage' = "delcdev"
  /\ UNCHANGED <<timer, ticking, late, ready, open, aborted, fault>>

\* DelCdev without unregister_chrdev_region.
BugKeepRegion ==
  /\ stage = "delcdev"
  /\ held' = held \ {"cdev"}
  /\ stage' = "destroy"
  /\ UNCHANGED <<timerVars, ready, open, aborted, fault>>

\* cdev_del, unregister_chrdev_region
DelCdev ==
  /\ stage = "delcdev"
  /\ held' = held \ {"cdev", "region"}
  /\ stage' = "destroy"
  /\ UNCHANGED <<timerVars, ready, open, aborted, fault>>

\* device_destroy, class_destroy; the kernel frees the module.
Destroy ==
  /\ stage = "destroy"
  /\ held' = held \ {"device", "class"}
  /\ stage' = "absent"
  /\ UNCHANGED <<timerVars, ready, open, aborted, fault>>

UnloadStep == Rmmod \/ DelTimer \/ FreeIrq \/ DelCdev \/ Destroy

-----------------------------------------------------------------------------
(* Interrupt, timer and processes.                                           *)

Edge ==
  /\ "irq" \in held
  /\ irq' = TRUE
  /\ UNCHANGED <<loadVars, timer, ticking, late, ready, open, fault>>

\* key0_handler: mod_timer.
Handler ==
  /\ irq /\ "irq" \in held
  /\ irq' = FALSE
  /\ late' = (stage = "freeirq" \/ late)
  /\ IF timer = "raw" THEN fault' = "timer" /\ UNCHANGED timer
                      ELSE timer' = "pending" /\ UNCHANGED fault
  /\ UNCHANGED <<loadVars, ticking, ready, open>>

\* timer_function starts - if it is still there ...
Expire ==
  /\ timer = "pending" /\ ~ticking
  /\ timer' = "idle"
  /\ IF stage = "absent" THEN fault' = "code" /\ UNCHANGED ticking
                         ELSE ticking' = TRUE /\ UNCHANGED fault
  /\ UNCHANGED <<loadVars, irq, late, ready, open>>

\* ... and returns.
Finish ==
  /\ ticking
  /\ ticking' = FALSE
  /\ fault' = IF stage = "absent" THEN "code" ELSE fault
  /\ UNCHANGED <<loadVars, timer, irq, late, ready, open>>

\* open() finds the cdev, and the module unless it is being unloaded.
Open(p) ==
  /\ p \notin open
  /\ "cdev" \in held /\ stage \notin Unloading
  /\ IF stage = "absent" THEN fault' = "code" /\ UNCHANGED open
                         ELSE open' = open \cup {p} /\ UNCHANGED fault
  /\ UNCHANGED <<loadVars, timerVars, ready>>

\* read() goes to the wait queue; close() leaves the driver.
UseDevice(p) ==
  /\ p \in open
  /\ \/ /\ stage # "absent" /\ ready
        /\ UNCHANGED <<open, fault>>
     \/ /\ stage # "absent" /\ ~ready
        /\ fault' = "queue"
        /\ UNCHANGED open
     \/ /\ stage = "absent"
        /\ fault' = "code"
        /\ UNCHANGED open
     \/ /\ stage # "absent"
        /\ open' = open \ {p}
        /\ UNCHANGED fault
  /\ UNCHANGED <<loadVars, timerVars, ready>>

ModuleNext ==
  /\ fault = "none"
  /\ \/ LoadStep \/ UnloadStep
     \/ Edge \/ Handler \/ Expire \/ Finish
     \/ \E p \in Procs : Open(p) \/ UseDevice(p)

ModuleSpec == ModuleInit /\ [][ModuleNext]_moduleVars

-----------------------------------------------------------------------------

\* keyio_init has gone through.
Complete == "irq" \in held /\ stage \notin {"timer", "queue"}

\* Once keyio_init has gone through, no interrupt finds a raw timer and no
\* reader a raw wait queue: they do only while the module is being loaded, or
\* if an error of keyio_init was dropped.
LoadedIsSafe == fault \in {"timer", "queue"} => ~Complete

\* No code runs that has been unloaded, unless the load failed half way or an
\* interrupt came between del_timer_sync and free_irq.
UnloadedIsSafe ==
  /\ fault = "code" => aborted \/ late
  /\ stage = "absent" /\ ~aborted /\ ~late => timer # "pending" /\ ~ticking

\* However far keyio_init has come, unloading gives back all that loading has
\* acquired, except the device node and the GPIO, and leaves nobody inside.
CleanUnload == stage = "absent" /\ ~aborted => held \subseteq Kept /\ open = {}

\* The timer that imx6uirq_exit has deleted ("delete the timer", its comment)
\* stays deleted.  It does not: the interrupt that arms it is freed later.
StaysDeleted ==
  stage \in {"freeirq", "delcdev", "destroy"} => timer # "pending"

=============================================================================
