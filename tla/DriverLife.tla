------------------------------ MODULE DriverLife ------------------------------
(***************************************************************************)
(* What 32 drivers do when they are bound to their device, or loaded,      *)
(* and when they are removed: in which order they acquire what they need,  *)
(* what they undo at which failure, in which order they give it back.  All *)
(* the while their callbacks come from other threads and interrupts: a     *)
(* callback that is registered may be called at any time, and a timer, a   *)
(* work item or a file when it has been set off.                           *)
(***************************************************************************)
EXTENDS Naturals, Sequences

VARIABLES
  driver,      \* the driver
  phase,       \* "probe", "bound", "remove", "release", "gone"
  at,          \* the step of probe that comes next
  todo,        \* the steps of a removal, or of an error path, still to come
  has,         \* what has been acquired and not given back
  taken,       \* what an open() has acquired, and nothing gives back
  pending,     \* timers and work items that have been set off
  running,     \* callbacks that are running
  failed,      \* history: the steps that have failed, or "remove" cut short
  missed,      \* history: callbacks, with what they used and was not there
  twice        \* history: what has been given back and was not there

vars ==
  <<driver, phase, at, todo, has, taken, pending, running, failed, missed,
    twice>>

-----------------------------------------------------------------------------
(* The steps of a probe, and of a removal.                                   *)

\* A step that acquires r; at its failure, what is in undo is given back, and
\* probe returns an error, or success, or goes on without ("ignored"), or with a
\* pointer to nothing, and comes no further ("fatal").
Step(r, undo, failure) == [r |-> r, undo |-> undo, failure |-> failure]

Try(r, undo) == Step(r, undo, "error")
Sure(r) == Step(r, <<>>, "never")
Fatal(r) == Step(r, <<>>, "fatal")
SetOff(c) == Step(c, <<>>, "set off")              \* add_timer

Give(r) == [op |-> "give", of |-> r]
Cancel(c) == [op |-> "cancel", of |-> c]           \* del_timer
CancelSync(c) == [op |-> "cancel_sync", of |-> c]  \* and wait for it
Use(r) == [op |-> "use", of |-> r]                 \* by the removal itself
MayAbort == [op |-> "abort", of |-> "none"]        \* an early return

\* uses: what each callback needs; starts: what it sets off; managed: what the
\* driver core gives back after the rest, the last acquired first (devm_), and
\* what lies in the module or in memory that does.  A character device is called
\* twice: "cdev" and "misc" are the kernel's, which finds the device and takes a
\* reference to the module, "file" is the driver's, from open() to release().
-----------------------------------------------------------------------------

\* 20_input/keyinput.c.  keyinput_init ignores what keyio_init returns, and uses
\* an input device without looking whether it has got it.
\* input_unregister_device drops the reference that input_free_device drops.
KeyInput ==
  [probe |-> <<Step("node", <<>>, "success"), Step("gpio", <<>>, "ignored"),
               Step("irq", <<>>, "success"), Sure("timer"), Fatal("input"),
               Step("registered", <<>>, "success")>>,
   remove |-> <<CancelSync("timer"), Give("irq"), Give("registered"),
                Give("input"), Give("input")>>,
   uses |-> [irq |-> {"timer"}, timer |-> {"input"}],
   starts |-> [irq |-> {"timer"}, timer |-> {}],
   managed |-> {"timer"}]

\* itop4412_input_dts_key_ok/keyinput.c.  keyio_init frees the GPIO it could not
\* get; the timer is set off without a time.
KeyInputDts ==
  [probe |-> <<Try("node", <<>>), Try("gpio", <<"gpio">>), Try("irq", <<>>),
               Sure("timer"), SetOff("timer"), Fatal("input"),
               Try("registered", <<>>)>>,
   remove |-> <<Cancel("timer"), Give("irq"), Give("registered"),
                Give("input"), Give("input")>>,
   uses |-> [irq |-> {"timer"}, timer |-> {"input"}],
   starts |-> [irq |-> {"timer"}, timer |-> {}],
   managed |-> {"timer"}]

\* itop4412_usbmouse/03_usbmouse_urb.c, which looks neither at the buffer nor at
\* the URB that it fills, and whose disconnect does nothing.  The URB submits
\* itself again, until the USB core, before disconnect, ends it.
UsbMouse ==
  [probe |-> <<Step("data", <<>>, "ignored"), Fatal("urb"), SetOff("urb")>>,
   remove |-> <<CancelSync("urb")>>,
   uses |-> [urb |-> {"data"}],
   starts |-> [urb |-> {"urb"}],
   managed |-> {}]

\* itop4412_timer_ok/timer.c.  timer_callback sets itself off again.
Timer ==
  [probe |-> <<Sure("timer"), SetOff("timer")>>,
   remove |-> <<Cancel("timer")>>,
   uses |-> [timer |-> {}],
   starts |-> [timer |-> {"timer"}],
   managed |-> {"timer"}]

\* itop4412_adc/itop4412_adc_ok.c
Adc ==
  [probe |-> <<Try("memory", <<>>), Try("regs", <<>>), Try("vdd", <<>>),
               Try("clk", <<>>), Try("prepared", <<"vdd">>),
               Try("clock", <<"prepared", "vdd">>), Try("irqnum", <<>>),
               Try("irq", <<"clock", "prepared", "vdd">>),
               Try("iio", <<"irq", "clock", "prepared", "vdd">>),
               Sure("completion"), Sure("hw"),
               Try("children", <<"iio", "irq", "clock", "prepared", "vdd">>)>>,
   remove |-> <<Give("children"), Give("iio"), Give("irq"), Give("clock"),
                Give("prepared"), Give("vdd")>>,
   uses |-> [iio |-> {"memory", "regs", "clock", "completion", "hw"},
             irq |-> {"memory", "regs", "clock", "completion"}],
   starts |-> [iio |-> {}, irq |-> {}],
   managed |-> {"memory", "regs", "clk", "irqnum", "completion", "hw"}]

\* itop4412_pwm_beep_ok/my_pwm-beeper_5.3.18.c.  input_unregister_device calls
\* pwm_beeper_close, which is pwm_beeper_stop.
Beeper ==
  [probe |-> <<Try("memory", <<>>), Try("pwm", <<>>), Try("amp", <<>>),
               Sure("work"), Try("input", <<>>), Try("registered", <<"input">>),
               Sure("drvdata")>>,
   remove |-> <<CancelSync("work"), Use("amp"), Use("pwm"), Give("pwm"),
                Give("registered"), CancelSync("work"), Use("amp"),
                Use("pwm"), Give("input")>>,
   uses |-> [registered |-> {"memory", "drvdata"},
             work |-> {"memory", "pwm", "amp"}],
   starts |-> [registered |-> {"work"}, work |-> {}],
   managed |-> {"memory", "pwm", "amp", "work", "input", "registered",
                "drvdata"}]

\* 27_iio/spi/icm20608.c
Icm20608 ==
  [probe |-> <<Try("memory", <<>>), Try("iio", <<>>), Try("regmap", <<"iio">>),
               Sure("setup")>>,
   remove |-> <<Give("regmap"), Give("iio")>>,
   uses |-> [iio |-> {"memory", "regmap", "setup"}],
   starts |-> [iio |-> {}],
   managed |-> {"memory", "setup"}]

\* 22_spi/icm20608.c.
SpiFile ==
  [probe |-> <<Step("devid", <<>>, "ignored"), Step("cdev", <<>>, "ignored"),
               Try("class", <<>>), Try("device", <<>>), Sure("setup")>>,
   remove |-> <<Give("cdev"), Give("devid"), Give("device"), Give("class")>>,
   uses |-> [cdev |-> {}, file |-> {"setup"}],
   starts |-> [cdev |-> {"file"}, file |-> {}],
   managed |-> {"setup"}]

\* 21_iic/ap3216c.c, with i2c_client in the place of spi_device; open() uses it.
I2cFile == SpiFile

\* 5_gpioled/gpioled.c
GpioLed ==
  [probe |-> <<Try("node", <<>>), Try("number", <<>>),
               Step("output", <<>>, "ignored"), Step("devid", <<>>, "ignored"),
               Step("cdev", <<>>, "ignored"), Try("class", <<>>),
               Try("device", <<>>)>>,
   remove |-> <<Give("cdev"), Give("devid"), Give("device"), Give("class")>>,
   uses |-> [cdev |-> {}, file |-> {}],
   starts |-> [cdev |-> {"file"}, file |-> {}],
   managed |-> {"number", "output"}]

\* 6_beep/beep.c, 7_atomic/atomic.c, 8_spinlock/spinlock.c,
\* 9_semaphore/semaphore.c and 10_mutex/mutex.c.  The locks are initialised
\* before all this.
GpioBeep == GpioLed
AtomicModule == GpioLed
SpinModule == GpioLed
SemModule == GpioLed
MutexModule == GpioLed

\* 11_key/key.c, which deals with its GPIO in open(): see Take.
KeyFile == [GpioLed EXCEPT !.probe = SubSeq(@, 4, 7), !.managed = {}]

\* 12_timer/timer.c, likewise: the device is there before its timer.
TimerFile ==
  [probe |-> Append(KeyFile.probe, Sure("timer")),
   remove |-> <<CancelSync("timer")>> \o KeyFile.remove,
   uses |-> [cdev |-> {}, file |-> {"timer"}, timer |-> {}],
   starts |-> [cdev |-> {"file"}, file |-> {"timer"}, timer |-> {"timer"}],
   managed |-> {"timer"}]

\* 3_newchrled/newchrled.c, which reads through what ioremap returns, unlooked at.
NewChrLed ==
  [probe |-> <<Fatal("regs")>> \o KeyFile.probe,
   remove |-> <<Give("regs")>> \o KeyFile.remove,
   uses |-> [cdev |-> {}, file |-> {"regs"}],
   starts |-> [cdev |-> {"file"}, file |-> {}],
   managed |-> {}]

\* 4_dtsled/dtsled.c
DtsRegsLed == [NewChrLed EXCEPT !.probe = <<Try("node", <<>>)>> \o @]

\* 19_misc_beep/miscbeep.c
MiscBeep ==
  [probe |-> <<Try("node", <<>>), Try("number", <<>>),
               Step("output", <<>>, "ignored"), Try("misc", <<>>)>>,
   remove |-> <<Use("number"), Give("misc")>>,
   uses |-> [misc |-> {}, file |-> {}],
   starts |-> [misc |-> {"file"}, file |-> {}],
   managed |-> {"number", "output"}]

\* max485_ctl.c, which deregisters what it could not register.
Max485 ==
  [MiscBeep EXCEPT !.probe = <<Try("output", <<>>), Try("misc", <<"misc">>)>>,
                   !.remove = <<Give("misc")>>,
                   !.managed = {"output"}]

\* 17_platform/leddriver.c, which does not look at what ioremap returns.
PlatformLed ==
  [probe |-> <<Try("resources", <<>>), Fatal("regs"),
               Step("devid", <<>>, "ignored"), Step("cdev", <<>>, "ignored"),
               Try("class", <<>>), Try("device", <<>>)>>,
   remove |-> <<Give("regs"), Give("cdev"), Give("devid"), Give("device"),
                Give("class")>>,
   uses |-> [cdev |-> {}, file |-> {"regs"}],
   starts |-> [cdev |-> {"file"}, file |-> {}],
   managed |-> {"resources"}]

\* 18_dtsplatform/leddriver.c, which never gives its GPIO back.
DtsLed ==
  [probe |-> <<Try("node", <<>>), Try("number", <<>>),
               Step("gpio", <<>>, "ignored"), Step("devid", <<>>, "ignored"),
               Step("cdev", <<>>, "ignored"), Try("class", <<>>),
               Try("device", <<>>)>>,
   remove |-> <<Give("cdev"), Give("devid"), Give("device"), Give("class")>>,
   uses |-> [cdev |-> {}, file |-> {}],
   starts |-> [cdev |-> {"file"}, file |-> {}],
   managed |-> {"number"}]

\* itop4412_platform_dts_cdev_led_ok/leddriver.c.  leds_init frees the GPIOs it
\* could not get, and led_remove frees them before the device is gone.
CdevLed ==
  [probe |-> <<Try("node", <<>>), Try("number", <<"gpio">>),
               Try("gpio", <<"gpio">>), Try("output", <<"gpio">>),
               Step("devid", <<>>, "ignored"), Step("cdev", <<>>, "ignored"),
               Try("class", <<>>), Try("device", <<>>)>>,
   remove |-> <<Use("gpio"), Give("gpio"), Give("cdev"), Give("device"),
                Give("class"), Give("devid")>>,
   uses |-> [cdev |-> {}, file |-> {"gpio"}],
   starts |-> [cdev |-> {"file"}, file |-> {}],
   managed |-> {"number", "output"}]

\* 27_iio/iic/ap3216c.c.  Both errors unregister what is not registered.
Ap3216c ==
  [probe |-> <<Try("memory", <<>>), Try("regmap", <<"iio">>),
               Try("iio", <<"iio">>), Sure("setup")>>,
   remove |-> <<Give("regmap"), Give("iio")>>,
   uses |-> [iio |-> {"memory", "regmap", "setup"}],
   starts |-> [iio |-> {}],
   managed |-> {"memory", "setup"}]

\* 26_regmap/iic/ap3216c.c.  Without a device, device_destroy is called in the
\* place of class_destroy.
RegmapI2c ==
  [probe |-> <<Try("memory", <<>>), Try("regmap", <<>>),
               Try("devid", <<"regmap">>), Try("cdev", <<"devid", "regmap">>),
               Try("class", <<"cdev", "devid", "regmap">>),
               Try("device", <<"device", "cdev", "devid", "regmap">>)>>,
   remove |-> <<Give("cdev"), Give("devid"), Give("device"), Give("class"),
                Give("regmap")>>,
   uses |-> [cdev |-> {"memory"}, file |-> {"memory", "regmap"}],
   starts |-> [cdev |-> {"file"}, file |-> {}],
   managed |-> {"memory"}]

\* 26_regmap/spi/icm20608.c
RegmapSpi ==
  [RegmapI2c EXCEPT !.probe = Append(@, Sure("setup")),
                    !.uses.file = @ \cup {"setup"},
                    !.managed = @ \cup {"setup"}]

\* 23_multitouch/ft5x06.c
Ft5x06 ==
  [probe |-> <<Try("reset", <<>>), Try("gpio", <<>>), Try("irq", <<>>),
               Try("input", <<>>), Try("slots", <<"input">>),
               Try("registered", <<"input">>)>>,
   remove |-> <<Give("registered")>>,
   uses |-> [irq |-> {"input"}],
   starts |-> [irq |-> {}],
   managed |-> {"reset", "gpio", "irq", "input", "slots", "registered"}]

\* Gt9147 with the interrupt first (a bug some property must notice; the same
\* goes for every operator named Bug...).
BugGt9147 ==
  [probe |-> <<Step("pins", <<>>, "ignored"), Step("irq", <<>>, "success"),
               Try("input", <<>>), Try("slots", <<>>),
               Try("registered", <<>>)>>,
   remove |-> <<Give("registered")>>,
   uses |-> [irq |-> {"input"}],
   starts |-> [irq |-> {}],
   managed |-> {"pins", "input", "slots", "registered", "irq"}]

\* 23_multitouch/gt9147.c.  ret is a u8, which is never negative: of the errors
\* those that are tested with < 0 are not noticed.
Gt9147 ==
  [probe |-> <<Step("pins", <<>>, "ignored"), Try("input", <<>>),
               Try("slots", <<>>), Try("registered", <<>>),
               Step("irq", <<>>, "success")>>,
   remove |-> <<Give("registered")>>,
   uses |-> [irq |-> {"input"}],
   starts |-> [irq |-> {}],
   managed |-> {"pins", "input", "slots", "registered", "irq"}]

\* 24_ramdisk_withrequest/ramdisk.c.  Without a number ret is still 0; without
\* a queue it is EINVAL, which the module loader takes for a success.
Ramdisk ==
  [probe |-> <<Try("buf", <<>>), Step("blkdev", <<"buf">>, "success"),
               Try("disk", <<"blkdev", "buf">>),
               Step("queue", <<"disk", "blkdev", "buf">>, "success"),
               Sure("requests")>>,
   remove |-> <<Give("requests"), Give("disk"), Give("queue"),
                Give("blkdev"), Give("buf")>>,
   uses |-> [requests |-> {"buf", "queue"}],
   starts |-> [requests |-> {}],
   managed |-> {}]

\* RamdiskNoRequest that leaves the major number registered.
BugRamdiskNoRequest ==
  [Ramdisk EXCEPT !.probe[3] = Try("disk", <<"buf">>),
                  !.probe[4] = Try("queue", <<"disk", "blkdev", "buf">>)]

\* 25_ramdisk_norequest/ramdisk.c, which returns -EINVAL without a queue.
RamdiskNoRequest ==
  [Ramdisk EXCEPT !.probe[4] = Try("queue", <<"disk", "blkdev", "buf">>)]

\* itop4412_watchdog_ok/drivers_watchdog_s3c2410_wdt.c.  The driver core takes
\* no notice of a remove that returns an error.
WatchdogDriver ==
  [probe |-> <<Try("memory", <<>>), Try("regs", <<>>), Try("clk", <<>>),
               Try("clock", <<>>), Try("irq", <<"clock">>),
               Try("ops", <<"clock">>), Try("unmasked", <<"ops", "clock">>),
               Sure("drvdata")>>,
   remove |-> <<MayAbort, Give("unmasked"), Give("ops"), Give("clock")>>,
   uses |-> [irq |-> {"memory", "regs", "clock", "drvdata"},
             ops |-> {"memory", "regs", "clock"}],
   starts |-> [irq |-> {}, ops |-> {}],
   managed |-> {"memory", "regs", "clk", "irq", "drvdata"}]

Table ==
  [keyinput |-> KeyInput, keyinput_dts |-> KeyInputDts, usbmouse |-> UsbMouse,
   timer |-> Timer, adc |-> Adc, beeper |-> Beeper, icm20608 |-> Icm20608,
   spi_file |-> SpiFile, i2c_file |-> I2cFile, platform_led |-> PlatformLed,
   dts_led |-> DtsLed, cdev_led |-> CdevLed, ap3216c |-> Ap3216c,
   regmap_i2c |-> RegmapI2c, regmap_spi |-> RegmapSpi,
   gpioled |-> GpioLed, beep |-> GpioBeep, atomic |-> AtomicModule,
   spinlock |-> SpinModule, semaphore |-> SemModule, mutex |-> MutexModule,
   key |-> KeyFile, timer_file |-> TimerFile, newchrled |-> NewChrLed,
   dts_regs_led |-> DtsRegsLed, misc_beep |-> MiscBeep, max485 |-> Max485,
   ft5x06 |-> Ft5x06, gt9147 |-> Gt9147,
   ramdisk |-> Ramdisk, ramdisk_norequest |-> RamdiskNoRequest,
   watchdog |-> WatchdogDriver]

-----------------------------------------------------------------------------

\* Modules that are a character device themselves, and not a driver of a bus:
\* rmmod does not begin while a file is open, nor is one opened once it has, or
\* once the load has failed; a load that fails waits for no file.
Modules == {"gpioled", "beep", "atomic", "spinlock", "semaphore", "mutex",
            "key", "timer_file", "newchrled", "dts_regs_led"}

\* Those whose open() acquires something.
Openers == {"key", "timer_file"}

D == Table[driver]
Callbacks == DOMAIN D.uses
Deferred == UNION {D.starts[c] : c \in Callbacks}
Resources == {D.probe[i].r : i \in DOMAIN D.probe}

TypeOK ==
  /\ driver \in DOMAIN Table
  /\ phase \in {"probe", "bound", "remove", "release", "gone"}
  /\ at \in 1 .. Len(D.probe) + 1
  /\ has \subseteq Resources \cup {"code"}
  /\ taken \subseteq {"node", "gpio"}
  /\ pending \subseteq Deferred
  /\ running \subseteq Callbacks
  /\ failed \subseteq Resources \cup {"remove"}
  /\ missed \subseteq
       (Callbacks \cup {"probe", "remove"}) \X (Resources \cup {"code"})
  /\ twice \subseteq Resources

Init ==
  /\ driver \in DOMAIN Table
  /\ phase = "probe"
  /\ at = 1
  /\ todo = <<>>
  /\ has = {"code"}
  /\ taken = {}
  /\ pending = {}
  /\ running = {}
  /\ failed = {}
  /\ missed = {}
  /\ twice = {}

-----------------------------------------------------------------------------
(* Probe, or the load of a module                                            *)

Now == D.probe[at]

Acquire ==
  /\ phase = "probe" /\ at \in DOMAIN D.probe
  /\ \A m \in missed : m[1] # "probe"
  /\ at' = at + 1
  /\ IF Now.failure = "set off"
     THEN pending' = pending \cup {Now.r} /\ UNCHANGED has
     ELSE has' = has \cup {Now.r} /\ UNCHANGED pending
  /\ UNCHANGED <<driver, phase, todo, taken, running, failed, missed, twice>>

\* An error that is returned has the core take back what it manages; one that
\* is not leaves the driver bound, or the module loaded.
FailStep ==
  /\ phase = "probe" /\ at \in DOMAIN D.probe
  /\ \/ /\ Now.failure = "ignored"
        /\ at' = at + 1
        /\ UNCHANGED <<phase, todo>>
     \/ /\ Now.failure \in {"error", "success"}
        /\ phase' = IF Now.failure = "error" THEN "remove" ELSE "probe"
        /\ at' = Len(D.probe) + 1
        /\ todo' = [i \in DOMAIN Now.undo |-> Give(Now.undo[i])]
  /\ failed' = failed \cup {Now.r}
  /\ UNCHANGED <<driver, has, taken, pending, running, missed, twice>>

\* One that is not noticed ends the thread at the next line, and probe with it.
Crash ==
  /\ phase = "probe" /\ at \in DOMAIN D.probe
  /\ Now.failure = "fatal"
  /\ missed' = missed \cup {<<"probe", Now.r>>}
  /\ UNCHANGED <<driver, phase, at, todo, has, taken, pending, running, failed,
                 twice>>

Bound ==
  /\ phase = "probe" /\ at = Len(D.probe) + 1 /\ todo = <<>>
  /\ phase' = "bound"
  /\ UNCHANGED <<driver, at, todo, has, taken, pending, running, failed, missed,
                 twice>>

-----------------------------------------------------------------------------
(* Removal, error paths                                                      *)

Remove ==
  /\ phase = "bound"
  /\ driver \in Modules => {"cdev", "file"} \cap (pending \cup running) = {}
  /\ phase' = "remove"
  /\ todo' = D.remove
  /\ UNCHANGED <<driver, at, has, taken, pending, running, failed, missed, twice>>

\* free_irq, iio_device_unregister and the like wait for the callback that they
\* take back, del_timer_sync and cancel_work_sync for the one they cancel.
Undo ==
  /\ todo # <<>>
  /\ LET s == Head(todo) IN
     /\ s.op \in {"give", "cancel_sync"} => s.of \notin running
     /\ has' = IF s.op = "give" THEN has \ {s.of} ELSE has
     /\ pending' = IF s.op \in {"cancel", "cancel_sync"}
                   THEN pending \ {s.of} ELSE pending
     /\ twice' = IF s.op \in {"give", "cancel", "cancel_sync"} /\ s.of \notin has
                 THEN twice \cup {s.of} ELSE twice
     /\ missed' = IF s.op = "use" /\ s.of \notin has
                  THEN missed \cup {<<"remove", s.of>>} ELSE missed
     /\ \/ todo' = Tail(todo) /\ UNCHANGED failed
        \/ s.op = "abort" /\ todo' = <<>> /\ failed' = failed \cup {"remove"}
  /\ UNCHANGED <<driver, phase, at, taken, running>>

\* The core gives back what it manages, in the reverse order.
Release ==
  /\ phase \in {"remove", "release"} /\ todo = <<>>
  /\ phase' = "release"
  /\ \E i \in DOMAIN D.probe :
       LET r == D.probe[i].r IN
       /\ r \in has \cap D.managed
       /\ \A j \in i + 1 .. Len(D.probe) : D.probe[j].r \notin has \cap D.managed
       /\ r \notin running \/ r \in Deferred
       /\ has' = has \ {r}
  /\ UNCHANGED <<driver, at, todo, taken, pending, running, failed, missed,
                 twice>>

\* The module is removed, which an open file prevents.
Unload ==
  /\ phase \in {"remove", "release"} /\ todo = <<>>
  /\ driver \in Modules \/ "file" \notin pending \cup running
  /\ has \cap D.managed = {}
  /\ phase' = "gone"
  /\ has' = has \ {"code"}
  /\ UNCHANGED <<driver, at, todo, taken, pending, running, failed, missed,
                 twice>>

-----------------------------------------------------------------------------
(* The callbacks                                                             *)

Missing(c) == {<<c, r>> : r \in (D.uses[c] \cup {"code"}) \ has}

Begin(c) ==
  /\ c \notin running
  /\ IF c \in Deferred THEN c \in pending ELSE c \in has
  /\ driver \in Modules /\ c = "cdev" => phase \notin {"remove", "release"}
  /\ running' = running \cup {c}
  /\ pending' = pending \ {c}
  /\ missed' = missed \cup Missing(c)
  /\ UNCHANGED <<driver, phase, at, todo, has, taken, failed, twice>>

\* keyio_init of 11_key/key.c and led_init of 12_timer/timer.c, in open(): they
\* take the device node and then, without looking whether they get it, the GPIO.
Take(r) ==
  /\ driver \in Openers
  /\ "file" \in running /\ Missing("file") = {}
  /\ r = "gpio" => "node" \in taken
  /\ taken' = taken \cup {r}
  /\ UNCHANGED <<driver, phase, at, todo, has, pending, running, failed, missed,
                 twice>>

\* One that misses something goes no further, nor does an open() without a node.
End(c) ==
  /\ c \in running
  /\ LET goes == /\ Missing(c) = {}
                 /\ driver \in Openers /\ c = "file" => "node" \in taken
     IN  pending' = pending \cup (IF goes THEN D.starts[c] ELSE {})
  /\ running' = running \ {c}
  /\ missed' = missed \cup Missing(c)
  /\ UNCHANGED <<driver, phase, at, todo, has, taken, failed, twice>>

Next ==
  \/ Acquire \/ FailStep \/ Crash \/ Bound
  \/ Remove \/ Undo \/ Release \/ Unload
  \/ \E c \in Callbacks : Begin(c) \/ End(c)
  \/ \E r \in {"node", "gpio"} : Take(r)

Spec == Init /\ [][Next]_vars

-----------------------------------------------------------------------------

\* Exceptions are given with the driver, the step that failed ("none" if they
\* need no failure), and what is missing or left.
Known(x, exceptions) ==
  \E f \in failed \cup {"none"} : <<driver, f, x>> \in exceptions

\* The drivers whose probe undoes nothing of its character device.
Plain ==
  Modules \cup {"spi_file", "i2c_file", "platform_led", "dts_led", "cdev_led"}

\* What callbacks, removals and probes find missing: interrupts and attributes
\* that are there before what they use or after it, timers that outlive it,
\* files that are still open, what a probe that failed has left registered, and
\* what a probe has not got and uses.
Windows ==
  {"keyinput", "keyinput_dts"} \X {"none"}
      \X {<<"irq", "timer">>, <<"timer", "input">>, <<"timer", "code">>}
    \cup {"keyinput_dts"} \X {"registered"} \X {<<"irq", "code">>}
    \cup {"keyinput", "keyinput_dts"} \X {"none"} \X {<<"probe", "input">>}
    \cup {"usbmouse"} \X {"none"} \X {<<"probe", "urb">>}
    \cup {"newchrled", "dts_regs_led", "platform_led"} \X {"none"}
      \X {<<"probe", "regs">>}
    \cup {"usbmouse"} \X {"data"} \X {<<"urb", "data">>}
    \cup {"timer"} \X {"none"} \X {<<"timer", "code">>}
    \cup {"adc"} \X {"none"} \X {<<"iio", "completion">>, <<"iio", "hw">>,
                                 <<"irq", "completion">>}
    \cup {"beeper"} \X {"none"} \X {<<"registered", "drvdata">>,
                                    <<"work", "pwm">>, <<"remove", "pwm">>}
    \cup {"icm20608"} \X {"none"} \X {<<"iio", "regmap">>, <<"iio", "setup">>}
    \cup {"spi_file", "i2c_file", "regmap_spi"} \X {"none"} \X {<<"file", "setup">>}
    \cup {"ap3216c"} \X {"none"} \X {<<"iio", "regmap">>, <<"iio", "setup">>}
    \cup {"platform_led"} \X {"none"} \X {<<"file", "regs">>}
    \cup {"cdev_led"} \X {"none"} \X {<<"file", "gpio">>}
    \cup Plain \X {"class", "device"} \X {<<"cdev", "code">>}
    \cup Modules \X {"class", "device"} \X {<<"file", "code">>}
    \cup {"timer_file"} \X {"none"} \X {<<"file", "timer">>}
    \cup {"regmap_i2c", "regmap_spi"} \X {"none"}
      \X {<<"file", "regmap">>, <<"file", "memory">>}
    \cup {"ft5x06"} \X {"none"} \X {<<"irq", "input">>}
    \cup {"watchdog"} \X {"none"} \X {<<"irq", "drvdata">>, <<"irq", "clock">>}
    \cup {"watchdog"} \X {"remove"}
      \X {<<"ops", "memory">>, <<"ops", "regs">>, <<"ops", "code">>}

\* Whenever a callback is called, be it while probe or removal is under way,
\* after a failed one or after the module is gone, what it uses is there, and so
\* is what probe and removal use themselves, except in the windows above.
Ready == \A m \in missed : Known(m, Windows)

\* What is left in the end.
Leaks ==
  {"keyinput", "keyinput_dts"} \X {"none"} \X {"node", "gpio"}
    \cup {"keyinput_dts"} \X {"registered"} \X {"irq", "input"}
    \cup {"key", "timer_file"} \X {"none"} \X {"node", "gpio"}
    \cup {"usbmouse"} \X {"none"} \X {"data", "urb"}
    \cup {"adc"} \X {"clk"} \X {"vdd"}
    \cup {"adc"} \X {"irqnum"} \X {"clock", "prepared", "vdd"}
    \cup Plain \X {"class", "device"} \X {"cdev", "devid"}
    \cup Plain \X {"device"} \X {"class"}
    \cup {"platform_led", "newchrled", "dts_regs_led"}
      \X {"class", "device"} \X {"regs"}
    \cup {"dts_led"} \X {"none"} \X {"gpio"}
    \cup {"dts_led", "cdev_led", "gpioled", "beep", "atomic", "spinlock",
          "semaphore", "mutex", "dts_regs_led", "misc_beep"}
      \X {"none"} \X {"node"}
    \cup {"cdev_led"} \X {"class", "device"} \X {"gpio"}
    \cup {"ap3216c"} \X {"iio"} \X {"regmap"}
    \cup {"regmap_i2c", "regmap_spi"} \X {"device"} \X {"class"}
    \cup {"watchdog"} \X {"remove"} \X {"unmasked", "ops", "clock"}

\* What is given back without being there.
Doubles ==
  {"keyinput", "keyinput_dts"} \X {"none"} \X {"input"}
    \cup {"keyinput"} \X {"registered"} \X {"registered"}
    \cup {"keyinput"} \X {"node", "irq"} \X {"timer", "irq", "registered"}
    \cup {"keyinput_dts"} \X {"gpio"} \X {"gpio"}
    \cup {<<d, r, r>> : d \in Plain, r \in {"devid", "cdev"}}
    \cup {"cdev_led"} \X {"number", "gpio"} \X {"gpio"}
    \cup {"max485"} \X {"misc"} \X {"misc"}
    \cup {"ap3216c"} \X {"regmap", "iio"} \X {"iio"}
    \cup {"regmap_i2c", "regmap_spi"} \X {"device"} \X {"device"}
    \cup {"ramdisk"} \X {"blkdev", "queue"}
      \X {"requests", "disk", "queue", "blkdev", "buf"}
    \cup {"ramdisk_norequest"} \X {"blkdev"}
      \X {"requests", "disk", "queue", "blkdev", "buf"}

\* Whatever step of a probe fails, and however removals and callbacks interleave,
\* all that was acquired is given back in the end, and once, except for the
\* above.
Balanced ==
  /\ phase = "gone" => \A r \in has \cup taken : Known(r, Leaks)
  /\ \A r \in twice : Known(r, Doubles)

=============================================================================
