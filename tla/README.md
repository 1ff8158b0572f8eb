# A TLA+ model of the ARM-Linux drivers

This directory holds a TLA+ model of the concurrent core of the repository's
Linux drivers, the TLC configurations that check it on small instances, and
TLAPS proofs of its main invariants for every value of the constants.
`PROJECT.json` names, for each definition, the source lines it models.

The repository is a collection of character, block, input and bus drivers for
two boards (i.MX6ULL: the numbered directories; iTOP-4412: `itop4412_*`), each
with a small test program. Most drivers are straight register or GPIO access.
The logic that is hard to get right is in those in which an interrupt, a timer
and several processes share state. These come first.

## Inventory

| Component | State | Operations | Interacts with |
| --- | --- | --- | --- |
| Key drivers `13_key_irq`, `14_blockio_key_irq`, `15_noblockio_key_irq`, `16_asyncnoti_noblockio_key_irq` | atomics `keyvalue`, `releasekey`; `timer`; `r_wait` (14-16); `async_queue` (16) | `key0_handler`, `timer_function`, `imx6uirq_read`, `_poll`, `_fasync`, `_release`, `_init`, `_exit` | GPIO interrupt, kernel timer, wait queue, SIGIO, their test programs |
| Polled key `11_key` | `keylock` | `key_read`, which spins on the GPIO; init, exit | its readers |
| Exclusive LED drivers `7_atomic`, `8_spinlock`, `9_semaphore`, `10_mutex` | `lock` (7, 9, 10), `dev_stats` with its spinlock (8), the GPIO | `led_open`, `led_write`, `led_release`; `led_init`, `led_exit` | the open file and descriptors of the kernel, signals, fork |
| Timer LED driver `12_timer`, example `itop4412_timer_ok` | `timer`, `timeperiod` with a spinlock, the LED | `timer_unlocked_ioctl` (OPEN, CLOSE, SETPERIOD), `timer_callback`, `timer_open`, init, exit | kernel timer that arms itself again |
| PWM beeper `itop4412_pwm_beep_ok` | `period`, `suspended`, `amplifier_on`, the work item | event, work, close, suspend, resume, probe, remove | input core with its event lock, work queue, PWM, regulator |
| ADC `itop4412_adc` | a completion, `value`, the converter | `exynos_read_raw` with its timeout, interrupt, suspend, resume, probe, remove | IIO core and its mutex, interrupt, clock, regulator |
| Watchdog `itop4412_watchdog_ok` | `count`, `lock`, `wtcon_save`, `wtdat_save`, WTCON, WTDAT, WTCNT, two bits of the PMU | start, stop, ping, set_timeout, restart, interrupt, suspend, resume, shutdown, probe, remove | watchdog core, the counter, the PMU |
| Touch screens `23_multitouch` (FT5x06, GT9147) | the slots of the input core; registers of the panel | threaded interrupt handler, probe, remove | panel over I2C |
| Input drivers `20_input`, `itop4412_input_dts_key_ok` | `timer`, `inputdev` | `key0_handler`, `timer_function`, init, exit | interrupt, timer, input core |
| USB mouse `itop4412_usbmouse` | the URB and its buffer | probe, completion, disconnect | USB core |
| RAM disks `24_`, `25_` | buffer, queue, disk | init, exit, transfer | block layer |
| I2C, SPI, regmap and IIO sensors `21_iic`, `22_spi`, `26_regmap`, `27_iio` | a device structure, a regmap | probe, remove, open files, attributes | their buses, IIO core |
| LED and beeper drivers `3_newchrled` to `6_beep`, `17_platform`, `18_dtsplatform`, `19_misc_beep`, `max485_ctl`, `itop4412_platform_dts_cdev_led_ok` | a GPIO or mapped registers | load or probe, unload or remove, one access per call | character device and driver cores |
| Vendored code (`01_RTL8XXX_WIFI`, `kernel_*_files_zcq` and others) | - | - | not the repository's own logic |

What is hard, and what makes each component correct:

* **Key drivers.** The interrupt arms a timer, possibly while the timer's
  function runs; the function publishes two atomics in two steps; readers test
  and clear them in separate steps and sleep in between. Correct: the sample is
  taken after the contact has settled, the final level is reported, a marked
  release wakes whoever waits for one and is delivered at most once to a
  process, no SIGIO is lost, loading and unloading leave nothing armed,
  registered or uninitialised.
* **Polled key.** Readers share the variable through which each returns its own
  sample. Correct: a call returns what it has seen; it returns at all.
* **Exclusive LEDs.** `open()` and `close()` of several processes interleave
  with signals, with failing `open()`s and with inherited descriptors. Correct:
  at most one open file, `-EBUSY` only if the device was in use, no lock left
  behind, no waiter left asleep.
* **Timer LED.** A callback that arms its own timer races the commands that stop
  and reprogram it. Correct: after CLOSE the timer is stopped; after SETPERIOD
  only the new period is used.
* **Beeper.** The event callback may not sleep and leaves the work to a work item,
  which close(), suspend and further events overtake, and whose two devices may
  each fail. Correct: silent while suspended or closed, amplifier and PWM go
  together, the last request wins.
* **ADC.** A conversion that has timed out goes on, and its interrupt comes during
  the next one. Correct: a value is the caller's own, none is lost, and no register
  is used without its clock.
* **Watchdog.** A count rounded twice; a lock that is taken with interrupts on, by
  the interrupt too, and not taken by set_timeout at all; a PMU that may fail half
  way. Correct: who pings in time is not reset, who does not is; suspend changes
  nothing; shutdown stops the counter, a restart resets.
* **Touch screens.** The panel tells a release once, scans overwrite each other, and
  reads fail. Correct: the touched slots follow the fingers and none remains.
* **Every driver's life.** The order in which it acquires and gives back, against
  callbacks that come as soon as they are registered, and errors at every step.
  Correct: a callback finds what it uses; all is given back, and once.

## Modules

```
KeyDevice ---- PollKey (13) ----------------.----- KeyDebounce (13, in time)
     |-------- BlockKey (14) ---------------|
     `-------- WaitKey (15) -- AsyncKey (16)-+---- KeyDrivers ---- MCKeys
KeyReport <--- refined by ------------------------------'
KeyModule (init and exit of 13-16)         PolledKey (11)
LedFile ------ AtomicLed (7), SpinLed (8), SemLed (9), MutexLed (10)
                              `---- ExclusiveDrivers ---- MCExclusive
ExclusiveDevice <----- refined by ------'
TimerLed (12)  -- refines --> Blinker
PwmBeeper   AdcConversion   Watchdog   TouchPanel
DriverLife (loading and unloading, probe and remove of 32 drivers)
     `-------- DriverOrder (what their order must be like)
KeyProofs (13-16, 11), DebounceProofs, LifeProofs (KeyModule, DriverOrder),
ExclusiveProofs, TimerProofs, InputProofs (PwmBeeper, TouchPanel), AdcProofs,
WatchdogProofs
```

### Key drivers

`KeyDevice` is what the four key drivers share: the line and its latched edge,
`key0_handler` (arm the timer), `timer_function` up to the point where it tells
somebody (`Expire`, `StorePressed`, `StoreReleased`, `MarkRelease`: one action
per access to a shared variable), and the tail of `imx6uirq_read` (`ReadValue`,
`Deliver` or `NoData`, `ClearRelease`). `tf` is the program counter of the timer
function, `pc[p]` that of a process, `queue` the wait queue `r_wait`, and
`parked` the processes that are in `TASK_INTERRUPTIBLE` and that no wake-up has
reached. `fresh` is a history variable: processes that have not been given the
last release.

* `PollKey` (13) has no wait queue: `read()` returns at once.
* `BlockKey` (14) sleeps by hand: test, `add_wait_queue`,
  `__set_current_state`, `schedule`, one after the other; a wake-up between two
  of them is possible.
* `WaitKey` (15) is `wait_event_interruptible` (queue up, test again, sleep,
  loop) and, for the processes in `NonBlocking`, `poll()` with its timeout
  followed by `read()` as in `noblockioApp`. The branch of `read()` for
  `O_NONBLOCK` is `NonBlockingCheck`.
* `AsyncKey` (16) replaces the wake-up by `kill_fasync`; its `wake_up` is
  compiled out. `asyncnotiApp` reads in its SIGIO handler only, with SIGIO
  blocked; SIGIO is one pending bit. Being killed and started again is
  `FasyncOff` (through `imx6uirq_release`) and `FasyncOn`.

`KeyDrivers` puts them together: `driver` says which of the four is loaded.

`KeyReport` is the promise to the readers, whatever they wait with: a release is
offered only when the key was found up, a process takes one at most once, and
only one who has taken a release clears the flag. `KeyDrivers!Implements` says
that the four drivers implement it: `level` is `keyvalue`, `offered` is
`releasekey`, `owed` is `fresh`, `taking` are the processes at `ClearRelease`;
timer, interrupt and wait queue are hidden. `KeyReport` allows what the code does
and a reader may not expect: a release that is marked between a reader's test and
its clearing of the flag is withdrawn by the latter.

`KeyDebounce` adds time, in jiffies, to the driver 13: `left` until the timer
expires, `quiet` since the line last moved. The value of `DEBOUNCE` is
`msecs_to_jiffies(10)`.

`KeyModule` is `imx6uirq_init`, `keyio_init` and `imx6uirq_exit` call by call,
with a failure at each call the code checks, while interrupts come from
`request_irq` on and processes open the device from `cdev_add` on. `fault` says
that the kernel has used a timer or a wait queue that was not initialised, or
code that is not there any more; nothing is said of what follows. The results of
`alloc_chrdev_region` and `cdev_add` are not looked at by the code; that these
calls may fail is left out. So is a load after one that has failed. `keyio_init`
takes the device node (`FindNode`) and the GPIO, whose request it does not check
(`RequestGpio`); `imx6uirq_exit` gives back neither. They are `Kept`, the exception
of `CleanUnload`, and a later load finds the GPIO busy and goes on.

### Exclusive LEDs

`LedFile` is the part of the processes and the kernel: `open()`, `write()`, a
child that inherits the descriptor, `close()`, with `led_release` at the last
one. The four drivers supply `led_open` and `led_release`, one action per atomic
operation or critical section; in `SpinLed` taking the lock, the test, the
increment and the unlocking are separate actions. `SemLed` has the waiters of
`down_interruptible` in their order and the hand-over of `up()`. `MutexLed` uses
`mutex_lock_interruptible`, whose waiters compete.

`ExclusiveDevice` is the promise of the test programs and comments ("only one
application uses the LED at a time"): an `Open` is possible only while nobody
has the file, and only holders `Write`. `ExclusiveDrivers` states that every
driver implements it (`Implements == Exclusive!Spec`; the state `file`, `led` is
mapped by name, the locks are hidden).

### Timer LED

`TimerLed` is `12_timer`: two or more processes that open the device and issue
CLOSE_CMD, OPEN_CMD and SETPERIOD_CMD, and `timer_callback`, which arms its own
timer again. Each critical section of the spin lock is a single access, hence one
action; `mod_timer`, which comes after the lock is dropped, is an action of its
own, so a period may be armed that has been replaced meanwhile. `DelTimerSync`
waits for the callback. `stopped` and `current` are history variables.
`Blinker` is the promise (the timer drives the LED only while it is on), and
`Implements` maps its `on` to `~stopped`.

What the model shows beside its properties: `timer_open` puts the LED out but
leaves `sta` as it is, so the next callback may set the level the LED has already,
although the comment promises "invert each time, so that the LED is flipped"
(`每次都取反，实现LED灯反转`, timer.c:284). A further `open()` also resets the period
of whoever is using the timer.

### Polled key

`PolledKey` is `key_read` of `11_key` with several readers: the sample, the spin
that only the line ends, the store to `keylock` and the load of it are separate
actions. `saw` is what a call has sampled, `shared` says that another call
overlapped with it.

### PWM beeper

`PwmBeeper` has the event callback (atomic, under the event lock), the work item
in five steps (`WorkStart` to `WorkPwmOff`, program counter `work`), and
`pwm_beeper_stop`, which close() and suspend call, in four (`stop`):
`cancel_work_sync` takes the item off the queue and then waits for it. The input
core is modelled as the driver uses it: it passes on changes only (`snd`), calls
close() for the last handle, turns sounds off before suspend and on again after
resume; the handles in `Console` go on sending events while the others are
frozen. Bells and tones share one period other than 0.

### ADC

`AdcConversion`: readers take `indio_dev->mlock`, reinitialise the completion,
start a conversion and wait. Since there is one call at a time, conversions are
either "new", of the call under way, or "old"; `Begin` makes all that is about
old. `Timeout` may happen at any moment. `power` follows suspend and resume, which
the freezer lets run only while no reader is in a call; a resume may fail. Use of
a register without its clock sets `fault`, after which nothing is said.

### Watchdog

`Watchdog` has the registers, `s3c2410wdt_set_heartbeat` access by access, the
other operations with their lock, the interrupt handler, which may have interrupted
the thread that holds the lock (`on`), and the system thread: suspend, resume,
shutdown and restart (`sys`), with an error at each access to the PMU. The
arithmetic (`Freq`, `MaxTimeout`, `Divisor`, `Count`) is that of the code, with
rounding. Time is measured in periods of the divided clock: `Tick` counts down, and
`owed` is what a user has left for the next ping. The users are frozen from the
beginning of a suspend to the end of the resume; a shutdown freezes nobody, and
they go on calling before, during and after it (`UsersRun`). After `Restart` only the
counter runs: interrupts and other CPUs are stopped. A reboot is a shutdown and then a
restart; an emergency restart, as after a panic, comes at any moment, in the midst of
users' calls, the interrupt, a suspend, a resume or a shutdown. `sys` then keeps which
it was: "reboot" after a shutdown, "midway" when the PMU may have been touched already
and its bits be set, "emergency" otherwise. `late` says that shutdown's stop came while
a `set_timeout` held the WTCON it had read. `Init` assumes that probe has found a
timeout the clock allows; with neither its own nor the default one `count` is 0, which
no usual clock rate leads to.

### Touch screens

`TouchPanel` has the handlers of both panels as far as touched slots go. The
panels themselves are external: the FT5x06 tells a release in one scan, which the
next one overwrites, the GT9147 keeps a scan until its status is cleared. Transfers
fail up to `MaxErrors` times; the GT9147's handler, which ignores this, then works
with any values. `lost` holds the fingers whose release was overwritten or misread.

### Loading, binding and removing

`DriverLife` reads 32 drivers as data: the steps of probe (or module init) in their
order, with what each error path undoes and what it returns; the steps of remove
(or exit); what the core manages (devm, and what lies in the module or the device
structure); which callbacks there are, what each uses and what it sets off (a timer
that arms itself, a file that is opened). One set of actions runs them all:
`Acquire`, `FailStep`, `Crash`, `Undo`, `Release`, `Unload`, and `Begin` and `End` of a
callback, at any time from its registration on. Of a character device "cdev" (or
"misc") is the kernel's part of an `open()`, which finds the device and takes a
reference to the module, and "file" the driver's, from its `open()` to its `release()`.
A step that is `Fatal` hands on a null pointer that nobody looks at: when it fails,
the thread ends there (`Crash`). The `open()` of `11_key` and `12_timer` (`Openers`)
takes a device node and, unchecked, a GPIO (`Take`), which nothing gives back; they are
in `taken`. `missed` collects what callbacks, removals and probes
found missing, `twice` what was given back without being there. The drivers have
many such defects; `Windows`, `Leaks` and `Doubles` list them one by one, each
with the step that must fail for it ("none" if none need), and the properties
say that there are no others. Every entry of these lists is reached.

`DriverOrder` says when such a driver needs no exception, from its line of the table
and the set of the steps that have failed alone, without running it. `Paired`: each
error path that a probe with these failures comes to gives back what was acquired
before it, and the removal what is left, each once; the rest is managed by the
core. `Ordered`: whenever a step of the probe begins, what may be called by then
(`Hot`: what has been registered or set off, and what that sets off in turn) finds
what it uses (`Served`), and the operations of a removal or an error path end every
callback, after whatever sets it off and before what it needs (`Discipline`). A step that
may be fatal is never `Served`.
`Formed` is the shape of a line; `ASSUME TableFormed`, that all 32 lines have it, is
evaluated by TLC in the run `driver_life`.

The names of `PolledKey`, `TouchPanel` and `KeyModule` that other modules have too
carry a prefix (`PolledSpec`, `TouchSpec`, `ModuleSpec`, with fairness `FairPolledSpec`
and `FairTouchSpec`), since a module of proofs extends several of them.

## What is checked

| Run | Instance | Properties |
| --- | --- | --- |
| `key_wait` | drivers 13 and 15; a blocking reader `r1`, a poller `r2` | `NoLostWakeup`, `Implements`, `ReleaseConsumed` and `LevelReported` (liveness) |
| `key_other` | drivers 14 and 16; two readers, in 16 `r2` runs `asyncnotiApp` | `NoReplay`, `WakeReachesAll`, `SigioReachesApps` |
| `debounce` | driver 13 in time, DEBOUNCE = 10, one reader | `SampleIsSettled`, `SettledAgrees` |
| `key_module` | two users; errors at every call that is checked | `LoadedIsSafe`, `UnloadedIsSafe`, `CleanUnload` |
| `key_polled` | three readers of driver 11 | `AnswerIsOwn`, `ReadReturns` (liveness) |
| `exclusive` | all four LED drivers, three processes | `Implements`, `FreeWhenIdle`, `SpinBusyMeansInUse`, `SemWaiterServed` (liveness) |
| `timer` | two processes, two periods | `StopHolds`, `PeriodInUse`, `OnlyCloseStops`, `Implements`, `KeepsBlinking` (liveness) |
| `beeper` | an application and the console | `SuspendHolds`, `AmplifierFollows`, `QuietWhenClosed`, `Settles` (liveness) |
| `adc` | two readers | `AnswerIsOwn`, `AnswerNotLost`, `ClockedAccess` |
| `watchdog` | a clock of 4, counts up to 3, divisors up to 3; with and without PMU, `soft_noboot` and `tmr_atboot` | `NoEarlyReset`, `ActiveProtects`, `NoSelfDeadlock`, `ShutdownStops`, `Bites` and `RestartResets` (liveness) |
| `touch` | both panels, three fingers, two failing transfers | `TouchFollows`, `ReleaseReported` (liveness) |
| `driver_life` | 32 drivers | `Ready`, `Balanced` |

The configurations below are for running by hand. Each states something that the
repository says of its code, and TLC finds it violated; `findings` in
`PROJECT.json` quotes the lines.

| Configuration | What TLC finds |
| --- | --- |
| `KeyBlock.cfg` (`MCKeys`) | `blockio.c` tests `releasekey` before it queues up and not again: a release in between wakes nobody and the reader sleeps beside it |
| `KeyAsync.cfg` (`MCKeys`) | `asyncnoti.c`: a SIGIO left over from a release already read makes the handler block in `read()`; the next release sends a SIGIO, which is blocked, and wakes nobody |
| `KeyGlitch.cfg` (`KeyDebounce`) | a pulse shorter than 10 ms, or a key that is held while the module is loaded, is a "complete press" although no press was seen |
| `ExclusiveBusy.cfg` (`MCExclusive`) | `atomic.c`: `-EBUSY` for an `open()` that started after the device was closed, because another failing `open()` has counted the lock down |
| `ExclusiveOwner.cfg` (`MCExclusive`) | `mutex.c`: the child that closes an inherited descriptor last unlocks what its parent locked |
| `KeyUnload.cfg` (`KeyModule`) | `imx6uirq_exit` deletes the timer before it frees the interrupt that arms it |
| `WatchdogRestart.cfg` (`Watchdog`) | shutdown masks the reset in the PMU, and the restart that follows does not unmask it: with a PMU the counter expires and nothing happens |

Properties that are stated for what remains true name their exceptions (`late`,
`aborted`, `Complete`, `Kept`, `failed`, `stray`, `timedout`, `lost`, `shared`, the lists
of `DriverLife`) instead of hiding the cases in the model. The defects behind them are
so disclosed and not caught: what the property says is that there is nothing else.
In `KeyModule` these are an interrupt between `del_timer_sync` and `free_irq`, a load
that returns half way, a window while the module is loaded, a dropped error of
`keyio_init`, and the GPIO and node that are kept. Of the others two deserve mention: in
`ShutdownStops`, `s3c2410wdt_set_heartbeat` does not take `wdt->lock`, so that it may
undo shutdown's stop, without a user having started the counter again; in `QuietWhenClosed`, the input core's resume turns on again a tone
that was on when the device was closed, though nobody has it open. With
`soft_noboot` the handler may spin for ever on the lock of the thread it has
interrupted, which `NoSelfDeadlock` leaves out. `RestartResets` excuses, with a PMU, a
restart after a shutdown or in the midst of a suspend, a resume or a shutdown, where the
reset is masked, and one after an error of the PMU.

### Bounds

There are no state constraints, and every variable has a finite range. `quiet`
saturates at `DEBOUNCE + 1`, since only "exactly" and "longer" matter. The one
bound on how often something happens is `MaxErrors` of `TouchPanel`.

* Two readers are enough for the key drivers: the races are between the timer
  and one reader, or between two readers that test and clear the same flag; the
  proofs cover any number. The two are put into different roles (blocking and
  polling; plain and SIGIO).
* `LevelReported` is checked for two of the four drivers: it concerns
  `key0_handler` and `Sample`, which all four share.
* Three readers of the polled key: one that is overtaken, one that overtakes it,
  and one that finds what they have left.
* Two processes and two periods for the timer LED: a command that is overtaken
  needs one other, and a stale period one other value.
* Three processes for the LEDs: `ExclusiveBusy.cfg` needs three, a holder, one that
  fails and one that comes later; fork needs a parent, a child and a competitor.
* DEBOUNCE = 10 is 10 ms with HZ = 1000; with HZ = 100 it would be 1. The proofs
  cover any positive value.
* An application and the console for the beeper: only the console sends events
  during a suspend. One period other than 0 is enough to tell on from off; the
  proofs cover any users.
* Two readers of the ADC: a caller and a former one whose conversion is late.
* The watchdog's clock and fields are so small that a timeout needs a divisor
  above 1, is rounded in count and divisor, and may be refused; the proofs cover
  any values.
* Three fingers: the first, one that stays and one that comes back. Two errors:
  one read may fail for each of two fingers, or twice in a row.
* No symmetry is used.

### Fairness

`KeyDrivers!Fairness` is weak fairness of the interrupt handler, the timer
function and every process: the kernel runs latched interrupts, expired timers
and runnable processes, and the applications call `read()` or `poll()` in endless
loops. Nobody has to touch the key and no signal has to come. `ExclusiveDrivers`
assumes weak fairness of `Proc(p)`, the steps of `led_open` and `led_release`
and `close()`: the test programs close the device after 25 seconds. Opening,
writing and forking need not happen. `TimerLed` assumes weak fairness of the
callback. Whoever moves a timer again and again puts its expiry off for ever, so
weak fairness of an expiry is more than the kernel promises while edges or
commands keep coming; `LevelReported` and `KeepsBlinking` are therefore stated for
the time after the last edge and the last command, and `ReleaseConsumed` and
`SemWaiterServed` need no timer to expire.

`PolledKey` assumes weak fairness of each reader, which `keyApp` justifies by its
endless loop; `ReadReturns` is stated for a line that stays up, since a reader spins
as long as it is down. `PwmBeeper` assumes it of the work item, of
`pwm_beeper_stop` and of a suspend and a resume once they have begun: the work queue
runs what is queued, `cancel_work_sync` waits for it only; no event has to come.
`Watchdog` assumes it of the counter alone (while the system is not reset): `Bites`
and `RestartResets` need no software to run. `TouchPanel` assumes it of the panel's
scan and of the interrupt thread. `AdcConversion`, `KeyModule` and `DriverLife` have
safety properties only.

Deadlock is checked except where the system may really stop: in `key_module` after a
fault or a load that has failed, in `adc` after a fault, in `watchdog` once the system
is reset, in `driver_life` when the driver is gone.

Each property of a run is broken by an operator named `Bug...`: a mutated form of a
definition of the model, such as a plausible mistake in the driver would make it
(`mutants` in `PROJECT.json`). They are no part of the specifications.

## What is proved

TLAPS proves, for any set of processes and any selection of drivers:

| Theorem | States | Inductive invariant |
| --- | --- | --- |
| `KeyProofs!TypeCorrect`, `DebounceProofs!TypeCorrect`, `ExclusiveProofs!`, `TimerProofs!`, `InputProofs!`, `AdcProofs!`, `WatchdogProofs!`, `LifeProofs!TypeCorrect`, `LifeProofs!LifeTypeCorrect` | types | `TypeOK`, where it takes more with the rest of `IInv` |
| `KeyProofs!DeliveredOnce` | `NoReplay` | `NoReplay` itself, with the types: it leaves out the process that is about to clear the flag |
| `KeyProofs!Refinement` | `Implements`: all four drivers implement `KeyReport` | `MarkInv`: while a release is about to be marked, `keyvalue` says that the key is up; with `NoReplay` and the types |
| `KeyProofs!RestsAtLevel` | `LevelAgrees`: with nothing under way, `keyvalue` says what the line says once it has moved (the safety part of `LevelReported`), all four drivers | `LevelInv`: when no further sample is to come, the timer function works on the level of the line or has stored it |
| `KeyProofs!WakeupNotLost` | `NoLostWakeup` for drivers 13 and 15 | `IdleInv`: in 13 nobody ever sleeps; `WaitInv`: whoever is parked is on the queue and either has yet to look at the flag again, is asleep, or is in `poll()`; `NoLostWakeup` itself |
| `KeyProofs!WakeupReachesAll` | `WakeReachesAll` | whoever is parked in `blockio.c` is queued |
| `KeyProofs!SigioNotLost` | `SigioReachesApps` | every registered process that is owed a SIGIO has it pending or is in its handler from `kill_fasync` on |
| `DebounceProofs!SamplesSettled`, `!SettledReported` | `SampleIsSettled`, `SettledAgrees` for any DEBOUNCE | `CountInv`: an armed timer has counted down what the line has been quiet, unless an interrupt is latched; `ValueInv`: with no interrupt, timer or timer function under way, `keyvalue` agrees with the line once it has moved |
| `ExclusiveProofs!MutualExclusion` | `Implements` | one invariant per driver, below |
| `ExclusiveProofs!NothingLeaks` | `FreeWhenIdle` | the same |
| `ExclusiveProofs!SpinBusyIsTrue` | `SpinBusyMeansInUse` | `SpinInv` |
| `ExclusiveProofs!NobodyForgotten` | `WaitersOwed`: while anybody waits in `semaphore.c`, somebody has the device or has been handed the semaphore (the safety part of `SemWaiterServed`) | `SleepInv`: while somebody sleeps the semaphore is down; `QueueInv`: "came before" is a strict total order of the sleepers, so a finite queue has a first |
| `ExclusiveProofs!FirstComeFirstServed` | `ServedInOrder`: nobody gets in front of a sleeper, and who is handed the semaphore came before all who sleep on | the same |
| `KeyProofs!PolledReturnsOwn` | `AnswerIsOwn` of `PolledKey`, any number of readers | `PolledInv`: a call that is alone finds every other reader idle and `keylock` as it has stored it |
| `InputProofs!SlotsFollow` | `TouchFollows`, for any fingers and any number of errors | `FtInv`: once a scan has been read, what is reported is what it found; `GtInv`: a handler that has found no finger has released the one reported before it clears the status |
| `TimerProofs!StopsForGood`, `!PeriodTakesEffect`, `!GoesOnBlinking`, `!Refinement` | `StopHolds`, `PeriodInUse`, `OnlyCloseStops`, `Implements` | `RestInv`: a stopped timer is at rest and no command is about to arm it; `CurrentInv`: every copy of the period that may still be armed is the current one |
| `LifeProofs!SafeWhenLoaded`, `!SafeWhenUnloaded`, `!Released` | `LoadedIsSafe`, `UnloadedIsSafe`, `CleanUnload` (all but the node and the GPIO) | `LoadInv`: what is initialised and held at each step of loading; `UnloadInv`: the same for unloading |
| `InputProofs!SilentAsleep`, `!AmplifierOff`, `!SilentClosed` | `SuspendHolds`, `AmplifierFollows`, `QuietWhenClosed` for any users | `FlagInv`, `StopInv`: while suspended nothing is scheduled, and what is cancelled stays so; `HardwareInv`: amplifier and PWM agree wherever neither thread is between the two; `SoundInv`, `ClosedInv`: once closed only what turns the beeper off may run |
| `AdcProofs!ReturnsOwn`, `!NothingLost`, `!AlwaysClocked` | `AnswerIsOwn`, `AnswerNotLost`, `ClockedAccess` for any readers | `LockInv`; `OwnInv`: a call that found nothing old about deals with its own conversion only, wherever it stands; `OneInv`: as long as none is given up there is one conversion at a time; `PowerInv` |
| `WatchdogProofs!HeartbeatFits`, `!HeartbeatInWord` | count and divisor of an accepted timeout fit their fields and last long enough; `timeout * freq` is at most twice the largest count, far from 2^32 | arithmetic, from `DivRoundUpSpec` |
| `WatchdogProofs!NeverEarly`, `!Protects`, `!NeverDeadlocked`, `!StopsAtShutdown` | `NoEarlyReset`, `ActiveProtects`, `NoSelfDeadlock`, `ShutdownStops` for any clock and widths | `HeartbeatInv`: registers and variables hold the divisor and count of the timeout asked for; `OwedInv`: the counter lasts at least as long as the user still has; `SaveInv`, `StartedInv`: WTCON, what was saved of it and what set_timeout has read of it say whether the counter was started; `SoftInv`, `MaskInv`; `DownInv`: a start under way has stopped the counter. After shutdown's stop `StartedInv` goes on to hold unless a `set_timeout` held a WTCON read before it (`late`) |
| `LifeProofs!GivenBack`, `!BalancedWhenPaired` | a driver that is `Paired` for the failures it has met, and whose `open()` acquires nothing, gives back everything, and nothing twice; `Balanced` without exceptions | `PairInv`: during a probe `has` is what its steps have acquired (`ProbeInv`), after it what is still to be done finds and gives back what is there (`BackInv`) |
| `LifeProofs!ReadyWhenOrdered` | a driver that is `Ordered` for the failures it has met misses nothing; `Ready` without exceptions | `ReadyInv`: during a probe only what is `Hot` may be called (`AliveInv`); after it there is a set `K` of callbacks that holds all that may still be called, whose needs are there, and which the operations still to be done end (`OverInv`) |
| `LifeProofs!Gt9147GivesBack`, `!Gt9147MissesNothing` | the driver of the GT9147 is both, whatever fails | the two above |

Most of the properties are not inductive by themselves: `NoLostWakeup` says nothing of a
process between queueing up and sleeping, and mutual exclusion nothing of the
value of a lock. The invariants of the LED drivers say what the lock stands for:
in `atomic.c` `lock` is one less for a file in use and one less for each failing
`open()` (`AtomicInv`, over the cardinality of a set of processes); in
`spinlock.c` `dev_stats` is 1 exactly while there is a file, the lock is held
exactly by the process in a critical section, and who has found the device free
still does (`SpinInv`); in `semaphore.c` a free
count, a file and a hand-over under way exclude each other (`SemInv`); in
`mutex.c` the mutex is owned exactly while there is a file (`MutexInv`).

The lives of the drivers are proved about from their table's shape alone: no step of
these proofs looks at a line of it, except the lemmas `Gt9147Paired` and
`Gt9147Ordered`. The argument for `ReadyWhenOrdered` is that the set `K` shrinks with
the removal: an operation ends those callbacks of `K` whose moment it is, and has
waited for them; whoever sets a callback off has been ended before it, so the
rest stays closed; and nothing is given back that one of the rest needs. In the end
the core gives back the rest in the reverse order of acquisition. Both criteria
depend on which steps have failed. For the table's lines, evaluated by hand with
TLC: without a failure `Ordered` holds of exactly those drivers that have no entry in
`Windows` that needs no failure, and of these a single failure makes it false exactly
for those with an entry for it. `misc_beep`, `max485`, `gt9147` and both RAM disks are `Ordered`
whatever fails; `timer`, `beeper`, `icm20608`, `ft5x06` and `gt9147` are `Paired`
whatever fails. So the exceptions are not there for want of a finer criterion.

The assumptions are those of the modules: `KEY0VALUE # INVAKEY`,
`NonBlocking` and `AsyncApps` are sets of processes, `DEBOUNCE` is a positive
number, the `Users` of the LED drivers are finitely many and do not include
`NoFile`, and the periods are positive numbers. In `PwmBeeper` the console's handles
are users and the bell's period is positive; in `AdcConversion` `None` is no reader;
in `Watchdog` the fields are not empty and the divided clock is not 0, without which
`s3c2410wdt_max_timeout` divides by zero, and the count of the restart fits; in
`TouchPanel` there are finitely many slots, one of them 0, and `MaxErrors` is a natural
number. `TableFormed` is no assumption on a constant but a closed formula, which TLC
evaluates.

Only model-checked: the liveness properties `ReleaseConsumed`, `LevelReported`,
`SemWaiterServed`, `KeepsBlinking`, `Settles`, `Bites`, `RestartResets`,
`ReleaseReported` and `ReadReturns`, which rest on fairness (the prover has no
`ENABLED`; of the first two and of `SemWaiterServed` the safety part is proved, that a
wake-up is not lost, that what is at rest agrees with the line, and that somebody is
there to hand the semaphore over); and of `Ready` and `Balanced` the exact lists of
exceptions, for the drivers that need one: they are about 32 finite instances, which
TLC covers completely.

## What is abstracted

* `atomic_set` and `atomic_read` are single steps in program order. Reordering of
  the two stores is not modelled; the i.MX6ULL has a single core.
* A failing `copy_to_user` or `copy_from_user` is left out. It concerns only what
  is returned; note that `read()` returns 0 on success in 14, 15 and 16 although
  the comment promises the number of bytes.
* The values returned on an unmarked release differ between the drivers (0 and
  the bare `keyvalue` in 13, 0 in 14, `-EINVAL` in 15 and 16); no state depends
  on it, and `NoData` stands for all of them.
* With `KEY_NUM = 1`, `curkeynum` is constant.
* The wait queue, `wait_event_interruptible`, `poll`, the semaphore, the mutex and
  the timer belong to the kernel and are modelled as the drivers use them; these
  definitions are marked external in `PROJECT.json`.
* Signals are modelled where they end a sleep. Priorities, preemption and time
  slices are covered by interleaving.
* In the models of their operations the LED drivers and `12_timer` start from a
  module that is loaded; their loading and unloading are in `DriverLife`. That
  `timer_exit` writes GPIO 0 when the device was never opened is left out.
* `PwmBeeper` leaves out the PWM's arithmetic and `pwm_set_freq`, which is compiled
  out. The probe of the file uses `error` where it declares `err` (192, 207), and
  `21_iic/ap3216c.c` misspells `ap3216cdev` (345): they are modelled as intended.
* `AdcConversion` leaves out channels, register layouts and the debug access to
  registers; `Watchdog` the cpufreq notifier, which this board does not compile.
* `TouchPanel` leaves out coordinates, the reset sequence and the panels' firmware.
* `DriverLife` has no data: a callback uses what its code touches, not how. The input
  core, sysfs, the driver core and the module loader are modelled as the drivers use
  them: a module whose file is open is not unloaded, a device whose file is open may be
  unbound. The results of `alloc_chrdev_region` and `cdev_add`, which the code does
  not look at, are steps that may fail and are ignored.

## Not modelled

* `itop4412_cdev_ptr_muti_ok`: two devices in a loop, with operations that do
  nothing. `itop4412_platform_dts_cdev_led_muti_err` uses its pointer before it
  allocates what it points to, `itop4412_platform_dts_misc_led_muti` and
  `itop4412_platform_dts_misc_beep_ok` (`devm_gpio_free` without a device, 244) do
  not compile: there is no behaviour to be faithful to.
* `platform_hello` prints; `itop4412_power_s5m8767a` switches four regulators at
  load and unload.
* Single register and GPIO accesses, scale tables, transfers of the RAM disks: one
  step each, with no state to relate.
* The debouncing of the input drivers is that of `KeyDevice`, with an event in the
  place of `keyvalue`, and is not modelled a second time.
* `01_RTL8XXX_WIFI` (two copies of Realtek's drivers and `wpa_supplicant`),
  `kernel_4.14.2_files_zcq`, `kernel_5.3.18_files_zcq` and the like are copies of
  other projects. They are nearly all of the 1.85 million lines; the repository's own
  drivers are some 12 thousand.

## Plan

What is left, by what it would add:

1. A proof that `Ordered` is necessary too (a driver that is not `Ordered` has a
   behaviour in which something is missed), which TLC shows for the table.
2. The drivers that need exceptions, as `Ordered` but for them: `Served` and
   `Discipline` with a set of callbacks and needs that are excused.
3. Drivers of several devices in `DriverLife` (`itop4412_cdev_ptr_muti_ok`), whose
   steps depend on each other.

Done so far, in this order: the key drivers (`KeyDevice` to `KeyDrivers`), their
debouncing in time, the exclusive LEDs with their abstract specification, loading
and unloading of the key drivers, the timer LED, the beeper, the ADC, the watchdog,
the touch screens, the lives of all drivers, the polled key; the abstract key that
the key drivers implement, and the criteria of `DriverOrder`; with proofs for all of
them.
