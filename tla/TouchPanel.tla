------------------------------ MODULE TouchPanel ------------------------------
(***************************************************************************)
(* How the touch screen drivers (23_multitouch) report fingers, and above  *)
(* all their release, to the input core.  A panel scans itself and raises  *)
(* an interrupt while it is touched; the handler, a thread, reads the      *)
(* panel over I2C, where a transfer may fail.                              *)
(*                                                                         *)
(* The panels are modelled from how the handlers use them: the FT5x06      *)
(* tells a release once, in one scan that the next one overwrites; the     *)
(* GT9147 keeps a scan, and raises interrupts, until the handler clears    *)
(* its status, and numbers fingers from 0.                                 *)
(***************************************************************************)
EXTENDS Naturals, FiniteSets

CONSTANTS
  Slots,       \* the fingers, by their number in the panel
  MaxErrors    \* bound: transfers that fail

ASSUME TouchAssumption ==
  /\ Slots \subseteq Nat /\ 0 \in Slots /\ IsFiniteSet(Slots)
  /\ MaxErrors \in Nat

VARIABLES
  driver,      \* "ft5x06" or "gt9147"
  down,        \* the fingers on the panel
  scan,        \* the fingers that the last scan has found
  event,       \* FT5x06: what that scan says of each finger
  ready,       \* GT9147: a scan is there, the status is not clear
  fresh,       \* FT5x06: the scan has not been read
  irq,         \* the interrupt is pending
  pc,          \* the handler: "idle", or the GT9147's next step
  num,         \* gt9147_irq_handler's touch_num
  id,          \* its id
  reported,    \* the slots that the input core holds for touched
  errors,      \* transfers that have failed
  lost         \* history: fingers whose release was not to be seen, or
               \* that were reported from what was on the stack

panel == <<scan, event, ready, fresh>>
handler == <<pc, num, id>>
touchVars == <<driver, down, panel, irq, handler, reported, errors, lost>>

Events == {"down", "on", "up", "none"}

TouchTypeOK ==
  /\ driver \in {"ft5x06", "gt9147"}
  /\ down \subseteq Slots /\ scan \subseteq Slots
  /\ event \in [Slots -> Events]
  /\ ready \in BOOLEAN /\ fresh \in BOOLEAN /\ irq \in BOOLEAN
  /\ pc \in {"idle", "point", "report", "clear"}
  /\ num \in 0 .. Cardinality(Slots)
  /\ id \in Slots
  /\ reported \subseteq Slots
  /\ errors \in 0 .. MaxErrors
  /\ lost \subseteq Slots

TouchInit ==
  /\ driver \in {"ft5x06", "gt9147"}
  /\ down = {} /\ scan = {}
  /\ event = [f \in Slots |-> "none"]
  /\ ready = FALSE /\ fresh = FALSE /\ irq = FALSE
  /\ pc = "idle" /\ num = 0 /\ id = 0
  /\ reported = {}
  /\ errors = 0
  /\ lost = {}

-----------------------------------------------------------------------------
(* The panel                                                                 *)

\* A finger takes the lowest number that is free.
Press ==
  /\ \E f \in Slots \ down :
       /\ \A g \in Slots \ down : f <= g
       /\ down' = down \cup {f}
  /\ UNCHANGED <<driver, panel, irq, handler, reported, errors, lost>>

Lift(f) ==
  /\ f \in down
  /\ down' = down \ {f}
  /\ UNCHANGED <<driver, panel, irq, handler, reported, errors, lost>>

Ups == {f \in Slots : event[f] = "up"}

FtScan ==
  /\ driver = "ft5x06"
  /\ down \cup scan # {} \/ Ups # {}
  /\ scan' = down
  /\ event' = [f \in Slots |->
                 IF f \in down THEN IF f \in scan THEN "on" ELSE "down"
                 ELSE IF f \in scan THEN "up" ELSE "none"]
  /\ irq' = (irq \/ down \cup scan # {})
  /\ fresh' = (down \cup scan # {})
  /\ lost' = IF fresh THEN lost \cup Ups ELSE lost
  /\ UNCHANGED <<driver, down, ready, handler, reported, errors>>

GtScan ==
  /\ driver = "gt9147"
  /\ irq' = TRUE
  /\ IF ready THEN UNCHANGED <<scan, ready>>
     ELSE /\ down \cup scan # {}
          /\ scan' = down
          /\ ready' = TRUE
  /\ UNCHANGED <<driver, down, event, fresh, handler, reported, errors, lost>>

-----------------------------------------------------------------------------
(* ft5x06_handler                                                            *)

Fail == errors < MaxErrors /\ errors' = errors + 1

\* FtDown with a contact taken for a release (a bug some property must notice;
\* the same goes for every operator named Bug...).
BugContactIsUp(f) == event[f] = "down"

\* down = type != TOUCH_EVENT_UP; a point of the type RESERVED is skipped.
FtDown(f) == event[f] \notin {"up", "none"}

FtHandler ==
  /\ driver = "ft5x06" /\ irq
  /\ irq' = FALSE
  /\ \/ /\ reported' = {f \in Slots :
                          IF event[f] = "none" THEN f \in reported ELSE FtDown(f)}
        /\ fresh' = FALSE
        /\ lost' = {f \in lost : event[f] = "none"}
        /\ UNCHANGED errors
     \/ \* the read fails: nothing is reported
        /\ Fail
        /\ lost' = IF fresh THEN lost \cup Ups ELSE lost
        /\ UNCHANGED <<reported, fresh>>
  /\ UNCHANGED <<driver, down, scan, event, ready, handler>>

-----------------------------------------------------------------------------
(* gt9147_irq_handler                                                        *)

\* The status; the handler takes no notice of an error, and data is then what
\* was on the stack.
GtStatus ==
  /\ driver = "gt9147" /\ pc = "idle" /\ irq
  /\ irq' = FALSE
  /\ id' = 0
  /\ \/ /\ UNCHANGED errors
        /\ num' = Cardinality(scan)
        /\ pc' = IF ~ready THEN "idle" ELSE IF num' > 0 THEN "point" ELSE "report"
     \/ /\ Fail
        /\ num' \in 0 .. Cardinality(Slots)
        /\ \/ pc' = IF num' > 0 THEN "point" ELSE "report"
           \/ num' = 0 /\ pc' = "idle"                 \* data == 0x00
  /\ UNCHANGED <<driver, down, panel, reported, lost>>

\* The first point, which is that of the lowest number; a failed read leaves
\* touch_data as it was.
GtPoint ==
  /\ pc = "point"
  /\ pc' = "report"
  /\ \/ /\ UNCHANGED errors
        /\ IF scan = {} THEN id' \in Slots
           ELSE id' \in scan /\ \A f \in scan : id' <= f
     \/ Fail /\ id' \in Slots
  /\ UNCHANGED <<driver, down, panel, irq, num, reported, lost>>

\* Only finger 0 is reported: the release when no finger is left.
GtReport ==
  /\ pc = "report"
  /\ pc' = "clear"
  /\ reported' = IF num = 0 THEN {} ELSE IF id = 0 THEN {0} ELSE reported
  /\ UNCHANGED <<driver, down, panel, irq, num, id, errors, lost>>

\* GtCleared without the write.
BugKeepStatus == FALSE

\* What clears the status: the write of 0 to GT_GSTID_REG.
GtCleared == ready

GtClear ==
  /\ pc = "clear"
  /\ pc' = "idle"
  /\ \/ ready' = (ready /\ ~GtCleared) /\ UNCHANGED errors
     \/ Fail /\ UNCHANGED ready
  /\ lost' = IF num > 0 /\ scan = {} THEN {0} ELSE {}
  /\ UNCHANGED <<driver, down, scan, event, fresh, irq, num, id, reported>>

-----------------------------------------------------------------------------

Scan == FtScan \/ GtScan
Handler == FtHandler \/ GtStatus \/ GtPoint \/ GtReport \/ GtClear

TouchNext == Press \/ (\E f \in Slots : Lift(f)) \/ Scan \/ Handler

TouchSpec == TouchInit /\ [][TouchNext]_touchVars

\* The panel scans itself, and the interrupt thread runs.
FairTouchSpec == TouchSpec /\ WF_touchVars(Scan) /\ WF_touchVars(Handler)

-----------------------------------------------------------------------------

\* At rest the touched slots are the fingers on the panel: fingers that come,
\* go and come back while scans overwrite each other and reads fail; except for
\* a finger whose release was overwritten or read wrongly.  (The GT9147's
\* driver reports one finger, and no more than that the panel is touched.)
TouchFollows ==
  ~irq /\ pc = "idle" /\ scan = down /\ lost = {} =>
    IF driver = "ft5x06" THEN fresh \/ reported = down
    ELSE ready \/ down # {} \/ reported = {}

\* When the last finger has gone, no slot remains touched, be it that transfers
\* fail, unless the release was overwritten or read wrongly.
ReleaseReported ==
  (down = {} /\ lost = {}) ~> (reported = {} \/ down # {} \/ lost # {})

=============================================================================
