CONSTANTS
  Users = {a, b, c}
  NoFile = NoFile
  Drivers = {"atomic", "spinlock", "semaphore", "mutex"}
SPECIFICATION FairSpec
INVARIANT FreeWhenIdle
PROPERTY Implements
PROPERTY SpinBusyMeansInUse
PROPERTY SemWaiterServed
