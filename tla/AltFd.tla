-------------------------------- MODULE AltFd --------------------------------
(***************************************************************************)
(* The file descriptors of the hardware abstraction layer: the list of     *)
(* registered devices, alt_fd_list with its flags, and the exclusive lock  *)
(* that an ioctl takes on a device.                                        *)
(*                                                                         *)
(* A descriptor table ft is a record                                       *)
(*   dev    the device each descriptor is open on, None when it is free    *)
(*   flags  its fd_flags: the access mode, O_NONBLOCK, ALT_FD_EXCL and     *)
(*          ALT_FD_DEV                                                     *)
(*   max    alt_max_fd, the highest descriptor ever handed out             *)
(*   devs   the devices in alt_dev_list                                    *)
(*   older  ghost: for the holder of a lock, the descriptors that were     *)
(*          open on its device when the lock was granted                   *)
(* No file system is registered: a name is that of a device.               *)
(***************************************************************************)
EXTENDS Integers, FiniteSets, FiniteSetsExt

CONSTANT ALT_MAX_FD

ASSUME FdAssumption == ALT_MAX_FD \in Nat /\ ALT_MAX_FD > 3

Fds  == 0 .. ALT_MAX_FD - 1
None == "none"

STDIN_FILENO  == 0
STDOUT_FILENO == 1
STDERR_FILENO == 2

NoFlags == [acc |-> "rd", nonblock |-> FALSE, excl |-> FALSE, isdev |-> FALSE]

\* At reset the three standard descriptors are on /dev/null.
alt_fd_list ==
  [dev   |-> [i \in Fds |-> IF i < 3 THEN "null" ELSE None],
   flags |-> [i \in Fds |-> NoFlags],
   max   |-> -1,
   devs  |-> {"null"},
   older |-> [i \in Fds |-> {}]]

alt_dev_reg(ft, d) == [ft EXCEPT !.devs = @ \cup {d}]

Sharing(ft, i) == {j \in Fds \ {i} : ft.dev[j] = ft.dev[i]}

-----------------------------------------------------------------------------
\* The three standard descriptors are never released.
alt_release_fd(ft, i) ==
  IF i > 2
  THEN [ft EXCEPT !.dev[i] = None, !.flags[i] = NoFlags, !.older[i] = {}]
  ELSE ft

\* The least free descriptor.
alt_get_fd(ft) ==
  LET free == {i \in Fds : ft.dev[i] = None}
  IN  IF free = {} THEN -1 ELSE Min(free)

\* Mutant: a lock held by another descriptor is not looked for.
alt_file_locked_Never(ft, i) == FALSE
alt_file_locked(ft, i) ==
  \E j \in Sharing(ft, i) : j <= ft.max /\ ft.flags[j].excl

\* The device is found, a descriptor is taken, and it is given back when
\* another one holds the lock; alt_max_fd keeps what it had reached.
ALT_OPEN(ft, d, acc, nb) ==
  LET i   == alt_get_fd(ft)
      got == [ft EXCEPT
                !.dev[i]   = d,
                !.max      = Max({@, i}),
                !.flags[i] = [NoFlags EXCEPT !.acc = acc, !.nonblock = nb,
                                             !.isdev = TRUE]]
  IN  IF d \notin ft.devs \/ i < 0 THEN ft
      ELSE IF alt_file_locked(got, i) THEN alt_release_fd(got, i)
      ELSE got

\* open, and the descriptor's contents moved to a standard descriptor.
alt_open_fd(ft, std, d, acc) ==
  LET i == alt_get_fd(ft)
      o == ALT_OPEN(ft, d, acc, FALSE)
  IN  IF i < 0 \/ o.dev[i] = None THEN o
      ELSE alt_release_fd([o EXCEPT !.dev[std] = o.dev[i],
                                    !.flags[std] = o.flags[i]], i)

-----------------------------------------------------------------------------
\* TIOCEXCL.  The search ends before alt_max_fd.
alt_fd_lock(ft, i) ==
  IF \E j \in Sharing(ft, i) : j < ft.max THEN ft
  ELSE [ft EXCEPT !.flags[i].excl = TRUE, !.older[i] = Sharing(ft, i)]

\* TIOCNXCL.
alt_fd_unlock(ft, i) ==
  [ft EXCEPT !.flags[i].excl = FALSE, !.older[i] = {}]

\* F_SETFL: of the modelled flags only O_NONBLOCK can be changed.
ALT_FCNTL(ft, i, nb) == [ft EXCEPT !.flags[i].nonblock = nb]

\* The access checks of read and write; /dev/null has no read function.
MayRead(ft, i)  == ft.flags[i].acc # "wr" /\ ft.dev[i] # "null"
MayWrite(ft, i) == ft.flags[i].acc # "rd"
=============================================================================
