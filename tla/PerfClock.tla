------------------------------ MODULE PerfClock ------------------------------
(***************************************************************************)
(* Class PerfClock (src/src/rdk_perf_clock.cpp): a time stamp of the wall  *)
(* clock and of the CPU time of the process, which is either the moment of *)
(* its Marker or, after Elapsed, the time since that Marker.  The machine  *)
(* is what gettimeofday and getrusage would return: a record of the same   *)
(* three times, in microseconds.                                           *)
(***************************************************************************)
EXTENDS Integers

CONSTANTS WordBits,      \* the width of uint64_t
          Millisecond    \* TimeUnit::millisecond, in microseconds

ASSUME WordAssumption == WordBits \in Nat /\ Millisecond \in Nat \ {0}

Modulus == 2 ^ WordBits
Word == 0..(Modulus - 1)

\* Mutant: the difference of two times is signed.
MinusSigned(a, b) == a - b

Plus(a, b) == (a + b) % Modulus
Minus(a, b) == (a - b) % Modulus

TimeStamp == [wallClock : Word, userCPU : Word, systemCPU : Word]

\* PerfClock::PerfClock
ZeroStamp == [wallClock |-> 0, userCPU |-> 0, systemCPU |-> 0]

\* Mutant: user and system time are exchanged.
ReadSystemAsUser(machine) ==
  [machine EXCEPT !.userCPU = machine.systemCPU, !.systemCPU = machine.userCPU]

\* SetWallClock and SetCPU: a process that has not used any system time yet
\* is taken for a failure of getrusage, and its user time is not read either.
ReadClocks(machine) ==
  IF machine.systemCPU = 0 THEN [machine EXCEPT !.userCPU = 0] ELSE machine

\* Now(clock, Marker)
Marker(machine) == ReadClocks(machine)

\* Now(clock, Elapsed)
Elapsed(clock, machine) ==
  LET read == ReadClocks(machine)
  IN  [wallClock |-> Minus(read.wallClock, clock.wallClock),
       userCPU   |-> Minus(read.userCPU, clock.userCPU),
       systemCPU |-> Minus(read.systemCPU, clock.systemCPU)]

\* GetWallClock(millisecond)
InMilliseconds(time) == time \div Millisecond
=============================================================================
