------------------------------ MODULE Sensors ------------------------------
(***************************************************************************)
(* The calculations of the sensor hub and of the heater controller: the    *)
(* 1-Wire search, a temperature reading, the choice of the regulating      *)
(* sensors and one round of PidTask.  Each runs inside one task, so they    *)
(* are operators over their inputs.  A sensor mask is the set of its bits; *)
(* a temperature is an integer or NaN.                                     *)
(***************************************************************************)
EXTENDS SensorMask, Sequences, SequencesExt

CONSTANTS
  NaN,
  IntegralMax,  \* 1500
  OutputMax,    \* 100
  RomBits, FamilyBits,  \* 64 and 8
  Family,       \* 0x28: the family bits of an M1820
  MaxDevices,   \* kMaxDevices
  Passes        \* 64

ASSUME SensorsAssumption ==
  /\ NaN \notin Int /\ {IntegralMax, OutputMax, RomBits, Passes, MaxDevices} \subseteq Nat
  /\ FamilyBits \in 1..RomBits /\ Family \in [1..FamilyBits -> {0, 1}]

-----------------------------------------------------------------------------
(* The 1-Wire search.  A ROM is the sequence of its bits, the bus the set   *)
(* of the ROMs on it.  In every position the devices still addressed answer *)
(* their bit and its complement, wired-AND; those that differ from the bit  *)
(* written drop out.                                                        *)

Roms == [1..RomBits -> {0, 1}]

\* Fault: the direction is repeated at the last discrepancy too.
DirectionRepeated(n, last, rom) == IF n <= last THEN rom[n] ELSE 0

Direction(n, last, rom) ==
  IF n < last THEN rom[n] ELSE IF n = last THEN 1 ELSE 0

(* One position: s is the ROM so far, the devices still addressed and the   *)
(* last position where 0 was chosen over 1.                                 *)
SearchBit(s, n, last) ==
  LET bits == {r[n] : r \in s.live}
      bit == IF Cardinality(bits) = 1 THEN CHOOSE b \in bits : TRUE
             ELSE Direction(n, last, s.rom)
  IN IF bits = {} THEN s
     ELSE [rom |-> [s.rom EXCEPT ![n] = bit],
           live |-> {r \in s.live : r[n] = bit},
           zero |-> IF Cardinality(bits) = 2 /\ bit = 0 THEN n ELSE s.zero]

SearchNext(bus, last, rom) ==
  LET after[n \in 0..RomBits] ==
        IF n = 0 THEN [rom |-> rom, live |-> bus, zero |-> 0] ELSE SearchBit(after[n - 1], n, last)
  IN after[RomBits]

(* ScanSensors: passes until the last device, a device seen before, a bus   *)
(* without answer, a failed transfer (the pass breaks) or the table is full. *)
ScanPass(s, pass, bus, broken) ==
  LET found == SearchNext(bus, s.last, s.rom)
      mine == SubSeq(found.rom, 1, FamilyBits) = Family
      twice == mine /\ Contains(s.found, found.rom)
  IN IF s.done \/ Len(s.found) = MaxDevices THEN s
     ELSE IF pass \in broken \/ found.live = {} THEN [s EXCEPT !.done = TRUE]
     ELSE [rom |-> found.rom, last |-> found.zero, done |-> twice \/ found.zero = 0,
           found |-> IF mine /\ ~twice THEN Append(s.found, found.rom) ELSE s.found]

ScanSensors(bus, broken) ==
  LET after[pass \in 0..Passes] ==
        IF pass = 0 THEN [rom |-> [n \in 1..RomBits |-> 0], last |-> 0, done |-> FALSE, found |-> <<>>]
        ELSE ScanPass(after[pass - 1], pass, bus, broken)
  IN after[Passes].found
-----------------------------------------------------------------------------
(* M1820ReadTemperatures: up to three attempts; attempt k converts (started) *)
(* and reads the sensors in ok without a CRC error.  The first attempt that *)
(* reads any sensor is the result; a sensor it missed is NaN.               *)
ReadTemperatures(count, attempts, celsius) ==
  LET good == {k \in DOMAIN attempts : attempts[k].started /\ attempts[k].ok # {}}
  IN IF count = 0 \/ good = {} THEN [ok |-> FALSE]
     ELSE [ok |-> TRUE, temps |-> [i \in 0..(count - 1) |->
             IF i \in attempts[Min(good)].ok THEN celsius[i] ELSE NaN]]

(* TempTask publishes a reading and brings mask and index of the controller *)
(* inside the sensors there are; a failed reading leaves everything as it   *)
(* was.                                                                     *)
\* Fault: a mask without a sensor that exists is kept.
MaskKept(c) == c.mask

MaskOnSensors(c) ==
  LET seen == c.mask \cap Available(c.count)
  IN IF seen # {} THEN seen ELSE {IF c.index \in Available(c.count) THEN c.index ELSE 0}

TempTask(c, reading) ==
  LET n == [c EXCEPT !.count = Cardinality(DOMAIN reading.temps), !.temps = reading.temps]
      mask == MaskOnSensors(n)
  IN IF ~reading.ok THEN c
     ELSE [n EXCEPT !.mask = mask, !.index = IF @ \in Available(n.count) THEN @ ELSE FirstSetBitIndex(mask)]

(* What PidTask averages: the sensors of the mask that have a reading.      *)
PidMask(c) == IF c.mask = {} THEN {Limited(c.index, 0, c.count - 1)} ELSE c.mask
Regulating(c) == {i \in PidMask(c) \cap Available(c.count) : c.temps[i] # NaN}
-----------------------------------------------------------------------------
(* One round of PidTask, a time unit after the one before.  A disabled loop *)
(* forgets and leaves the heater as it is, as does one without a reading.   *)

\* Fault: the integral is held whenever the output saturates.
HeldSaturated(raw, error) == raw > OutputMax \/ raw < 0

Held(raw, error) ==
  \/ raw > OutputMax /\ error >= 0
  \/ raw < 0 /\ error <= 0

PidRound(m, gain, error) ==
  LET candidate == Limited(m.integral + error, 0, IntegralMax)
      derivative == IF m.prev = NaN THEN 0 ELSE error - m.prev
      raw == gain.p * error + gain.i * candidate + gain.d * derivative
  IN [integral |-> IF Held(raw, error) THEN m.integral ELSE candidate,
      prev |-> error, heater |-> Limited(raw, 0, OutputMax)]

PidTask(m, gain, c) ==
  LET sensors == Regulating(c)
      mean == MapThenSumSet(LAMBDA i : c.temps[i], sensors) \div Cardinality(sensors)
  IN IF ~c.enabled THEN [m EXCEPT !.integral = 0, !.prev = NaN]
     ELSE IF c.count = 0 \/ sensors = {} THEN m
     ELSE PidRound(m, gain, c.setpoint - mean)

PidRounds(m, gain, c, n) ==
  LET after[k \in 0..n] == IF k = 0 THEN m ELSE PidTask(after[k - 1], gain, c) IN after[n]
=============================================================================
