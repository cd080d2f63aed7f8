----------------------------- MODULE SensorMask -----------------------------
(***************************************************************************)
(* The choice of the temperature sensors that the heater is regulated on:  *)
(* a mask, here the set of its bits, and the index that stands for it when *)
(* it is empty.  TempTask, ActionPidApply and the loader of config.txt all *)
(* bring the two together.                                                 *)
(***************************************************************************)
EXTENDS Integers, FiniteSetsExt

CONSTANT MaxTemp  \* MAX_TEMP_SENSORS, also the bits of a mask

ASSUME MaxTempAssumption == MaxTemp \in Nat \ {0}

Limited(v, lo, hi) == IF v < lo THEN lo ELSE IF v > hi THEN hi ELSE v

(* ClampSensorMask keeps the bits of the sensors there are. *)
Available(count) == 0..(Limited(count, 0, MaxTemp) - 1)
FirstSetBitIndex(mask) == IF mask = {} THEN 0 ELSE Min(mask)
Bit(i) == {i} \cap 0..(MaxTemp - 1)

(* ActionPidApply with count as its copy of the state has it, which may be  *)
(* from before the first reading.                                           *)
PidApply(c, req, count) ==
  LET sensor == IF count > 0 THEN Limited(req.sensor, 0, count - 1) ELSE Limited(req.sensor, 0, req.sensor)
      clamped == req.mask \cap Available(count)
      mask == IF ~req.maskSet \/ (clamped = {} /\ count > 0) THEN Bit(sensor) ELSE clamped
  IN [c EXCEPT !.mask = mask, !.index = IF req.maskSet THEN FirstSetBitIndex(mask) ELSE sensor]
=============================================================================
