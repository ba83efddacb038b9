--------------------------- MODULE VirtualEncoder ---------------------------
(***************************************************************************)
(* The virtual encoder (src/coloursorter/bench/virtual_encoder.py).        *)
(*                                                                         *)
(* Time is counted in ticks and belt travel in units: the belt moves Rate  *)
(* units in a tick and a pulse stands for UnitsPerPulse of them, so the    *)
(* fractions of the code are integers here.  A pulse's timestamp is kept   *)
(* in 1/Rate ticks, which makes it exact too.                              *)
(***************************************************************************)
EXTENDS Integers

CONSTANTS Rate,           (* belt speed                                    *)
          UnitsPerPulse,  (* mm_per_pulse                                  *)
          UnitsKept,      (* UnitsPerPulse times 1 - dropout_ratio         *)
          EncoderFault    (* none, zero_speed or missing_pulses            *)

ASSUME EncoderAssumption ==
  /\ Rate \in Nat \ {0} /\ UnitsPerPulse \in Nat \ {0}
  /\ UnitsKept \in 0..UnitsPerPulse
  /\ EncoderFault \in {"none", "zero_speed", "missing_pulses"}

NoPulse == -1
NewEncoder == [accumulator |-> 0, last |-> NoPulse]

Clamp(x, high) == IF x < 0 THEN 0 ELSE IF x > high THEN high ELSE x

\* The belt travel of a window, none with the zero speed fault.
Travel(start, end) ==
  IF EncoderFault = "zero_speed" \/ end < start THEN 0 ELSE Rate * (end - start)

Pulses(enc, travel) == (enc.accumulator + travel) \div UnitsPerPulse

\* Dropped pulses are counted by the unit: the part of a kept pulse goes back
\* to the accumulator.
KeptPulses(pulses) ==
  IF EncoderFault = "missing_pulses" THEN 0 ELSE (pulses * UnitsKept) \div UnitsPerPulse

\* Mutant: the whole pulses stay in the accumulator.
AccumulatorNotReduced(enc, travel) == enc.accumulator + travel

AccumulatorAfter(enc, travel) ==
  LET pulses == Pulses(enc, travel) IN
    ((enc.accumulator + travel) % UnitsPerPulse)
      + (IF EncoderFault = "missing_pulses" THEN 0 ELSE (pulses * UnitsKept) % UnitsPerPulse)

\* Mutant: the last pulse is put where the accumulator would end.
StampUnclamped(enc, start, travel) ==
  start * Rate + Pulses(enc, travel) * UnitsPerPulse + enc.accumulator

\* When the last pulse of a window was generated; a window without travel may
\* emit a pulse the accumulator held back, and gives it no time.
Stamp(enc, start, travel) ==
  IF travel = 0 THEN NoPulse
  ELSE start * Rate + Clamp(Pulses(enc, travel) * UnitsPerPulse - enc.accumulator, travel)

\* pulses_between, as the encoder it leaves.
EncoderAfter(enc, start, end) ==
  LET travel == Travel(start, end) IN
    [accumulator |-> AccumulatorAfter(enc, travel),
     last |-> IF KeptPulses(Pulses(enc, travel)) > 0 THEN Stamp(enc, start, travel) ELSE enc.last]

\* resolve_trigger_generation_timestamp.
TriggerGeneration(enc, start) == IF enc.last = NoPulse THEN start * Rate ELSE enc.last
=============================================================================
