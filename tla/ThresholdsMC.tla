---------------------------- MODULE ThresholdsMC ----------------------------
(* One sensor and one parameter whose rule is set, tightened or widened, or
   has its bounds the wrong way round; the values are a percent apart, for the
   trend's tolerance.                                                        *)
EXTENDS Thresholds

CONSTANTS sensor, area, level

Registered == [s \in Sensors |-> area]

Loose == [warning_lo |-> NoBound, warning_hi |-> 101,
          critical_lo |-> NoBound, critical_hi |-> NoBound]
Tight == [warning_lo |-> 101, warning_hi |-> 101, critical_lo |-> 100, critical_hi |-> 101]
Swapped == [warning_lo |-> NoBound, warning_hi |-> 100,
            critical_lo |-> 102, critical_hi |-> NoBound]
RuleSet  == {Loose, Tight, Swapped}
ValueSet == {0, 100, 101, 102}
=============================================================================
