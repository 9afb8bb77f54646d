------------------------------ MODULE Numeric ------------------------------
(***************************************************************************)
(* The numeric instructions together: the integer ones of module           *)
(* IntMeaning, and the float ones of module FMeaning as FP, with a state   *)
(* of their own.                                                           *)
(***************************************************************************)
EXTENDS IntMeaning

CONSTANTS P1, E1, P2, E2, W32, W64      \* the formats of module FValues

VARIABLES finput, fanswer
fvars == <<finput, fanswer>>

FP == INSTANCE FMeaning WITH input <- finput, answer <- fanswer

ASSUME FormatAssumption == FP!FormatAssumption

\* What fvalues.py computes through the wide format is the exact result rounded
\* once, in every operation that rounds.
RoundsOnce == FP!RoundsOnce

\* What is not a matter of rounding: a NaN comes out exactly where there is no
\* result, zeros keep their order and signs, comparisons order the patterns.
SpecialValues == FP!SpecialValues

\* Rounding to an integer in a format, and truncating out of it, trapping exactly
\* where the type has no such integer.
ToIntegers == FP!ToIntegers
=============================================================================
