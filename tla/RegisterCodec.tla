---------------------------- MODULE RegisterCodec ----------------------------
(***************************************************************************)
(* Numbers in the 16-bit registers of ModbusAdapter: poses and profiles    *)
(* are scaled, rounded and written as one signed word or as a pair of      *)
(* words, telemetry is read back the same way.                             *)
(*                                                                         *)
(* A coordinate x is counted in parts of the register's unit, Parts to a   *)
(* unit, so that rounding shows; Word is 2^16 in the code.                 *)
(***************************************************************************)
EXTENDS Integers, Sequences

CONSTANTS
    Word,   \* the values of a register
    Parts   \* parts of a coordinate to one register unit

ASSUME WordAssumption == Word \in Nat \ {0} /\ Word % 2 = 0
ASSUME PartsAssumption == Parts \in Nat \ {0}

\* What a signed number of this size can hold.
Fits(v, size) == -(size \div 2) <= v /\ v < size \div 2

\* _scaled_int: Python's round, half to even.
ScaledInt(x) ==
    LET q == x \div Parts
        r == 2 * (x % Parts)
    IN IF r < Parts \/ (r = Parts /\ q % 2 = 0) THEN q ELSE q + 1

\* _signed_to_register, for a value that fits; any other raises before a register
\* is written.
ToRegister(v, size) == IF v < 0 THEN v + size ELSE v
\* _signed_to_register_pair
ToPair(v) == << ToRegister(v, Word * Word) \div Word, ToRegister(v, Word * Word) % Word >>

\* _register_to_signed
FromRegister(w, size) == LET u == w % size IN IF u >= size \div 2 THEN u - size ELSE u
\* _register_pair_to_signed
FromPair(pair) == FromRegister(((pair[1] % Word) * Word) + (pair[2] % Word), Word * Word)
=============================================================================
