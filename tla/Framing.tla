------------------------------- MODULE Framing -------------------------------
(***************************************************************************)
(* The frame a byte travels in on the Home Bus: bitbang_helper.c and       *)
(* format_byte_for_hbs_tx.                                                 *)
(*                                                                         *)
(* A word is the set of the positions of its one bits, so the C operators  *)
(* |, << and & become union, shifting the members and intersection.  A     *)
(* bus bit lasts two half-bits: the duty half carries the bit, the         *)
(* off-duty half is always one.  A frame is a start bit, DataBits data     *)
(* bits, a parity bit and a stop bit; the code has DataBits = 8, small     *)
(* instances keep the layout and carry fewer data bits.                    *)
(***************************************************************************)
EXTENDS Integers, FiniteSets

CONSTANT DataBits    \* HOMEBUS_DATA_BITS

ASSUME DataBitsAssumption == DataBits \in Nat \ {0}

Byte == SUBSET (0 .. DataBits - 1)

(* Half-bits in a frame: BITS_IN_HOMEBUS_FRAME * 2, the 22 of              *)
(* BITS_SAMPLED_IN_PACKET.                                                 *)
HalfBits == 2 * (DataBits + 3)

(* What parity_lookup_table_256 holds; LineTiming checks the table.     *)
calc_even_parity(value) == Cardinality(value) % 2 = 1

(* Bit i moves to position 2i.                                             *)
SpreadBits(value) == {2 * i : i \in value}

(* Mutant of stuff_byte: the off-duty half-bits are zero.                  *)
StuffWithZeros(value) == SpreadBits(value)

(* Every odd position below HalfBits gets a one (HBS_32_BIT_PATTERN; only  *)
(* the first HalfBits positions are ever sent).                            *)
stuff_byte(value) ==
    SpreadBits(value) \cup {p \in 0 .. HalfBits - 1 : p % 2 = 1}

(* Parity goes after the data, the stop bit (one) after the parity, and    *)
(* the shift makes room for the start bit (zero).                          *)
format_byte_for_hbs_tx(value) ==
    LET parity   == IF calc_even_parity(value) THEN {DataBits} ELSE {}
        prepared == value \cup parity \cup {DataBits + 1}
    IN  stuff_byte({i + 1 : i \in prepared})

==============================================================================
