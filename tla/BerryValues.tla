----------------------------- MODULE BerryValues -----------------------------
(***************************************************************************)
(* What the modules about Berry's data share: values, and the capacities   *)
(* of growing arrays (be_vector.c).                                        *)
(***************************************************************************)
EXTENDS Integers, FiniteSetsExt

CONSTANTS
  Val,   \* values
  NIL,   \* nil; the key of a free slot of a table
  NONE   \* no value, no object

Capacities == {0, 2, 4, 6, 8, 10, 12, 14, 16, 20, 24, 28, 32, 40, 48, 64, 96, 128,
               192, 256, 384, 512, 768, 1024}

\* The next larger capacity of the table; above it, the next power of two, the
\* value with all the bits below its highest one set, plus 1 (nextpow).
be_nextsize(n) ==
  IF n < 1024 THEN Min({c \in Capacities : c > n})
  ELSE Min({2 ^ k : k \in {k \in 10 .. 30 : 2 ^ k > n}})
=============================================================================
