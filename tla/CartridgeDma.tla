---------------------------- MODULE CartridgeDma ----------------------------
(***************************************************************************)
(* How hle.c copies between the ROM and RDRAM.  The host stores every word *)
(* of the console with its four bytes reversed: the byte the console sees  *)
(* at a is stored at Stored(a).  A memory here maps the console's address  *)
(* to its byte, so a byte-by-byte copy of the host goes through Stored.    *)
(***************************************************************************)
EXTENDS Naturals, TLC

Stored(a) == (4 * (a \div 4) + 3) - (a % 4)

\* The copy that moves the bytes in the console's order.
Ordered(mem, to, from, at, size) ==
    [a \in to .. to + size - 1 |-> from[at + (a - to)]] @@ mem

\* memcpy of the host: what moves is what is stored at `at`.
Raw(mem, to, from, at, size) ==
    [a \in {Stored(i) : i \in to .. to + size - 1} |-> from[Stored(at + (Stored(a) - to))]] @@ mem

SameAlignment(to, at) == to % 4 = at % 4

CopyCart(mem, to, cart, at, size) == Ordered(mem, to, cart, at, size)

\* memmove, or a copy whose direction follows the overlap.
CopyRdram(mem, to, at, size) ==
    IF SameAlignment(to, at) THEN Raw(mem, to, mem, at, size) ELSE Ordered(mem, to, mem, at, size)

CopyPi(mem, to, cart, at, size) ==
    IF SameAlignment(to, at) THEN Raw(mem, to, cart, at, size)
    ELSE Ordered(mem, to, cart, at, size)

=============================================================================
