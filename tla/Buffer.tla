------------------------------- MODULE Buffer -------------------------------
(***************************************************************************)
(* ntap_buffer_t (buffer.c): a byte string that grows by doubling.  The    *)
(* operators take and return the buffer as a value; whether realloc gives  *)
(* the memory is the caller's nondeterminism.                              *)
(***************************************************************************)
EXTENDS Naturals, Sequences

CONSTANTS
    SizeMax,    \* the largest size_t
    FirstCap    \* the capacity of the first allocation, 256 in the code

ASSUME SizeAssumption ==
    /\ SizeMax \in Nat \ {0}
    /\ FirstCap \in 1 .. SizeMax

Empty == [data |-> <<>>, cap |-> 0]
Held(b) == b.cap > 0            \* data # NULL

(* buf->len > SIZE_MAX - len: the sum would wrap. *)
Wraps(b, bytes) == Len(b.data) > SizeMax - Len(bytes)

(* Fault: the capacity only follows what is already in the buffer. *)
GrownForOld(b, bytes) ==
    LET need == Len(b.data)
        next[c \in Nat] == IF c >= need THEN c ELSE next[2 * c]
    IN  next[IF b.cap = 0 THEN FirstCap ELSE b.cap]

(* The capacity asked for: doubled until it holds the sum, or the sum       *)
(* itself where doubling would wrap.                                        *)
Grown(b, bytes) ==
    LET need == Len(b.data) + Len(bytes)
        next[c \in Nat] ==
            IF c >= need THEN c
            ELSE IF c > SizeMax \div 2 THEN need
            ELSE next[(2 * c) % (SizeMax + 1)]
    IN  next[IF b.cap = 0 THEN FirstCap ELSE b.cap]

HasRoom(b, bytes) == Len(b.data) + Len(bytes) <= b.cap

(* ntap_buffer_reserve: realloc keeps the data, or fails and changes nothing. *)
Reserved(b, cap, memory) ==
    IF cap <= b.cap \/ ~memory THEN b ELSE [b EXCEPT !.cap = cap]

(* ntap_buffer_append fails: the sum would wrap, or there is no memory. *)
AppendFails(b, bytes, memory) ==
    /\ bytes # <<>>
    /\ Wraps(b, bytes) \/ (~HasRoom(b, bytes) /\ ~memory)

(* ntap_buffer_append: the buffer afterwards, unchanged when it fails. *)
Appended(b, bytes, memory) ==
    IF bytes = <<>> \/ AppendFails(b, bytes, memory) THEN b
    ELSE LET room == IF HasRoom(b, bytes) THEN b
                     ELSE Reserved(b, Grown(b, bytes), memory)
         IN  [room EXCEPT !.data = @ \o bytes]
=============================================================================
