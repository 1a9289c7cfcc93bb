-------------------------------- MODULE Binary --------------------------------
(* Numbers and their bits.  The functions are recursive, with the sums and     *)
(* powers that the proofs about the decoder are by induction on.               *)
EXTENDS Integers

\* 2^n
TwoTo(n) == LET power[k \in 0 .. n] == IF k = 0 THEN 1 ELSE 2 * power[k - 1] IN power[n]

\* Bit k of n, the lowest being bit 0.
Bit(n, k) == (n \div TwoTo(k)) % 2

\* f[0] + ... + f[n - 1]
Sum(f, n) == LET sum[k \in 0 .. n] == IF k = 0 THEN 0 ELSE sum[k - 1] + f[k - 1] IN sum[n]
===============================================================================
