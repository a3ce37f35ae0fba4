---------------------------- MODULE GaloisField ----------------------------
(***************************************************************************)
(* The arithmetic of field.h: a table of powers of alpha, a table of       *)
(* logarithms, and multiplication by adding logarithms.  The code has      *)
(* Width 8; its 255 is Top here and its 512 is 2 * (Top + 1).              *)
(***************************************************************************)
EXTENDS Integers

CONSTANTS
    Width,      \* bits of a field element, 8 in the code
    Primitive   \* the primitive polynomial, 0x11d in the code

Top     == 2^Width - 1
Element == 0..Top

\* Exclusive or of the bits of two elements, tabulated once.
Bit(e, k) == (e \div 2^k) % 2

XorTable ==
    [l \in Element |-> [r \in Element |->
        LET upTo[k \in 0..Width] ==
                IF k = 0 THEN 0
                ELSE upTo[k - 1] + 2^(k - 1) * ((Bit(l, k - 1) + Bit(r, k - 1)) % 2)
        IN  upTo[Width]]]

field_add(l, r) == XorTable[l][r]

\* exp[i] = alpha^i: doubling, and the polynomial taken away on overflow.
exp[i \in 0..(2 * Top + 1)] ==
    IF i = 0 THEN 1
    ELSE LET doubled == 2 * exp[i - 1]
         IN  IF doubled > Top THEN field_add(doubled - (Top + 1), Primitive - (Top + 1))
                              ELSE doubled

\* The last index not above Top wins, so that log[1] is Top and never 0: 0
\* stands for the logarithm that 0 does not have.
log == [e \in Element |->
            IF e = 0 THEN 0 ELSE CHOOSE i \in 1..Top : exp[i] = e]

\* alpha generates the field; powers of two are what they should be, which the
\* provers do not know of.
ASSUME FieldAssumption ==
    /\ Width \in Nat \ {0}
    /\ 2^0 = 1 /\ \A k \in 0..(Width - 1) : 2^(k + 1) = 2 * 2^k
    /\ Primitive \in (Top + 1)..(2 * Top + 1)
    /\ \A e \in Element \ {0} : \E i \in 1..Top : exp[i] = e

field_sum(elem, n) == IF n % 2 = 1 THEN elem ELSE 0

field_mul(l, r) == IF l = 0 \/ r = 0 THEN 0 ELSE exp[log[l] + log[r]]

field_div(l, r) == IF l = 0 \/ r = 0 THEN 0 ELSE exp[Top + log[l] - log[r]]

\* The same on logarithms; the result is again a logarithm in 0..Top.
Wrapped(i) == IF i > Top THEN i - Top ELSE i

field_mul_log(l, r) == Wrapped(l + r)

field_div_log(l, r) == Wrapped(Top + l - r)

field_mul_log_element(l, r) == exp[l + r]

\* % of TLA+ is never negative, like the code's remainder after its correction.
field_pow(elem, pow) == exp[(log[elem] * pow) % Top]
=============================================================================
