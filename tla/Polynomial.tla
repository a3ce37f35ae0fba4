---------------------------- MODULE Polynomial ----------------------------
(***************************************************************************)
(* The polynomials of polynomial.c: a polynomial of order n is a function  *)
(* on 0..n, lowest coefficient first.                                      *)
(***************************************************************************)
EXTENDS GaloisField, FiniteSets

Order(p) == Cardinality(DOMAIN p) - 1

\* The field sum of f[0], ..., f[n].
SumTo(f, n) ==
    LET upTo[k \in 0..n] == IF k = 0 THEN f[0] ELSE field_add(upTo[k - 1], f[k])
    IN  upTo[n]

\* Coefficients above the order of the result are not computed.
polynomial_mul(l, r, order) ==
    [k \in 0..order |->
        SumTo([i \in 0..k |-> IF i \in DOMAIN l /\ k - i \in DOMAIN r
                              THEN field_mul(l[i], r[k - i]) ELSE 0], k)]

\* Long division, from the highest order down; what is left is the remainder.
polynomial_mod(dividend, divisor) ==
    LET d == Order(divisor)
        n == Order(dividend)
        reduce(m, i) ==
            LET q == field_div_log(log[m[i]], log[divisor[d]])
            IN  [k \in 0..n |->
                    IF k - (i - d) \in 0..d /\ divisor[k - (i - d)] # 0
                    THEN field_add(m[k], field_mul_log_element(log[divisor[k - (i - d)]], q))
                    ELSE m[k]]
        rest[i \in d..(n + 1)] ==       \* before the step for order i - 1
            IF i = n + 1 THEN dividend
            ELSE LET m == rest[i + 1] IN IF m[i] = 0 THEN m ELSE reduce(m, i)
    IN  rest[d]

polynomial_formal_derivative(poly, order) ==
    [k \in 0..order |-> field_sum(poly[k + 1], k + 1)]

\* Logarithms of the powers 0..order of val, all 0 for val = 0.
polynomial_build_exp_lut(val, order) ==
    LET power[k \in 0..order] ==
            IF k = 0 THEN log[1] ELSE field_mul_log(power[k - 1], log[val])
    IN  [i \in 0..order |-> IF val = 0 THEN 0 ELSE power[i]]

polynomial_eval_lut(poly, val_exp) ==
    IF val_exp[0] = 0 THEN poly[0]
    ELSE SumTo([i \in DOMAIN poly |->
                   IF poly[i] = 0 THEN 0
                   ELSE field_mul_log_element(log[poly[i]], val_exp[i])], Order(poly))

\* The same for a polynomial given by logarithms, 0 standing for no term.
polynomial_eval_log_lut(poly_log, val_exp) ==
    IF val_exp[0] = 0 THEN IF poly_log[0] = 0 THEN 0 ELSE exp[poly_log[0]]
    ELSE SumTo([i \in DOMAIN poly_log |->
                   IF poly_log[i] = 0 THEN 0
                   ELSE field_mul_log_element(poly_log[i], val_exp[i])], Order(poly_log))

\* The powers of val are multiplied up on the way.
polynomial_eval(poly, val) ==
    polynomial_eval_lut(poly, polynomial_build_exp_lut(val, Order(poly)))

\* The product of x + roots[i], one factor at a time.
polynomial_create_from_roots(roots, nroots) ==
    LET factor(i) == [k \in 0..1 |-> IF k = 0 THEN roots[i] ELSE 1]
        product[i \in 0..(nroots - 1)] ==
            IF i = 0 THEN factor(0)
            ELSE polynomial_mul(factor(i), product[i - 1], i + 1)
    IN  product[nroots - 1]
=============================================================================
