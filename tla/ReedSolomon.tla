---------------------------- MODULE ReedSolomon ----------------------------
(***************************************************************************)
(* libcorrect's codec: reed-solomon.c builds the generator, encode.c puts  *)
(* the parity behind a message, and decode.c finds and corrects errors,    *)
(* with or without a list of erased positions.  One behaviour encodes a    *)
(* message, lets a channel damage it and decodes what arrives; the         *)
(* Berlekamp-Massey loop is one action per round.                          *)
(***************************************************************************)
EXTENDS Polynomial, Sequences, SequencesExt

CONSTANTS
    min_distance,            \* roots of the generator, 4 in the code's calls
    first_consecutive_root,  \* 1 in the code's calls
    generator_root_gap,      \* 1 in the code's calls
    Messages,                \* bound: the messages encoded
    ErrorValues,             \* bound: what the channel may add to a byte
    MaxErrors,               \* bound: bytes the channel damages at most
    MaxFaults,               \* bound: damaged bytes and erasures together
    MaxErasures              \* bound: erasures given for an undamaged block

block_length   == Top
message_length == block_length - min_distance

ASSUME CodeAssumption ==
    /\ min_distance \in 1..(Top - 1)
    /\ first_consecutive_root \in 0..Top
    /\ generator_root_gap \in 1..Top
    /\ Messages \subseteq Seq(Element)
    /\ ErrorValues \subseteq Element \ {0}
    /\ MaxErrors \in Nat /\ MaxFaults \in Nat /\ MaxErasures \in Nat

\* Every place in a block has its root.  With a gap that has a factor in common with
\* block_length some elements would have no place; the code's gap is 1.
ASSUME GapAssumption ==
    \A e \in Element \ {0} : \E place \in Element : field_pow(place, generator_root_gap) = e

VARIABLES
    pc,
    msg,                 \* the message, and its block as it was sent
    sent,
    word,                \* the block as it arrived
    erasure_length,      \* positions of word the caller takes for damaged, with
    erasures,            \* their number
    received,            \* received_polynomial
    syndromes,
    syndrome_copy,
    locator,             \* coefficients and order of error_locator
    order,
    last_locator,
    last_order,
    i, numerrors, delay_length, last_discrepancy,     \* locals of the loop
    error_roots,
    returned,            \* what the last call returned
    result               \* what decoding wrote to msg

call  == <<msg, sent, word, erasure_length, erasures>>
lfsr  == <<locator, order, last_locator, last_order, i, numerrors, delay_length,
           last_discrepancy>>
vars  == <<pc, call, received, syndromes, syndrome_copy, lfsr, error_roots, returned,
           result>>

Failed == -1
NoPolynomial == [k \in 0..min_distance |-> 0]
Syndromes0 == [k \in 0..(min_distance - 1) |-> 0]

generator_roots ==
    [k \in 0..(min_distance - 1) |->
        exp[(generator_root_gap * (k + first_consecutive_root)) % Top]]

generator == polynomial_create_from_roots(generator_roots, min_distance)

generator_root_exp ==
    [k \in 0..(min_distance - 1) |->
        polynomial_build_exp_lut(generator_roots[k], block_length - 1)]

element_exp == [e \in Element |-> polynomial_build_exp_lut(e, min_distance - 1)]

Init ==
    /\ pc = "encode"
    /\ msg \in Messages
    /\ sent = <<>> /\ word = <<>> /\ erasure_length = 0 /\ erasures = <<>>
    /\ received = [k \in 0..(block_length - 1) |-> 0]
    /\ syndromes = Syndromes0 /\ syndrome_copy = Syndromes0
    /\ locator = NoPolynomial /\ order = 0
    /\ last_locator = NoPolynomial /\ last_order = 0
    /\ i = 0 /\ numerrors = 0 /\ delay_length = 1 /\ last_discrepancy = 1
    /\ error_roots = <<>>
    /\ returned = 0
    /\ result = <<>>

-----------------------------------------------------------------------------
\* (Definitions that no action uses, each in front of the one it deviates from,
\* are there to show that the properties can fail.)
no_pad(m) == 0
pad_length(m) == message_length - Len(m)

\* The message from the highest order down, behind the padding of a short one.
encoded_polynomial(m) ==
    LET place(k) == block_length - 1 - k - pad_length(m)
    IN  [k \in 0..(block_length - 1) |->
            IF place(k) \in 0..(Len(m) - 1) THEN m[place(k) + 1] ELSE 0]

parity(m) ==
    LET encoded_remainder == polynomial_mod(encoded_polynomial(m), generator)
    IN  [k \in 1..min_distance |-> encoded_remainder[min_distance - k]]

encode ==
    /\ pc = "encode"
    /\ IF Len(msg) > message_length
         THEN /\ returned' = Failed
              /\ pc' = "done"
              /\ UNCHANGED sent
         ELSE /\ sent' = msg \o parity(msg)
              /\ returned' = block_length
              /\ pc' = "channel"
    /\ UNCHANGED <<msg, word, erasure_length, erasures, received, syndromes, syndrome_copy, lfsr,
                   error_roots, result>>

\* The elements of a set one after the other, the least first.
Nth(S, k) == CHOOSE e \in S : Cardinality({d \in S : d < e}) = k

\* The channel adds to some bytes; the caller may suspect these or others.
Damage ==
    /\ pc = "channel"
    /\ \E errors \in 0..MaxErrors :
         /\ \E bad \in kSubset(errors, DOMAIN sent) : \E error \in [bad -> ErrorValues] :
              word' = [k \in DOMAIN sent |->
                          IF k \in bad THEN field_add(sent[k], error[k]) ELSE sent[k]]
         /\ erasure_length' \in 0..(IF errors = 0 THEN MaxErasures ELSE MaxFaults - errors)
    /\ \E suspects \in kSubset(erasure_length', 0..(Len(sent) - 1)) :
         erasures' = [k \in 1..erasure_length' |-> Nth(suspects, k - 1)]
    /\ pc' = "decode"
    /\ UNCHANGED <<msg, sent, received, syndromes, syndrome_copy, lfsr, error_roots,
                   returned, result>>

-----------------------------------------------------------------------------
\* The block low order first, with zeros for what a short block leaves out.
Received == [k \in 0..(block_length - 1) |->
                IF k < Len(word) THEN word[Len(word) - k] ELSE 0]

Payload(poly) == [k \in 1..(Len(word) - min_distance) |-> poly[Len(word) - k]]

find_syndromes(poly) ==
    [k \in 0..(min_distance - 1) |-> polynomial_eval_lut(poly, generator_root_exp[k])]

\* The roots of the erased positions, and the polynomial that has them.
erasure_roots ==
    [k \in 0..(erasure_length - 1) |->
        field_div(1, field_pow(exp[Len(word) - erasures[k + 1] - 1], generator_root_gap))]

erasure_locator == polynomial_create_from_roots(erasure_roots, erasure_length)

\* The syndromes without what the erasures explain, moved down; the entries above
\* stay what they were.
find_modified_syndromes(synd) ==
    LET modified == polynomial_mul(erasure_locator, synd, min_distance - 1)
    IN  [k \in 0..(min_distance - 1) |->
            IF k + erasure_length < min_distance THEN modified[k + erasure_length]
                                                 ELSE synd[k]]

Refuse ==
    /\ pc = "decode"
    /\ Len(word) > block_length \/ erasure_length > min_distance
    /\ returned' = Failed
    /\ pc' = "done"
    /\ UNCHANGED <<call, received, syndromes, syndrome_copy, lfsr, error_roots, result>>

FindSyndromes ==
    /\ pc = "decode"
    /\ Len(word) <= block_length /\ erasure_length <= min_distance
    /\ received' = Received
    /\ error_roots' = erasure_roots
    /\ syndrome_copy' = find_syndromes(Received)
    /\ IF \A k \in DOMAIN syndrome_copy' : syndrome_copy'[k] = 0
         THEN /\ syndromes' = syndrome_copy'
              /\ result' = Payload(Received)
              /\ returned' = Len(word) - min_distance
              /\ pc' = "done"
              /\ UNCHANGED lfsr
         ELSE /\ syndromes' = IF erasure_length = 0 THEN syndrome_copy'
                                                ELSE find_modified_syndromes(syndrome_copy')
              /\ locator' = [NoPolynomial EXCEPT ![0] = 1] /\ order' = 0
              /\ last_locator' = [NoPolynomial EXCEPT ![0] = 1] /\ last_order' = 0
              /\ i' = 0 /\ numerrors' = 0
              /\ delay_length' = 1 /\ last_discrepancy' = 1
              /\ pc' = "locate"
              /\ UNCHANGED <<returned, result>>
    /\ UNCHANGED call

-----------------------------------------------------------------------------
(* find_error_locator: one round of the loop over the syndromes.             *)

discrepancy ==
    SumTo([j \in 0..numerrors |->
              IF j = 0 THEN syndromes[i] ELSE field_mul(locator[j], syndromes[i - j])],
          numerrors)

\* The last locator, delayed and scaled to cancel the discrepancy, is taken away.
Corrected ==
    LET factor == discrepancy
        correction(k) == field_div(field_mul(last_locator[k - delay_length], factor),
                                   last_discrepancy)
    IN  [k \in 0..min_distance |->
            IF k - delay_length \in 0..last_order THEN field_add(locator[k], correction(k))
                                                 ELSE locator[k]]

AlwaysRoom == TRUE
RoomForTaps == 2 * numerrors <= i          \* to lengthen the register

Locating == pc = "locate" /\ i < min_distance - erasure_length

NoDiscrepancyKeepsDelay ==
    /\ Locating
    /\ discrepancy = 0
    /\ i' = i + 1
    /\ UNCHANGED <<pc, call, received, syndromes, syndrome_copy, locator, order,
                   last_locator, last_order, numerrors, delay_length,
                   last_discrepancy, error_roots, returned, result>>

NoDiscrepancy ==
    /\ Locating
    /\ discrepancy = 0
    /\ delay_length' = delay_length + 1
    /\ i' = i + 1
    /\ UNCHANGED <<pc, call, received, syndromes, syndrome_copy, locator, order,
                   last_locator, last_order, numerrors, last_discrepancy,
                   error_roots, returned, result>>

LengthenLocatorKeepsDelay ==
    /\ Locating
    /\ discrepancy # 0
    /\ RoomForTaps
    /\ locator' = Corrected
    /\ order' = last_order + delay_length
    /\ last_locator' = [k \in 0..min_distance |->
                           IF k <= last_order + delay_length THEN locator[k]
                                                             ELSE last_locator[k]]
    /\ last_order' = order
    /\ numerrors' = i + 1 - numerrors
    /\ last_discrepancy' = discrepancy
    /\ delay_length' = delay_length + 1
    /\ i' = i + 1
    /\ UNCHANGED <<pc, call, received, syndromes, syndrome_copy, error_roots, returned, result>>

LengthenLocator ==
    /\ Locating
    /\ discrepancy # 0
    /\ RoomForTaps
    /\ locator' = Corrected
    /\ order' = last_order + delay_length
    /\ last_locator' = [k \in 0..min_distance |->
                           IF k <= last_order + delay_length THEN locator[k]
                                                             ELSE last_locator[k]]
    /\ last_order' = order
    /\ numerrors' = i + 1 - numerrors
    /\ last_discrepancy' = discrepancy
    /\ delay_length' = 1
    /\ i' = i + 1
    /\ UNCHANGED <<pc, call, received, syndromes, syndrome_copy, error_roots, returned, result>>

AdjustLocator ==
    /\ Locating
    /\ discrepancy # 0
    /\ ~RoomForTaps
    /\ locator' = Corrected
    /\ order' = IF last_order + delay_length > order THEN last_order + delay_length
                                                     ELSE order
    /\ delay_length' = delay_length + 1
    /\ i' = i + 1
    /\ UNCHANGED <<pc, call, received, syndromes, syndrome_copy, last_locator,
                   last_order, numerrors, last_discrepancy, error_roots, returned, result>>

find_error_locator == NoDiscrepancy \/ LengthenLocator \/ AdjustLocator

-----------------------------------------------------------------------------
\* Chien search.  A row of element_exp has min_distance entries: of a locator of
\* that order the last term is taken from behind the row, and an element is a
\* root or not depending on what lies there.
error_locator_log == [k \in 0..order |-> log[locator[k]]]

ReadsBehindRow == order = min_distance /\ error_locator_log[order] # 0

SureRoots ==
    IF ReadsBehindRow THEN {}
    ELSE {e \in Element : polynomial_eval_log_lut(error_locator_log, element_exp[e]) = 0}

PossibleRoots ==
    IF ~ReadsBehindRow THEN SureRoots
    ELSE {e \in Element \ {0} :
            polynomial_eval_log_lut([k \in 0..(order - 1) |-> error_locator_log[k]],
                                    element_exp[e]) # 0}

AnyRoots(roots) == roots # {}
EnoughRoots(roots) == Cardinality(roots) = order

factorize_error_locator ==
    /\ pc = "locate"
    /\ i >= min_distance - erasure_length
    /\ \E roots \in SUBSET PossibleRoots :
         /\ SureRoots \subseteq roots
         /\ error_roots' = [k \in 0..(erasure_length + Cardinality(roots) - 1) |->
                              IF k < erasure_length THEN error_roots[k]
                              ELSE Nth(roots, k - erasure_length)]
         /\ IF EnoughRoots(roots)
              THEN pc' = "correct" /\ UNCHANGED returned
              ELSE pc' = "done" /\ returned' = Failed
    /\ UNCHANGED <<call, received, syndromes, syndrome_copy, lfsr, result>>

\* The elements whose power is the reciprocal of a root.  0 is met first when
\* that is 1: its logarithm is 0, while log[1] would lie behind the block.
matchesFromOne(loc) == {e \in Element \ {0} : field_pow(e, generator_root_gap) = loc}
matches(loc) == {e \in Element : field_pow(e, generator_root_gap) = loc}

find_error_location(root) == log[Min(matches(field_div(1, root)))]

\* The locator of errors and erasures together.
whole_locator ==
    LET errors == [k \in 0..order |-> locator[k]]
    IN  IF erasure_length = 0 THEN errors
        ELSE polynomial_mul(erasure_locator, errors, order + erasure_length)

\* Forney's formula, for each root.
find_error_values(locator_poly, synd) ==
    LET error_evaluator == polynomial_mul(locator_poly, synd, min_distance - 1)
        derivative == polynomial_formal_derivative(locator_poly, Order(locator_poly) - 1)
        value(root) ==
            field_mul(field_pow(root, first_consecutive_root - 1),
                      field_div(polynomial_eval_lut(error_evaluator, element_exp[root]),
                                polynomial_eval_lut(derivative, element_exp[root])))
    IN  [n \in DOMAIN error_roots |-> value(error_roots[n])]

\* The values are added at their places, a place that occurs twice getting both.
Correct ==
    LET places == [n \in DOMAIN error_roots |-> find_error_location(error_roots[n])]
        values == find_error_values(whole_locator, syndrome_copy)
        errorAt(k) == SumTo([n \in DOMAIN places |-> IF places[n] = k THEN values[n] ELSE 0],
                            Order(places))
    IN  /\ pc = "correct"
        /\ received' = [k \in DOMAIN received |-> field_add(received[k], errorAt(k))]
        /\ syndromes' = syndrome_copy
        /\ result' = Payload(received')
        /\ returned' = Len(word) - min_distance
        /\ pc' = "done"
        /\ UNCHANGED <<call, syndrome_copy, lfsr, error_roots>>

Done == pc = "done" /\ UNCHANGED vars

Next ==
    \/ encode
    \/ Damage
    \/ Refuse
    \/ FindSyndromes
    \/ find_error_locator
    \/ factorize_error_locator
    \/ Correct
    \/ Done

Spec == Init /\ [][Next]_vars

-----------------------------------------------------------------------------
\* Every index of the loop stays inside the arrays of min_distance + 1
\* coefficients: "the bounds here will be ok since we have a headroom of
\* numerrors" (decode.c:71).
LocatorFits ==
    pc = "locate" =>
        /\ order <= min_distance
        /\ Locating => last_order + delay_length <= min_distance

\* The locator describes, as a feedback register, all syndromes read so far
\* (decode.c:30 to 118).
LocatorDescribesSyndromes ==
    pc = "locate" =>
        \A k \in numerrors..(i - 1) :
            SumTo([j \in 0..numerrors |-> field_mul(locator[j], syndromes[k - j])],
                  numerrors) = 0

\* A block that is sent has every root of the generator as a root, whatever
\* the length of the message (encode.c).
SentIsCodeword ==
    pc = "channel" =>
        \A k \in DOMAIN generator_roots :
            polynomial_eval([n \in 0..(Len(sent) - 1) |-> sent[Len(sent) - n]],
                            generator_roots[k]) = 0

\* The positions that were damaged, apart from the erased ones, which count half.
Damaged == {k \in DOMAIN sent : sent[k] # word[k] /\ ~Contains(erasures, k - 1)}

\* "It can handle as many as num_roots/2 bytes having corruption" (correct.h),
\* and two erasures in the place of one unknown error.
WithinReach == 2 * Cardinality(Damaged) + erasure_length <= min_distance

RecoversMessage == pc = "done" /\ sent # <<>> /\ WithinReach =>
    returned = Len(msg) /\ result = msg

\* An error the decoder places lies in the block, and no root is 0, whose
\* location would be what the last call left behind (decode.c:204-217).
LocationsInBlock ==
    pc = "correct" =>
        \A n \in DOMAIN error_roots :
            /\ error_roots[n] # 0
            /\ find_error_location(error_roots[n]) \in 0..(block_length - 1)

\* Decoding that succeeds leaves a block with every root of the generator, also
\* when there were too many errors: "this is where we find out if we are have
\* too many errors to recover from" (decode.c:141).  Erasures are left out, one of
\* which may coincide with a root, and locators of order min_distance, whose last
\* term is taken from behind the row.
SuccessIsCodeword ==
    pc = "done" /\ returned # Failed /\ erasure_length = 0 /\ order < min_distance =>
        \A k \in DOMAIN generator_roots : polynomial_eval(received, generator_roots[k]) = 0
=============================================================================
