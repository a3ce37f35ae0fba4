------------------------- MODULE ReedSolomonProofs -------------------------
(***************************************************************************)
(* Theorems about ReedSolomon, for every field, code, message and damage.  *)
(* Why the shift register of Berlekamp and Massey never outgrows its       *)
(* arrays: the order of the locator is at most the number of taps, and     *)
(* what the last locator would reach when it is used is at most the number *)
(* of taps that would follow.  Why every error placed lies in the block:   *)
(* the locator keeps its constant term, so that no root is 0, and every    *)
(* other root has a place.  Why what is sent is a codeword: the parity is  *)
(* the remainder of a division by the generator, which leaves the values   *)
(* at its roots alone.  Why the locator describes the syndromes: taking    *)
(* the scaled and delayed last locator away cancels the discrepancy and    *)
(* nothing before it.  Why a success is a codeword: Forney's values at the *)
(* locator's roots make up for all syndromes.  Why a message within reach  *)
(* is recovered: the erasures are filtered out of the syndromes, what is   *)
(* left are sums of as many powers as there are errors, no register with   *)
(* fewer taps describes those, and the locator never takes more.           *)
(***************************************************************************)
EXTENDS ReedSolomon, FieldProofs, FunctionTheorems

\* The taps never exceed the syndromes read, nor the orders the taps.
RegisterInv ==
    pc = "locate" =>
        /\ i \in Nat /\ numerrors \in Nat /\ delay_length \in Nat
        /\ order \in Nat /\ last_order \in Nat
        /\ i <= min_distance
        /\ order <= numerrors
        /\ numerrors <= i
        /\ last_order + delay_length <= i + 1 - numerrors

IInv == erasure_length \in Nat /\ RegisterInv

\* The bound of the comment holds of every state the invariant allows.
LEMMA InvFits == ASSUME IInv PROVE LocatorFits
  <1>1. min_distance \in Nat
    BY CodeAssumption DEF CodeAssumption
  <1> QED
    BY <1>1 DEF IInv, RegisterInv, LocatorFits, Locating

\* The decoder starts with one tap short of the first syndrome.
LEMMA StartsInside == Init => IInv
  BY DEF Init, IInv, RegisterInv

\* Each step keeps the register inside.
LEMMA StepInside == ASSUME IInv, [Next]_vars PROVE IInv'
  <1>1. min_distance \in Nat /\ MaxErasures \in Nat /\ MaxFaults \in Nat /\ MaxErrors \in Nat
    BY CodeAssumption DEF CodeAssumption
  <1>2. CASE encode
    BY <1>2 DEF encode, IInv, RegisterInv
  <1>3. CASE Damage
    <2>1. PICK errors \in 0..MaxErrors :
            erasure_length' \in 0..(IF errors = 0 THEN MaxErasures ELSE MaxFaults - errors)
      BY <1>3, Zenon DEF Damage
    <2>2. pc' = "decode"
      BY <1>3, Zenon DEF Damage
    <2> QED
      BY <1>1, <2>1, <2>2 DEF IInv, RegisterInv
  <1>4. CASE Refuse
    BY <1>4 DEF Refuse, call, IInv, RegisterInv
  <1>5. CASE FindSyndromes
    BY <1>1, <1>5 DEF FindSyndromes, call, lfsr, IInv, RegisterInv
  <1>6. CASE NoDiscrepancy
    BY <1>1, <1>6 DEF NoDiscrepancy, Locating, call, IInv, RegisterInv
  <1>7. CASE LengthenLocator
    <2>1. pc = "locate" /\ i < min_distance - erasure_length /\ 2 * numerrors <= i
      BY <1>7 DEF LengthenLocator, Locating, RoomForTaps
    <2>2. /\ order' = last_order + delay_length /\ last_order' = order
          /\ numerrors' = i + 1 - numerrors /\ delay_length' = 1 /\ i' = i + 1
          /\ erasure_length' = erasure_length
      BY <1>7 DEF LengthenLocator, call
    <2> QED
      BY <1>1, <2>1, <2>2 DEF IInv, RegisterInv
  <1>8. CASE AdjustLocator
    BY <1>1, <1>8 DEF AdjustLocator, Locating, RoomForTaps, call, IInv, RegisterInv
  <1>9. CASE factorize_error_locator
    BY <1>9 DEF factorize_error_locator, call, IInv, RegisterInv
  <1>10. CASE Correct
    BY <1>10 DEF Correct, call, IInv, RegisterInv
  <1>11. CASE Done
    BY <1>11 DEF Done, vars, call, lfsr, IInv, RegisterInv
  <1>12. CASE UNCHANGED vars
    BY <1>12 DEF vars, call, lfsr, IInv, RegisterInv
  <1> QED
    BY <1>2, <1>3, <1>4, <1>5, <1>6, <1>7, <1>8, <1>9, <1>10, <1>11, <1>12
       DEF Next, find_error_locator

\* "The bounds here will be ok since we have a headroom of numerrors"
\* (decode.c:71): no index of find_error_locator leaves its array.
THEOREM LocatorBounds == Spec => []LocatorFits
  <1>1. Spec => []IInv
    BY StartsInside, StepInside, PTL DEF Spec
  <1>2. IInv => LocatorFits
    BY InvFits
  <1> QED
    BY <1>1, <1>2, PTL

-----------------------------------------------------------------------------
(* Places. *)

\* The place of an error is that of an element whose power is the reciprocal of its root.
LEMMA LeastMatch ==
    ASSUME NEW root \in 1..Top
    PROVE  LET found == matches(field_div(1, root))
           IN  Min(found) \in found /\ \A e \in found : Min(found) <= e
<1> DEFINE loc == field_div(1, root)
           found == matches(loc)
<1>0. Top \in Nat /\ Top > 0 /\ Element = 0..Top /\ Element \ {0} = 1..Top
  BY FieldSize
<1>1. loc \in 1..Top
  BY DivisionType
<1>3. found # {}
  BY <1>0, <1>1, GapAssumption DEF matches
<1>4. found \subseteq Nat
  BY <1>0 DEF matches
<1>5. PICK m \in found : \A e \in found : m <= e
  BY <1>3, <1>4, LeastNumber
<1> QED
  BY <1>5 DEF Min

\* Whatever is not zero has a place in the block: the least element whose power is the
\* reciprocal is not the one whose logarithm lies behind the block.
LEMMA LocationInBlock ==
    ASSUME NEW root \in 1..Top
    PROVE  find_error_location(root) \in 0..(block_length - 1)
<1> DEFINE loc == field_div(1, root)
           found == matches(loc)
           least == Min(found)
<1>0. Top \in Nat /\ Top > 0 /\ Element = 0..Top /\ Element \ {0} = 1..Top
  BY FieldSize
<1>1. loc \in 1..Top
  BY DivisionType
<1>2. generator_root_gap \in Nat
  BY <1>0, CodeAssumption
<1>6. least \in found /\ \A e \in found : least <= e
  BY LeastMatch
<1>7. least \in 0..Top /\ field_pow(least, generator_root_gap) = loc
  BY <1>0, <1>6 DEF matches
<1>8. find_error_location(root) = log[least]
  BY DEF find_error_location
<1> HIDE DEF least, found, loc
<1>9. CASE least = 0
  <2>1. log[0] = 0
    BY <1>0 DEF log
  <2> QED
    BY <1>0, <1>8, <1>9, <2>1 DEF block_length
<1>10. CASE least # 0
  <2>1. log[least] \in 1..Top
    BY <1>0, <1>7, <1>10, LogIsIndex
  <2>2. log[least] # Top
    <3> SUFFICES ASSUME log[least] = Top PROVE FALSE
      OBVIOUS
    <3>1. (Top * generator_root_gap) % Top = 0
      BY <1>0, <1>2, MultipleLeavesNothing
    <3>2. loc = 1
      BY <1>7, <3>1, ExpUnfolds DEF field_pow
    <3>3. 0 \in found
      BY <1>0, <1>2, <3>2, PowOfZero DEF matches, found
    <3>4. least <= 0
      BY <1>6, <3>3
    <3> QED
      BY <1>7, <1>10, <3>4
  <2> QED
    BY <1>0, <1>8, <2>1, <2>2 DEF block_length
<1> QED
  BY <1>9, <1>10

-----------------------------------------------------------------------------
(* The roots are put into the order in which they are found. *)

\* The greatest of a set of numbers.
LEMMA GreatestElement ==
    ASSUME NEW S, IsFiniteSet(S), S # {}, S \subseteq Nat
    PROVE  \E m \in S : \A e \in S : e <= m
<1> DEFINE Good == {n \in Nat : \A U \in SUBSET S : Cardinality(U) = n /\ U # {} =>
                      \E m \in U : \A e \in U : e <= m}
<1>0. \A U \in SUBSET S : IsFiniteSet(U) /\ Cardinality(U) \in Nat
  BY FS_Subset, FS_CardinalityType
<1>1. 0 \in Good
  <2>1. \A U \in SUBSET S : Cardinality(U) = 0 => U = {}
    BY <1>0, FS_EmptySet
  <2> QED
    BY <2>1
<1>2. ASSUME NEW n \in Nat, n \in Good PROVE n + 1 \in Good
  <2> SUFFICES ASSUME NEW U \in SUBSET S, Cardinality(U) = n + 1, U # {}
               PROVE  \E m \in U : \A e \in U : e <= m
    BY <1>2
  <2>1. PICK x \in U : TRUE
    OBVIOUS
  <2> DEFINE rest == U \ {x}
  <2>2. rest \in SUBSET S /\ Cardinality(rest) = n
    <3>1. x \in U /\ IsFiniteSet(U)
      BY <1>0, <2>1
    <3>2. Cardinality(rest) = Cardinality(U) - 1
      BY <3>1, FS_RemoveElement
    <3>3. n \in Nat
      BY <1>2
    <3> QED
      BY <3>2, <3>3
  <2>3. CASE rest = {}
    <3>1. \A e \in U : e = x
      BY <2>3
    <3>2. x \in Nat
      OBVIOUS
    <3> QED
      BY <3>1, <3>2
  <2>4. CASE rest # {}
    <3>1. PICK m \in rest : \A e \in rest : e <= m
      BY <1>2, <2>2, <2>4
    <3>2. x \in Nat /\ m \in Nat /\ \A e \in rest : e \in Nat
      OBVIOUS
    <3>3. CASE x <= m
      BY <3>1, <3>3
    <3>4. CASE ~(x <= m)
      BY <3>1, <3>2, <3>4
    <3> QED
      BY <3>3, <3>4
  <2> QED
    BY <2>3, <2>4
<1> HIDE DEF Good
<1>3. Nat \subseteq Good
  BY <1>1, <1>2, SetInduction
<1> QED
  BY <1>0, <1>3 DEF Good

\* There is an element for each number of elements before it.
LEMMA RankExists ==
    ASSUME NEW S, IsFiniteSet(S), S \subseteq Nat, NEW k \in 0..(Cardinality(S) - 1)
    PROVE  \E e \in S : Cardinality({d \in S : d < e}) = k
<1> DEFINE Good == {n \in Nat : \A U \in SUBSET S : Cardinality(U) = n =>
                      \A j \in 0..(n - 1) : \E e \in U : Cardinality({d \in U : d < e}) = j}
<1>0. \A U \in SUBSET S : IsFiniteSet(U) /\ Cardinality(U) \in Nat
  BY FS_Subset, FS_CardinalityType
<1>1. 0 \in Good
  OBVIOUS
<1>2. ASSUME NEW n \in Nat, n \in Good PROVE n + 1 \in Good
  <2> SUFFICES ASSUME NEW U \in SUBSET S, Cardinality(U) = n + 1,
                      NEW j \in 0..n
               PROVE  \E e \in U : Cardinality({d \in U : d < e}) = j
    BY <1>2
  <2>0. U # {}
    <3>1. Cardinality({}) = 0
      BY FS_EmptySet
    <3>2. n + 1 # 0
      BY <1>2
    <3> QED
      BY <3>1, <3>2
  <2>1. PICK m \in U : \A e \in U : e <= m
    BY <1>0, <2>0, GreatestElement, U \subseteq Nat
  <2> DEFINE rest == U \ {m}
  <2>2. rest \in SUBSET S /\ Cardinality(rest) = n
    <3>1. m \in U /\ IsFiniteSet(U)
      BY <1>0
    <3>2. Cardinality(rest) = Cardinality(U) - 1
      BY <3>1, FS_RemoveElement
    <3>3. n \in Nat
      BY <1>2
    <3> QED
      BY <3>2, <3>3
  <2>3. {d \in U : d < m} = rest
    <3>1. \A d \in U : d \in Nat /\ m \in Nat /\ (d < m <=> d # m)
      BY <2>1
    <3> QED
      BY <3>1
  <2>4. CASE j = n
    BY <2>2, <2>3, <2>4
  <2>5. CASE j # n
    <3>1. j \in 0..(n - 1)
      BY <1>2, <2>5
    <3>2. PICK e \in rest : Cardinality({d \in rest : d < e}) = j
      BY <1>2, <2>2, <3>1
    <3>3. ~(m < e) /\ e \in U
      BY <2>1
    <3>4. {d \in rest : d < e} = {d \in U : d < e}
      BY <3>3
    <3> QED
      BY <3>2, <3>3, <3>4
  <2> QED
    BY <2>4, <2>5
<1> HIDE DEF Good
<1>3. Nat \subseteq Good
  BY <1>1, <1>2, SetInduction
<1> QED
  BY <1>0, <1>3 DEF Good

\* So the Nth member is one of them, with N members before it.
LEMMA NthRank ==
    ASSUME NEW S, IsFiniteSet(S), S \subseteq Nat, NEW k \in 0..(Cardinality(S) - 1)
    PROVE  Nth(S, k) \in S /\ Cardinality({d \in S : d < Nth(S, k)}) = k
<1>1. \E e \in S : Cardinality({d \in S : d < e}) = k
  BY RankExists
<1> QED
  BY <1>1, Zenon DEF Nth

-----------------------------------------------------------------------------
(* The errors a decoder places. *)

\* Erased positions lie in the block, the locator keeps its constant term, and the
\* roots collected are not zero.
PlacesInv ==
    /\ msg \in Seq(Element)
    /\ pc = "channel" => /\ Len(sent) \in 0..Top
                         /\ DOMAIN sent = 1..Len(sent)
    /\ pc = "decode" => /\ Len(word) \in 0..Top
                        /\ erasures \in [1..erasure_length -> 0..(Len(word) - 1)]
    /\ pc = "locate" => /\ locator[0] = 1
                        /\ delay_length > 0
                        /\ error_roots \in [0..(erasure_length - 1) -> 1..Top]
    /\ pc = "correct" => \A n \in DOMAIN error_roots : error_roots[n] \in 1..Top

\* A block that is sent is not longer than the code allows.
LEMMA EncodeKeepsPlaces ==
    ASSUME PlacesInv, encode
    PROVE  PlacesInv'
<1>1. /\ Top \in Nat /\ min_distance \in Nat /\ min_distance <= Top
      /\ block_length = Top /\ message_length = Top - min_distance
  BY FieldSize, CodeAssumption DEF block_length, message_length
<1>2. msg' = msg /\ msg \in Seq(Element)
  BY DEF encode, PlacesInv
<1>3. CASE Len(msg) > message_length
  <2>1. pc' = "done"
    BY <1>3 DEF encode
  <2> QED
    BY <1>2, <2>1 DEF PlacesInv
<1>4. CASE ~(Len(msg) > message_length)
  <2>1. pc' = "channel" /\ sent' = msg \o parity(msg)
    BY <1>4 DEF encode
  <2> DEFINE Values == Element \cup {parity(msg)[k] : k \in 1..min_distance}
             p == parity(msg)
  <2>2. p = [k \in 1..min_distance |-> p[k]]
    BY DEF parity
  <2>3. p \in Seq(Values) /\ Len(p) = min_distance
    BY <1>1, <2>2
  <2> HIDE DEF p
  <2>4. sent' \in Seq(Values) /\ Len(sent') = Len(msg) + min_distance
    BY <1>2, <2>1, <2>3 DEF p
  <2>5. Len(msg) \in Nat /\ Len(msg) <= Top - min_distance
    BY <1>1, <1>2, <1>4
  <2>6. Len(sent') \in 0..Top
    BY <1>1, <2>4, <2>5
  <2>7. DOMAIN sent' = 1..Len(sent')
    BY <2>4
  <2> QED
    BY <1>2, <2>1, <2>6, <2>7 DEF PlacesInv
<1> QED
  BY <1>3, <1>4

\* The positions taken for damaged are some of those sent.
LEMMA DamageKeepsPlaces ==
    ASSUME IInv, IInv', PlacesInv, Damage
    PROVE  PlacesInv'
<1>1. /\ pc' = "decode" /\ msg' = msg
      /\ Len(sent) \in 0..Top /\ DOMAIN sent = 1..Len(sent)
  BY DEF Damage, PlacesInv
<1>2. PICK errors, bad, error :
        word' = [k \in DOMAIN sent |-> IF k \in bad THEN field_add(sent[k], error[k]) ELSE sent[k]]
  BY DEF Damage
<1>3. Len(word') = Len(sent)
  <2> DEFINE n == Len(sent)
  <2>1. n \in Nat /\ DOMAIN sent = 1..n
    BY <1>1, FieldSize
  <2> HIDE DEF n
  <2>2. Len(word') = n
    BY <1>2, <2>1
  <2> QED
    BY <2>2 DEF n
<1>4. PICK suspects \in kSubset(erasure_length', 0..(Len(sent) - 1)) :
        erasures' = [k \in 1..erasure_length' |-> Nth(suspects, k - 1)]
  BY DEF Damage
<1>5. suspects \subseteq 0..(Len(sent) - 1) /\ Cardinality(suspects) = erasure_length'
  BY DEF kSubset
<1>6. IsFiniteSet(suspects) /\ suspects \subseteq Nat
  <2>1. Len(sent) \in Nat
    BY <1>1, FieldSize
  <2>2. IsFiniteSet(0..(Len(sent) - 1))
    BY <2>1, FS_Interval
  <2> QED
    <3>1. IsFiniteSet(suspects)
      BY <1>5, <2>2, FS_Subset
    <3>2. 0..(Len(sent) - 1) \subseteq Nat
      BY <2>1
    <3> QED
      BY <1>5, <3>1, <3>2
<1>7. erasure_length' \in Nat
  BY DEF IInv
<1>8. ASSUME NEW k \in 1..erasure_length'
      PROVE  Nth(suspects, k - 1) \in 0..(Len(sent) - 1)
  <2>1. k - 1 \in 0..(Cardinality(suspects) - 1)
    <3> DEFINE n == erasure_length'
    <3>1. n \in Nat /\ k \in 1..n /\ Cardinality(suspects) = n
      BY <1>5, <1>7
    <3> HIDE DEF n
    <3>2. k - 1 \in 0..(n - 1)
      BY <3>1
    <3> QED
      BY <3>1, <3>2
  <2> QED
    BY <1>5, <1>6, <2>1, NthRank
<1>9. erasures' \in [1..erasure_length' -> 0..(Len(word') - 1)]
  BY <1>3, <1>4, <1>8
<1> QED
  BY <1>1, <1>3, <1>9 DEF PlacesInv

\* The roots of the erased positions.
LEMMA ErasureRootsType ==
    ASSUME IInv, PlacesInv, pc = "decode"
    PROVE  erasure_roots \in [0..(erasure_length - 1) -> 1..Top]
<1>1. /\ Top \in Nat /\ erasure_length \in Nat /\ generator_root_gap \in Nat
      /\ Len(word) \in 0..Top /\ erasures \in [1..erasure_length -> 0..(Len(word) - 1)]
  BY FieldSize, CodeAssumption DEF IInv, PlacesInv
<1>2. ASSUME NEW k \in 0..(erasure_length - 1)
      PROVE  field_div(1, field_pow(exp[Len(word) - erasures[k + 1] - 1], generator_root_gap))
               \in 1..Top
  <2>1. k + 1 \in 1..erasure_length
    BY <1>1
  <2>2. erasures[k + 1] \in 0..(Len(word) - 1)
    BY <1>1, <2>1
  <2>3. Len(word) - erasures[k + 1] - 1 \in 0..(2 * Top)
    BY <1>1, <2>2
  <2>4. exp[Len(word) - erasures[k + 1] - 1] \in 1..Top
    BY <2>3, PowersGoRound
  <2>5. field_pow(exp[Len(word) - erasures[k + 1] - 1], generator_root_gap) \in 1..Top
    BY <1>1, <2>4, PowType
  <2> QED
    BY <2>5, DivisionType
<1> QED
  BY <1>2 DEF erasure_roots

\* Adjusting the locator leaves its constant term alone, for it is taken away from
\* delayed.
LEMMA CorrectedKeepsConstant ==
    ASSUME delay_length \in Nat, delay_length > 0, last_order \in Nat
    PROVE  Corrected[0] = locator[0]
<1>1. min_distance \in Nat
  BY FieldSize, CodeAssumption
<1>2. ~(0 - delay_length \in 0..last_order) /\ 0 \in 0..min_distance
  BY <1>1
<1> QED
  BY <1>2 DEF Corrected

\* 0 is no root of a locator with a constant term.
LEMMA RootsNotZero ==
    ASSUME locator[0] = 1, order \in Nat
    PROVE  PossibleRoots \subseteq 1..Top
<1>1. Top \in Nat /\ Element = 0..Top /\ Element \ {0} = 1..Top /\ min_distance \in Nat \ {0}
  BY FieldSize, CodeAssumption
<1>2. error_locator_log[0] # 0
  <2>1. error_locator_log[0] = log[1]
    BY DEF error_locator_log
  <2>2. 1 \in Element \ {0}
    BY <1>1, FieldSize
  <2>3. log[1] \in 1..Top
    BY <2>2, LogIsIndex
  <2> QED
    BY <1>1, <2>1, <2>3
<1>3. element_exp[0][0] = 0
  <2>1. 0 \in Element /\ 0 \in 0..(min_distance - 1)
    BY <1>1
  <2>2. element_exp[0] = polynomial_build_exp_lut(0, min_distance - 1)
    BY <2>1 DEF element_exp
  <2>3. polynomial_build_exp_lut(0, min_distance - 1)[0] = 0
    BY <2>1 DEF polynomial_build_exp_lut
  <2> QED
    BY <2>2, <2>3
<1>4. polynomial_eval_log_lut(error_locator_log, element_exp[0]) # 0
  <2>1. error_locator_log[0] = log[1] /\ 1 \in Element \ {0}
    BY <1>1, FieldSize DEF error_locator_log
  <2>2. exp[error_locator_log[0]] = 1
    BY <2>1, LogIsIndex
  <2>3. polynomial_eval_log_lut(error_locator_log, element_exp[0]) = 1
    BY <1>2, <1>3, <2>2 DEF polynomial_eval_log_lut
  <2> QED
    BY <2>3
<1>5. 0 \notin SureRoots
  BY <1>4 DEF SureRoots
<1>6. SureRoots \subseteq Element
  BY DEF SureRoots
<1> QED
  BY <1>1, <1>5, <1>6 DEF PossibleRoots

\* The roots found join those of the erased positions.
LEMMA FactorizeKeepsPlaces ==
    ASSUME IInv, PlacesInv, factorize_error_locator
    PROVE  PlacesInv'
<1>1. pc = "locate" /\ msg' = msg /\ pc' \in {"correct", "done"}
  BY DEF factorize_error_locator, call
<1>2. /\ erasure_length \in Nat /\ order \in Nat /\ locator[0] = 1
      /\ error_roots \in [0..(erasure_length - 1) -> 1..Top]
  BY <1>1 DEF IInv, RegisterInv, PlacesInv
<1>3. PICK roots \in SUBSET PossibleRoots :
        error_roots' = [k \in 0..(erasure_length + Cardinality(roots) - 1) |->
                          IF k < erasure_length THEN error_roots[k]
                          ELSE Nth(roots, k - erasure_length)]
  BY DEF factorize_error_locator
<1>4. roots \subseteq 1..Top
  BY <1>2, RootsNotZero
<1>5. IsFiniteSet(roots) /\ roots \subseteq Nat /\ Cardinality(roots) \in Nat
  <2>1. IsFiniteSet(1..Top)
    BY FieldSize, FS_Interval
  <2>2. IsFiniteSet(roots)
    BY <1>4, <2>1, FS_Subset
  <2>3. Cardinality(roots) \in Nat
    BY <2>2, FS_CardinalityType
  <2> QED
    BY <1>4, <2>2, <2>3
<1>6. ASSUME NEW k \in 0..(erasure_length + Cardinality(roots) - 1)
      PROVE  (IF k < erasure_length THEN error_roots[k] ELSE Nth(roots, k - erasure_length))
               \in 1..Top
  <2>1. CASE k < erasure_length
    <3>1. k \in 0..(erasure_length - 1)
      BY <1>2, <1>5, <2>1
    <3> QED
      BY <1>2, <2>1, <3>1
  <2>2. CASE ~(k < erasure_length)
    <3>1. k - erasure_length \in 0..(Cardinality(roots) - 1)
      BY <1>2, <1>5, <2>2
    <3>2. Nth(roots, k - erasure_length) \in roots
      BY <1>5, <3>1, NthRank
    <3> QED
      BY <1>4, <2>2, <3>2
  <2> QED
    BY <2>1, <2>2
<1>7. \A n \in DOMAIN error_roots' : error_roots'[n] \in 1..Top
  BY <1>3, <1>6
<1> QED
  BY <1>1, <1>7 DEF PlacesInv

\* Nothing is placed at first.
LEMMA PlacesStart == Init => PlacesInv
BY CodeAssumption DEF Init, PlacesInv

\* Every step keeps the invariant.
LEMMA PlacesKept ==
    ASSUME IInv, IInv', PlacesInv, [Next]_vars
    PROVE  PlacesInv'
<1>1. min_distance \in Nat /\ 0 \in 0..min_distance
  BY CodeAssumption, FieldSize
<1>2. CASE encode
  BY <1>2, EncodeKeepsPlaces
<1>3. CASE Damage
  BY <1>3, DamageKeepsPlaces
<1>4. CASE Refuse
  BY <1>4 DEF Refuse, call, PlacesInv
<1>5. CASE FindSyndromes
  <2>1. /\ pc = "decode" /\ msg' = msg /\ erasure_length' = erasure_length
        /\ error_roots' = erasure_roots
        /\ pc' \in {"locate", "done"}
        /\ pc' = "locate" => locator' = [NoPolynomial EXCEPT ![0] = 1] /\ delay_length' = 1
    BY <1>5 DEF FindSyndromes, call
  <2>2. [NoPolynomial EXCEPT ![0] = 1][0] = 1
    BY <1>1 DEF NoPolynomial
  <2>3. error_roots' \in [0..(erasure_length - 1) -> 1..Top]
    BY <2>1, ErasureRootsType
  <2>4. msg' \in Seq(Element)
    BY <2>1 DEF PlacesInv
  <2>5. ASSUME pc' = "locate"
        PROVE  /\ locator'[0] = 1 /\ delay_length' > 0
               /\ error_roots' \in [0..(erasure_length' - 1) -> 1..Top]
    <3>1. locator'[0] = 1
      BY <2>1, <2>2, <2>5
    <3>2. delay_length' > 0
      BY <2>1, <2>5
    <3>3. error_roots' \in [0..(erasure_length' - 1) -> 1..Top]
      <4>1. 0..(erasure_length' - 1) = 0..(erasure_length - 1)
        BY <2>1
      <4> QED
        BY <2>3, <4>1
    <3> QED
      BY <3>1, <3>2, <3>3
  <2> QED
    BY <2>1, <2>4, <2>5 DEF PlacesInv
<1>6. CASE find_error_locator
  <2>1. /\ pc = "locate" /\ pc' = "locate" /\ msg' = msg
        /\ erasure_length' = erasure_length /\ error_roots' = error_roots
        /\ delay_length' \in {1, delay_length + 1}
        /\ locator' \in {locator, Corrected}
    BY <1>6, Zenon DEF find_error_locator, NoDiscrepancy, LengthenLocator, AdjustLocator,
                       Locating, call
  <2>2. delay_length \in Nat /\ delay_length > 0 /\ last_order \in Nat /\ locator[0] = 1
    BY <2>1 DEF IInv, RegisterInv, PlacesInv
  <2>3. Corrected[0] = 1
    BY <2>2, CorrectedKeepsConstant
  <2> QED
    BY <2>1, <2>2, <2>3 DEF PlacesInv
<1>7. CASE factorize_error_locator
  BY <1>7, FactorizeKeepsPlaces
<1>8. CASE Correct
  BY <1>8 DEF Correct, call, PlacesInv
<1>9. CASE Done
  BY <1>9 DEF Done, vars, call, lfsr, PlacesInv
<1>10. CASE UNCHANGED vars
  BY <1>10 DEF vars, call, lfsr, PlacesInv
<1> QED
  BY <1>2, <1>3, <1>4, <1>5, <1>6, <1>7, <1>8, <1>9, <1>10 DEF Next

\* Every error the decoder corrects lies in the block (decode.c:204-217), for every field,
\* message and damage, and for every gap between the roots that reaches all elements.
THEOREM ErrorsLieInBlock == Spec => []LocationsInBlock
<1>1. Spec => [](IInv /\ PlacesInv)
  <2>1. Init => IInv /\ PlacesInv
    BY StartsInside, PlacesStart
  <2>2. IInv /\ PlacesInv /\ [Next]_vars => (IInv /\ PlacesInv)'
    BY StepInside, PlacesKept
  <2> QED
    BY <2>1, <2>2, PTL DEF Spec
<1>2. IInv /\ PlacesInv => LocationsInBlock
  <2> SUFFICES ASSUME PlacesInv, pc = "correct", NEW n \in DOMAIN error_roots
               PROVE  /\ error_roots[n] # 0
                      /\ find_error_location(error_roots[n]) \in 0..(block_length - 1)
    BY DEF LocationsInBlock
  <2>1. error_roots[n] \in 1..Top
    BY DEF PlacesInv
  <2>2. error_roots[n] # 0
    BY <2>1, FieldSize
  <2> QED
    BY <2>1, <2>2, LocationInBlock
<1> QED
  BY <1>1, <1>2, PTL

-----------------------------------------------------------------------------
(* The blocks that are sent. *)

\* The generator has order min_distance, leading coefficient 1 and its roots.
LEMMA GeneratorHasRoots ==
    /\ generator \in [0..min_distance -> Element]
    /\ generator[min_distance] = 1
    /\ \A k \in 0..(min_distance - 1) : /\ generator_roots[k] \in 1..Top
                                        /\ Value(generator, min_distance, generator_roots[k]) = 0
<1>0. /\ Top \in Nat /\ Top > 0 /\ min_distance \in Nat /\ min_distance > 0
      /\ first_consecutive_root \in Nat /\ generator_root_gap \in Nat
  BY FieldSize, CodeAssumption
<1>1. ASSUME NEW k \in 0..(min_distance - 1) PROVE generator_roots[k] \in 1..Top
  <2> DEFINE s == k + first_consecutive_root
             p == generator_root_gap * s
             r == p % Top
  <2>1. s \in Nat
    BY <1>0
  <2> HIDE DEF s
  <2>2. p \in Nat
    BY <1>0, <2>1
  <2> HIDE DEF p
  <2>3. r \in 0..(2 * Top)
    BY <1>0, <2>2
  <2>4. generator_roots[k] = exp[r]
    BY DEF generator_roots, p, s
  <2> HIDE DEF r
  <2> QED
    BY <2>3, <2>4, PowersGoRound
<1> QED
  BY <1>0, <1>1, CreatedHasRoots DEF generator

\* A message that fits, followed by its parity.
Coded(m) == m \o parity(m)
Fits(m) == m \in Seq(Element) /\ Len(m) <= message_length

\* It is a codeword: the parity is what is left of the message, which cancels it at the roots.
LEMMA CodedIsCodeword ==
    ASSUME NEW m, Fits(m), NEW k \in 0..(min_distance - 1)
    PROVE  /\ Coded(m) \in Seq(Element)
           /\ Len(Coded(m)) = Len(m) + min_distance
           /\ polynomial_eval([n \in 0..(Len(Coded(m)) - 1) |-> Coded(m)[Len(Coded(m)) - n]],
                              generator_roots[k]) = 0
<1> DEFINE d == min_distance
           l == Len(m)
           b == block_length - 1
           v == generator_roots[k]
           low == encoded_polynomial(m)
           rest == polynomial_mod(low, generator)
           p == parity(m)
           s == Coded(m)
           poly == [n \in 0..(l + d - 1) |-> s[l + d - n]]
           whole == [n \in 0..b |-> field_add(low[n], rest[n])]
<1>0. /\ Top \in Nat /\ d \in Nat /\ d > 0 /\ d <= b /\ b \in Nat /\ b = Top - 1
      /\ l \in Nat /\ l + d - 1 <= b /\ l + d - 1 \in Nat
      /\ m \in Seq(Element) /\ \A n \in 1..l : m[n] \in Element
  <2>1. /\ Top \in Nat /\ d \in 1..(Top - 1) /\ b = Top - 1
        /\ m \in Seq(Element) /\ l \in Nat /\ l <= Top - d
    BY FieldSize, CodeAssumption DEF block_length, message_length, Fits
  <2>2. \A n \in 1..l : m[n] \in Element
    BY <2>1
  <2> HIDE DEF d, b, l
  <2> QED
    BY <2>1, <2>2
<1>1. ASSUME NEW n \in 0..b
      PROVE  low[n] = IF n \in d..(l + d - 1) THEN m[l + d - n] ELSE 0
  <2> DEFINE place == block_length - 1 - n - pad_length(m)
  <2>1. /\ place = l + d - 1 - n
        /\ low[n] = IF place \in 0..(l - 1) THEN m[place + 1] ELSE 0
    <3>1. low[n] = IF place \in 0..(l - 1) THEN m[place + 1] ELSE 0
      BY DEF encoded_polynomial
    <3>2. place = Top - 1 - n - (Top - d - l)
      BY DEF block_length, pad_length, message_length
    <3> HIDE DEF d, b, l, place, low
    <3> QED
      BY <1>0, <3>1, <3>2
  <2> HIDE DEF place, d, l, b, low
  <2>2. place \in 0..(l - 1) <=> n \in d..(l + d - 1)
    BY <1>0, <2>1
  <2>3. place + 1 = l + d - n
    BY <1>0, <2>1
  <2> QED
    BY <2>1, <2>2, <2>3
<1>2. low \in [0..b -> Element]
  <2>1. ASSUME NEW n \in 0..b PROVE low[n] \in Element
    <3>1. n \in d..(l + d - 1) => l + d - n \in 1..l
      BY <1>0
    <3> HIDE DEF low, d, l, b
    <3> QED
      BY <1>0, <1>1, <3>1, ZeroAndOne
  <2> QED
    BY <2>1 DEF encoded_polynomial
<1>3. /\ generator \in [0..d -> Element] /\ generator[d] # 0
      /\ v \in 1..Top /\ Value(generator, d, v) = 0
  BY GeneratorHasRoots
<1>4. /\ rest \in [0..b -> Element] /\ \A n \in d..b : rest[n] = 0
      /\ Value(rest, b, v) = Value(low, b, v)
  <2> HIDE DEF d, b, v, low
  <2> QED
    BY <1>0, <1>2, <1>3, ModKeepsValues
<1>5. /\ Len(p) = d /\ p \in Seq(Element)
      /\ \A n \in 1..d : p[n] = rest[d - n]
  <2>1. p = [n \in 1..d |-> rest[d - n]]
    BY DEF parity
  <2> HIDE DEF p, rest, d, b
  <2>2. \A n \in 1..d : d - n \in 0..b
    BY <1>0
  <2>3. \A n \in 1..d : p[n] \in Element
    BY <1>4, <2>1, <2>2
  <2>4. p \in [1..d -> Element]
    BY <2>1, <2>3
  <2> QED
    BY <1>0, <2>1, <2>4
<1>6. /\ s \in Seq(Element) /\ Len(s) = l + d
      /\ \A n \in 1..(l + d) : s[n] = IF n <= l THEN m[n] ELSE p[n - l]
  <2>1. s = m \o p
    BY DEF Coded
  <2> HIDE DEF s, p
  <2> QED
    BY <1>0, <1>5, <2>1 DEF d, l
<1> HIDE DEF low, rest, p, s, d, l, b, v
<1>7. ASSUME NEW n \in 0..(l + d - 1)
      PROVE  /\ poly[n] = whole[n]
             /\ n \in 0..b
  <2>1. n \in 0..b /\ l + d - n \in 1..(l + d)
    BY <1>0
  <2>2. low[n] \in Element /\ rest[n] \in Element
    BY <1>2, <1>4, <2>1
  <2>3. CASE n < d
    <3>1. ~(l + d - n <= l) /\ (l + d - n) - l = d - n /\ d - n \in 1..d /\ d - (d - n) = n /\ n \notin d..(l + d - 1)
      BY <1>0, <2>3
    <3>2. s[l + d - n] = rest[n]
      BY <1>5, <1>6, <2>1, <3>1
    <3>3. low[n] = 0
      BY <1>1, <2>1, <3>1
    <3>4. field_add(0, rest[n]) = rest[n]
      BY <2>2, AddZero
    <3> QED
      BY <2>1, <3>2, <3>3, <3>4
  <2>4. CASE ~(n < d)
    <3>1. l + d - n <= l /\ n \in d..(l + d - 1) /\ n \in d..b
      BY <1>0, <2>1, <2>4
    <3>2. s[l + d - n] = m[l + d - n]
      BY <1>6, <2>1, <3>1
    <3>3. low[n] = m[l + d - n] /\ rest[n] = 0
      BY <1>1, <1>4, <2>1, <3>1
    <3>4. field_add(low[n], 0) = low[n]
      BY <2>2, AddZero
    <3> QED
      BY <2>1, <3>2, <3>3, <3>4
  <2> QED
    BY <2>3, <2>4
<1>8. Terms(low, b) /\ Terms(rest, b) /\ Terms(whole, b) /\ Terms(whole, l + d - 1)
  <2>1. \A n \in 0..b : low[n] \in Element /\ rest[n] \in Element
    BY <1>2, <1>4
  <2>2. \A n \in 0..b : whole[n] \in Element
    BY <2>1, AddBits
  <2>3. \A n \in 0..(l + d - 1) : n \in 0..b
    BY <1>7
  <2> HIDE DEF whole
  <2> QED
    BY <2>1, <2>2, <2>3 DEF Terms
<1>9. Value(whole, b, v) = 0
  <2>1. \A n \in 0..b : whole[n] = field_add(low[n], rest[n])
    OBVIOUS
  <2> HIDE DEF whole
  <2>2. Value(whole, b, v) = field_add(Value(low, b, v), Value(rest, b, v))
    BY <1>0, <1>3, <1>8, <2>1, ValueAdd
  <2>3. Value(low, b, v) \in Element
    BY <1>0, <1>3, <1>8, ValueTerms
  <2> QED
    BY <1>4, <2>2, <2>3, AddSelf
<1>10. Value(whole, b, v) = Value(whole, l + d - 1, v)
  <2>1. ASSUME NEW n \in 0..b, n > l + d - 1 PROVE whole[n] = 0
    <3>1. n \notin d..(l + d - 1) /\ n \in d..b
      BY <1>0, <2>1
    <3>2. low[n] = 0 /\ rest[n] = 0
      BY <1>1, <1>4, <3>1
    <3> QED
      BY <3>2, ZeroAndOne, AddZero
  <2> HIDE DEF whole
  <2> QED
    BY <1>0, <1>3, <1>8, <2>1, ValueTail
<1>11. Value(poly, l + d - 1, v) = Value(whole, l + d - 1, v)
  <2>1. \A n \in 0..(l + d - 1) : poly[n] = whole[n]
    BY <1>7
  <2> HIDE DEF poly, whole
  <2> QED
    BY <1>0, <2>1, ValueSame
<1>12. poly \in [0..(l + d - 1) -> Element]
  <2>1. \A n \in 0..(l + d - 1) : poly[n] \in Element
    <3> HIDE DEF poly, whole
    <3> QED
      BY <1>7, <1>8 DEF Terms
  <2> QED
    BY <2>1
<1>13. polynomial_eval(poly, v) = 0
  <2> HIDE DEF poly, whole
  <2> QED
    BY <1>0, <1>3, <1>9, <1>10, <1>11, <1>12, PolynomialEval
<1> DEFINE F(x) == [n \in 0..(x - 1) |-> s[x - n]]
<1>14. polynomial_eval(F(Len(s)), v) = 0
  <2>1. (l + d) - 1 = l + d - 1 /\ \A n \in 0..(l + d - 1) : (l + d) - n = l + d - n
    BY <1>0
  <2>2. poly = F(l + d)
    BY <2>1
  <2> HIDE DEF F, poly
  <2> QED
    BY <1>6, <1>13, <2>2
<1> QED
  BY <1>6, <1>14 DEF s, d, l, v

\* What is sent is a message that fits, followed by its parity.
CodewordInv ==
    /\ msg \in Seq(Element)
    /\ pc = "channel" => Fits(msg) /\ sent = Coded(msg)

\* Every step keeps what is sent a codeword.
LEMMA CodewordKept ==
    ASSUME CodewordInv, [Next]_vars
    PROVE  CodewordInv'
<1>0. msg' = msg /\ (pc' = "channel" => encode \/ (pc = "channel" /\ sent' = sent))
  <2>1. CASE encode
    BY <2>1 DEF encode
  <2>2. CASE Damage
    BY <2>2 DEF Damage
  <2>3. CASE Refuse
    BY <2>3 DEF Refuse, call
  <2>4. CASE FindSyndromes
    BY <2>4 DEF FindSyndromes, call
  <2>5. CASE find_error_locator
    BY <2>5, Zenon DEF find_error_locator, NoDiscrepancy, LengthenLocator, AdjustLocator,
                       Locating, call
  <2>6. CASE factorize_error_locator
    BY <2>6 DEF factorize_error_locator, call
  <2>7. CASE Correct
    BY <2>7 DEF Correct, call
  <2>8. CASE Done
    BY <2>8 DEF Done, vars, call
  <2>9. CASE UNCHANGED vars
    BY <2>9 DEF vars, call
  <2> QED
    BY <2>1, <2>2, <2>3, <2>4, <2>5, <2>6, <2>7, <2>8, <2>9 DEF Next
<1>1. msg' \in Seq(Element)
  BY <1>0 DEF CodewordInv
<1>2. CASE encode /\ pc' = "channel"
  <2>1. sent' = msg \o parity(msg) /\ ~(Len(msg) > message_length)
    BY <1>2 DEF encode
  <2>2. Len(msg) \in Nat /\ message_length \in Int
    <3>1. Top \in Nat /\ min_distance \in Nat
      BY FieldSize, CodeAssumption
    <3> QED
      BY <3>1 DEF CodewordInv, message_length, block_length
  <2>3. Fits(msg)
    BY <2>1, <2>2 DEF Fits, CodewordInv
  <2>4. Fits(msg)' /\ Coded(msg)' = Coded(msg)
    BY <1>0, <2>3 DEF Fits, Coded, parity, encoded_polynomial, pad_length
  <2> QED
    BY <1>1, <2>1, <2>4 DEF CodewordInv, Coded
<1>3. CASE pc = "channel" /\ sent' = sent
  <2>1. Fits(msg)' /\ Coded(msg)' = Coded(msg)
    BY <1>0, <1>3 DEF CodewordInv, Fits, Coded, parity, encoded_polynomial, pad_length
  <2> QED
    BY <1>1, <1>3, <2>1 DEF CodewordInv
<1>4. CASE pc' # "channel"
  BY <1>1, <1>4 DEF CodewordInv
<1> QED
  BY <1>0, <1>2, <1>3, <1>4

\* Every block that is sent has all roots of the generator (encode.c), for every field, code
\* and message.
THEOREM SendsCodewords == Spec => []SentIsCodeword
<1>1. Init => CodewordInv
  BY CodeAssumption DEF Init, CodewordInv
<1>2. CodewordInv /\ [Next]_vars => CodewordInv'
  BY CodewordKept
<1>3. CodewordInv => SentIsCodeword
  <2> SUFFICES ASSUME CodewordInv, pc = "channel", NEW k \in DOMAIN generator_roots
               PROVE  polynomial_eval([n \in 0..(Len(sent) - 1) |-> sent[Len(sent) - n]],
                                      generator_roots[k]) = 0
    BY DEF SentIsCodeword
  <2>1. k \in 0..(min_distance - 1)
    BY DEF generator_roots
  <2> QED
    BY <2>1, CodedIsCodeword DEF CodewordInv
<1> QED
  BY <1>1, <1>2, <1>3, PTL DEF Spec

-----------------------------------------------------------------------------
(* The syndromes. *)

\* The received block as a polynomial.
LEMMA ReceivedType ==
    ASSUME word \in Seq(Element), Len(word) <= block_length
    PROVE  Received \in [0..(block_length - 1) -> Element]
<1>0. Top \in Nat /\ Top > 0 /\ block_length = Top
  BY FieldSize DEF block_length
<1>1. ASSUME NEW k \in 0..(block_length - 1)
      PROVE  (IF k < Len(word) THEN word[Len(word) - k] ELSE 0) \in Element
  BY <1>0, ZeroAndOne
<1> QED
  BY <1>1 DEF Received

\* A syndrome is the value at a root of the generator.
LEMMA SyndromeIsValue ==
    ASSUME NEW p \in [0..(block_length - 1) -> Element], NEW k \in 0..(min_distance - 1)
    PROVE  /\ find_syndromes(p)[k] = Value(p, block_length - 1, generator_roots[k])
           /\ polynomial_eval(p, generator_roots[k]) = Value(p, block_length - 1, generator_roots[k])
           /\ Value(p, block_length - 1, generator_roots[k]) \in Element
<1> DEFINE b == block_length - 1
           v == generator_roots[k]
           e == generator_root_exp[k]
<1>0. b \in Nat /\ v \in 1..Top
  BY FieldSize, CodeAssumption, GeneratorHasRoots DEF block_length
<1>1. find_syndromes(p)[k] = polynomial_eval_lut(p, e)
  BY DEF find_syndromes
<1>2. e = polynomial_build_exp_lut(v, b)
  BY DEF generator_root_exp
<1>3. Terms(p, b)
  BY DEF Terms
<1> HIDE DEF b, v, e
<1>4. LogPowers(e, v, b)
  BY <1>0, <1>2, LutIsPowers
<1>5. p \in [0..b -> Element]
  BY DEF b
<1>6. polynomial_eval_lut(p, e) = Value(p, b, v)
  BY <1>0, <1>4, <1>5, EvalIsValue
<1>7. polynomial_eval(p, v) = Value(p, b, v) /\ Value(p, b, v) \in Element
  BY <1>0, <1>3, <1>5, PolynomialEval, ValueTerms
<1> QED
  BY <1>1, <1>6, <1>7 DEF b, v

\* The syndromes are elements.
LEMMA SyndromesType ==
    ASSUME word \in Seq(Element), Len(word) <= block_length
    PROVE  find_syndromes(Received) \in [0..(min_distance - 1) -> Element]
<1>1. Received \in [0..(block_length - 1) -> Element]
  BY ReceivedType
<1>2. \A k \in 0..(min_distance - 1) : find_syndromes(Received)[k] \in Element
  BY <1>1, SyndromeIsValue
<1>3. find_syndromes(Received) = [k \in 0..(min_distance - 1) |-> find_syndromes(Received)[k]]
  BY DEF find_syndromes
<1> QED
  BY <1>2, <1>3

\* So are those that are left when the erasures are accounted for.
LEMMA ModifiedSyndromesType ==
    ASSUME erasure_length \in Nat, erasure_length > 0,
           erasure_roots \in [0..(erasure_length - 1) -> 1..Top],
           NEW synd \in [0..(min_distance - 1) -> Element]
    PROVE  find_modified_syndromes(synd) \in [0..(min_distance - 1) -> Element]
<1> DEFINE p == erasure_locator
           m == polynomial_mul(p, synd, min_distance - 1)
<1>0. min_distance \in Nat /\ min_distance > 0 /\ Top \in Nat
  BY FieldSize, CodeAssumption
<1>1. p \in [0..erasure_length -> Element]
  <2>1. \A k \in 0..(erasure_length - 1) : erasure_roots[k] \in 1..Top
    OBVIOUS
  <2> QED
    BY <2>1, CreatedHasRoots DEF erasure_locator
<1> HIDE DEF p
<1>2. m \in [0..(min_distance - 1) -> Element]
  <2>1. /\ \A k \in DOMAIN p : p[k] \in Element
        /\ \A k \in DOMAIN synd : synd[k] \in Element
        /\ min_distance - 1 \in Nat
    BY <1>0, <1>1
  <2> QED
    BY <2>1, ProductType
<1>3. find_modified_syndromes(synd) =
        [k \in 0..(min_distance - 1) |->
            IF k + erasure_length < min_distance THEN m[k + erasure_length] ELSE synd[k]]
  BY DEF find_modified_syndromes, p
<1> HIDE DEF m
<1>4. ASSUME NEW k \in 0..(min_distance - 1)
      PROVE  (IF k + erasure_length < min_distance THEN m[k + erasure_length] ELSE synd[k])
               \in Element
  <2>1. k + erasure_length < min_distance => k + erasure_length \in 0..(min_distance - 1)
    BY <1>0
  <2> QED
    BY <1>2, <2>1
<1> QED
  BY <1>3, <1>4

-----------------------------------------------------------------------------
(* The locator describes the syndromes. *)

\* What the loop holds: the taps are as many as the order says, none follow them, and what
\* the last locator lacks to them is the delay.
TapsInv ==
    /\ syndromes \in [0..(min_distance - 1) -> Element]
    /\ locator \in [0..min_distance -> Element]
    /\ last_locator \in [0..min_distance -> Element]
    /\ last_discrepancy \in 1..Top
    /\ order = numerrors
    /\ last_order + delay_length + numerrors = i + 1
    /\ \A k \in 0..min_distance : k > numerrors => locator[k] = 0

\* The locator makes 0 of all syndromes read, the last locator of those before the round that
\* put it aside, and of the one read then the last discrepancy.
SumsInv ==
    /\ \A n \in numerrors..(i - 1) : Feedback(locator, syndromes, numerrors, n) = 0
    /\ \A n \in last_order..(i - delay_length - 1) :
          Feedback(last_locator, syndromes, last_order, n) = 0
    /\ i - delay_length >= 0 =>
          /\ last_order <= i - delay_length
          /\ Feedback(last_locator, syndromes, last_order, i - delay_length) = last_discrepancy

DescribesInv ==
    /\ pc = "decode" => word \in Seq(Element)
    /\ pc = "locate" => TapsInv /\ SumsInv

\* What a round starts from.
Ready ==
    /\ IInv /\ PlacesInv /\ TapsInv /\ SumsInv /\ Locating

\* The numbers a ready register gives.
LEMMA ReadyNumbers ==
    ASSUME Ready
    PROVE  /\ i \in Nat /\ numerrors \in Nat /\ delay_length \in Nat /\ last_order \in Nat
           /\ order \in Nat /\ min_distance \in Nat /\ Top \in Nat
           /\ i < min_distance /\ numerrors <= i /\ delay_length > 0 /\ order = numerrors
           /\ last_order + delay_length + numerrors = i + 1
           /\ locator[0] = 1
           /\ erasure_length \in Nat
           /\ 0 \in Element
<1>1. min_distance \in Nat /\ Top \in Nat /\ 0 \in Element
  BY FieldSize, CodeAssumption, ZeroAndOne
<1> QED
  BY <1>1 DEF Ready, IInv, RegisterInv, PlacesInv, TapsInv, Locating

\* Parts of the arrays are terms.
LEMMA ReadyTerms ==
    ASSUME Ready, NEW n \in 0..i
    PROVE  /\ Terms(syndromes, n) /\ Terms(locator, n)
           /\ \A m \in 0..min_distance : Terms(last_locator, m) /\ Terms(locator, m)
<1>1. /\ \A k \in 0..n : k \in 0..(min_distance - 1) /\ k \in 0..min_distance
      /\ \A m \in 0..min_distance : \A k \in 0..m : k \in 0..min_distance
  BY ReadyNumbers
<1> QED
  BY <1>1 DEF Ready, TapsInv, Terms

\* The discrepancy is what the locator makes of the next syndrome.
LEMMA DiscrepancyIs ==
    ASSUME Ready
    PROVE  /\ discrepancy = Feedback(locator, syndromes, numerrors, i)
           /\ discrepancy \in Element
<1> DEFINE t == [j \in 0..numerrors |-> field_mul(locator[j], syndromes[i - j])]
           r == [j \in 0..numerrors |->
                    IF j = 0 THEN syndromes[i] ELSE field_mul(locator[j], syndromes[i - j])]
<1>1. /\ i \in Nat /\ numerrors \in Nat /\ numerrors <= i /\ locator[0] = 1
      /\ numerrors \in 0..i /\ i \in 0..i
  BY ReadyNumbers
<1>2. Terms(locator, numerrors) /\ Terms(syndromes, i)
  BY <1>1, ReadyTerms
<1>3. Terms(t, numerrors) /\ Feedback(locator, syndromes, numerrors, i) \in Element
  BY <1>1, <1>2, FeedbackTerms
<1>4. ASSUME NEW j \in 0..numerrors PROVE r[j] = t[j]
  <2>1. CASE j = 0
    <3>1. syndromes[i] \in Element
      BY <1>1, <1>2 DEF Terms
    <3>2. field_mul(1, syndromes[i]) = syndromes[i]
      BY <3>1, MulOne
    <3>3. i - 0 = i
      BY <1>1
    <3> QED
      BY <1>1, <2>1, <3>2, <3>3
  <2>2. CASE j # 0
    BY <2>2
  <2> QED
    BY <2>1, <2>2
<1>5. SumTo(r, numerrors) = SumTo(t, numerrors)
  <2> HIDE DEF r, t
  <2> QED
    BY <1>1, <1>3, <1>4, SumToSame
<1> QED
  BY <1>3, <1>5 DEF discrepancy, Feedback

\* The corrected locator has elements for coefficients.
LEMMA CorrectedType ==
    ASSUME Ready
    PROVE  Corrected \in [0..min_distance -> Element]
<1>1. last_discrepancy \in 1..Top /\ discrepancy \in Element
  BY DiscrepancyIs DEF Ready, TapsInv
<1>2. last_order + delay_length \in 0..min_distance
  BY ReadyNumbers
<1> DEFINE fix(k) == field_div(field_mul(last_locator[k - delay_length], discrepancy),
                               last_discrepancy)
<1>3. ASSUME NEW k \in 0..min_distance, k - delay_length \in 0..last_order
      PROVE  fix(k) \in Element
  <2>1. k - delay_length \in 0..min_distance
    BY <1>2, <1>3, ReadyNumbers
  <2>2. last_locator[k - delay_length] \in Element
    BY <2>1 DEF Ready, TapsInv
  <2>3. field_mul(last_locator[k - delay_length], discrepancy) \in Element
    BY <1>1, <2>2, MulType
  <2> QED
    BY <1>1, <2>3, MulDivided
<1>4. Corrected = [k \in 0..min_distance |->
                      IF k - delay_length \in 0..last_order THEN field_add(locator[k], fix(k))
                                                           ELSE locator[k]]
  BY DEF Corrected
<1> HIDE DEF fix
<1>5. \A k \in 0..min_distance : locator[k] \in Element
  BY DEF Ready, TapsInv
<1>6. ASSUME NEW k \in 0..min_distance
      PROVE  (IF k - delay_length \in 0..last_order THEN field_add(locator[k], fix(k))
                                                   ELSE locator[k]) \in Element
  BY <1>3, <1>5, AddBits
<1> QED
  BY <1>4, <1>6

\* It has no taps behind the longer of the two.
LEMMA CorrectedTail ==
    ASSUME Ready, NEW l \in Nat, numerrors <= l, last_order + delay_length <= l,
           NEW k \in 0..min_distance, k > l
    PROVE  Corrected[k] = 0
<1>1. k - delay_length \notin 0..last_order /\ k > numerrors
  BY ReadyNumbers
<1>2. Corrected[k] = locator[k]
  BY <1>1 DEF Corrected
<1> QED
  BY <1>1, <1>2 DEF Ready, TapsInv

\* It makes 0 of the next syndrome, too.
LEMMA CorrectedDescribes ==
    ASSUME Ready, discrepancy # 0, NEW l \in Nat, numerrors <= l, last_order + delay_length <= l,
           NEW n \in l..i
    PROVE  Feedback(Corrected, syndromes, l, n) = 0
<1> DEFINE f == discrepancy
           q == last_discrepancy
           d == delay_length
           m == last_order
<1>0. /\ l <= n /\ n <= i /\ n \in Nat /\ n \in 0..i /\ m + d <= l /\ m \in Nat /\ d \in Nat
      /\ l \in 0..min_distance /\ m \in 0..min_distance
      /\ i - d >= 0 /\ n - d \in m..(i - d) /\ numerrors \in Nat
  BY ReadyNumbers
<1>1. f \in Element /\ q \in 1..Top /\ q \in Element /\ 0 \in Element
  BY DiscrepancyIs, ReadyNumbers, FieldSize DEF Ready, TapsInv
<1>2. Terms(locator, l) /\ Terms(last_locator, m) /\ Terms(syndromes, n)
  BY <1>0, ReadyTerms
<1>3. Corrects(Corrected, l, locator, last_locator, m, d, f, q)
  <2>1. \A k \in 0..l : k \in 0..min_distance
    BY <1>0, ReadyNumbers
  <2> QED
    BY <2>1 DEF Corrected, Corrects
<1> HIDE DEF f, q, d, m
<1>4. PICK x \in Element :
        /\ field_mul(q, x) = field_mul(f, Feedback(last_locator, syndromes, m, n - d))
        /\ Feedback(Corrected, syndromes, l, n)
             = field_add(Feedback(locator, syndromes, l, n), x)
  BY <1>0, <1>1, <1>2, <1>3, FeedbackCorrected
<1>5. Feedback(locator, syndromes, l, n) = Feedback(locator, syndromes, numerrors, n)
  <2>1. \A k \in 0..l : k > numerrors => locator[k] = 0
    BY <1>0, ReadyNumbers DEF Ready, TapsInv
  <2> QED
    BY <1>0, <1>2, <2>1, FeedbackTail
<1>6. CASE n = i
  <2>1. Feedback(locator, syndromes, l, n) = f
    BY <1>5, <1>6, DiscrepancyIs DEF f
  <2>2. Feedback(last_locator, syndromes, m, n - d) = q
    BY <1>0, <1>6 DEF Ready, SumsInv, m, d, q
  <2>3. field_mul(q, x) = field_mul(q, f)
    BY <1>1, <1>4, <2>2, MulCommutes
  <2>4. x = f
    BY <1>1, <1>4, <2>3, MulCancels
  <2> QED
    BY <1>1, <1>4, <2>1, <2>4, AddSelf
<1>7. CASE n # i
  <2>1. n \in numerrors..(i - 1) /\ n - d \in m..(i - d - 1)
    BY <1>0, <1>7, ReadyNumbers
  <2>2. Feedback(locator, syndromes, l, n) = 0
    BY <1>5, <2>1 DEF Ready, SumsInv
  <2>3. Feedback(last_locator, syndromes, m, n - d) = 0
    BY <2>1 DEF Ready, SumsInv, m, d
  <2>4. field_mul(q, x) = 0
    BY <1>1, <1>4, <2>3, MulIsTimes
  <2>5. q # 0
    BY <1>1, ReadyNumbers
  <2>6. x = 0
    BY <1>1, <1>4, <2>4, <2>5, MulType
  <2> QED
    BY <1>1, <1>4, <2>2, <2>6, AddSelf
<1> QED
  BY <1>6, <1>7

\* A round without discrepancy: the locator describes the next syndrome already.
LEMMA NoDiscrepancyDescribes ==
    ASSUME Ready, NoDiscrepancy
    PROVE  (TapsInv /\ SumsInv)'
<1>1. /\ discrepancy = 0 /\ i' = i + 1 /\ delay_length' = delay_length + 1
      /\ syndromes' = syndromes /\ locator' = locator /\ last_locator' = last_locator
      /\ last_discrepancy' = last_discrepancy /\ order' = order /\ last_order' = last_order
      /\ numerrors' = numerrors
  BY DEF NoDiscrepancy
<1>2. TapsInv'
  <2>1. /\ syndromes \in [0..(min_distance - 1) -> Element]
        /\ locator \in [0..min_distance -> Element]
        /\ last_locator \in [0..min_distance -> Element]
        /\ last_discrepancy \in 1..Top
        /\ order = numerrors
        /\ \A k \in 0..min_distance : k > numerrors => locator[k] = 0
    BY DEF Ready, TapsInv
  <2>2. last_order + (delay_length + 1) + numerrors = (i + 1) + 1
    BY ReadyNumbers
  <2> QED
    BY <1>1, <2>1, <2>2 DEF TapsInv
<1>3. ASSUME NEW n \in numerrors..i
      PROVE  Feedback(locator, syndromes, numerrors, n) = 0
  <2>1. CASE n = i
    BY <1>1, <2>1, DiscrepancyIs
  <2>2. CASE n # i
    <3>1. n \in numerrors..(i - 1)
      BY <2>2, ReadyNumbers
    <3> QED
      BY <3>1 DEF Ready, SumsInv
  <2> QED
    BY <2>1, <2>2
<1>4. (i + 1) - 1 = i /\ (i + 1) - (delay_length + 1) = i - delay_length
  BY ReadyNumbers
<1>5. /\ \A n \in last_order..(i - delay_length - 1) :
           Feedback(last_locator, syndromes, last_order, n) = 0
      /\ i - delay_length >= 0 =>
           /\ last_order <= i - delay_length
           /\ Feedback(last_locator, syndromes, last_order, i - delay_length) = last_discrepancy
  BY DEF Ready, SumsInv
<1>6. SumsInv'
  BY <1>1, <1>3, <1>4, <1>5 DEF SumsInv
<1> QED
  BY <1>2, <1>6

\* A round that lengthens the register puts the locator aside with its discrepancy.
LEMMA LengthenDescribes ==
    ASSUME Ready, LengthenLocator
    PROVE  (TapsInv /\ SumsInv)'
<1> DEFINE l == last_order + delay_length
<1>1. /\ discrepancy # 0 /\ 2 * numerrors <= i
      /\ i' = i + 1 /\ delay_length' = 1 /\ syndromes' = syndromes
      /\ locator' = Corrected /\ order' = l /\ last_order' = order
      /\ numerrors' = i + 1 - numerrors /\ last_discrepancy' = discrepancy
      /\ last_locator' = [k \in 0..min_distance |-> IF k <= l THEN locator[k] ELSE last_locator[k]]
  BY DEF LengthenLocator, RoomForTaps
<1>2. /\ l \in Nat /\ i \in Nat /\ numerrors \in Nat /\ i + 1 - numerrors = l /\ numerrors <= l
      /\ l <= i + 1 /\ numerrors <= i /\ l \in 0..min_distance
      /\ order = numerrors /\ min_distance \in Nat
  BY <1>1, ReadyNumbers
<1> HIDE DEF l
<1>3. discrepancy \in 1..Top
  <2>1. discrepancy \in Element \ {0}
    BY <1>1, DiscrepancyIs
  <2> QED
    BY <2>1, FieldSize
<1>4. TapsInv'
  <2>1. Corrected \in [0..min_distance -> Element]
    BY CorrectedType
  <2>2. \A k \in 0..min_distance : k > l => Corrected[k] = 0
    BY <1>2, CorrectedTail DEF l
  <2>3. last_locator' \in [0..min_distance -> Element]
    BY <1>1 DEF Ready, TapsInv
  <2>4. last_order' + delay_length' + numerrors' = i' + 1
    BY <1>1, <1>2
  <2>5. syndromes' \in [0..(min_distance - 1) -> Element]
    BY <1>1 DEF Ready, TapsInv
  <2> QED
    BY <1>1, <1>2, <1>3, <2>1, <2>2, <2>3, <2>4, <2>5 DEF TapsInv
<1>5. ASSUME NEW n \in l..i
      PROVE  Feedback(Corrected, syndromes, l, n) = 0
  BY <1>1, <1>2, CorrectedDescribes DEF l
<1>6. ASSUME NEW n \in numerrors..i
      PROVE  Feedback(last_locator', syndromes, numerrors, n)
               = Feedback(locator, syndromes, numerrors, n)
  <2> DEFINE t == [j \in 0..numerrors |-> field_mul(locator[j], syndromes[n - j])]
             r == [j \in 0..numerrors |-> field_mul(last_locator'[j], syndromes[n - j])]
  <2>1. \A j \in 0..numerrors : last_locator'[j] = locator[j]
    <3>1. \A j \in 0..numerrors : j \in 0..min_distance /\ j <= l
      BY <1>2
    <3> QED
      BY <1>1, <3>1
  <2>2. \A j \in 0..numerrors : r[j] = t[j]
    BY <2>1
  <2>3. numerrors \in 0..min_distance /\ n \in 0..i /\ n \in Nat /\ numerrors <= n
    BY <1>2
  <2>4. Terms(locator, numerrors) /\ Terms(syndromes, n)
    BY <2>3, ReadyTerms
  <2>5. Terms(t, numerrors)
    BY <1>2, <2>3, <2>4, FeedbackTerms
  <2>6. SumTo(r, numerrors) = SumTo(t, numerrors)
    <3> HIDE DEF r, t
    <3> QED
      BY <1>2, <2>2, <2>5, SumToSame
  <2> QED
    BY <2>6 DEF Feedback
<1>7. \A n \in numerrors..(i - 1) : Feedback(last_locator', syndromes, numerrors, n) = 0
  <2>1. \A n \in numerrors..(i - 1) : n \in numerrors..i
    BY <1>2
  <2>2. \A n \in numerrors..(i - 1) : Feedback(locator, syndromes, numerrors, n) = 0
    BY DEF Ready, SumsInv
  <2> QED
    BY <1>6, <2>1, <2>2
<1>8. Feedback(last_locator', syndromes, numerrors, i) = discrepancy
  <2>1. i \in numerrors..i
    BY <1>2
  <2> QED
    BY <1>6, <2>1, DiscrepancyIs
<1>9. (i + 1) - 1 = i
  BY <1>2
<1>10. SumsInv'
  BY <1>1, <1>2, <1>5, <1>7, <1>8, <1>9 DEF SumsInv
<1> QED
  BY <1>4, <1>10

\* A round that only adjusts the locator has taps enough for the last one.
LEMMA AdjustDescribes ==
    ASSUME Ready, AdjustLocator
    PROVE  (TapsInv /\ SumsInv)'
<1>0. /\ i \in Nat /\ numerrors \in Nat /\ order = numerrors /\ last_order + delay_length \in Nat
      /\ last_order + delay_length + numerrors = i + 1 /\ numerrors <= i /\ i < min_distance
      /\ min_distance \in Nat /\ delay_length \in Nat /\ last_order \in Nat
  BY ReadyNumbers
<1>1. /\ discrepancy # 0 /\ ~(2 * numerrors <= i)
      /\ i' = i + 1 /\ delay_length' = delay_length + 1 /\ syndromes' = syndromes
      /\ locator' = Corrected /\ last_order' = last_order /\ numerrors' = numerrors
      /\ order' = IF last_order + delay_length > order THEN last_order + delay_length ELSE order
      /\ last_discrepancy' = last_discrepancy /\ last_locator' = last_locator
  BY DEF AdjustLocator, RoomForTaps
<1>2. last_order + delay_length <= numerrors /\ order' = numerrors
  BY <1>0, <1>1
<1>3. TapsInv'
  <2>1. Corrected \in [0..min_distance -> Element]
    BY CorrectedType
  <2>2. \A k \in 0..min_distance : k > numerrors => Corrected[k] = 0
    BY <1>0, <1>2, CorrectedTail
  <2>3. last_order' + delay_length' + numerrors' = i' + 1
    BY <1>0, <1>1
  <2>4. /\ syndromes' \in [0..(min_distance - 1) -> Element]
        /\ last_locator' \in [0..min_distance -> Element]
        /\ last_discrepancy' \in 1..Top
    BY <1>1 DEF Ready, TapsInv
  <2> QED
    BY <1>1, <1>2, <2>1, <2>2, <2>3, <2>4 DEF TapsInv
<1>4. ASSUME NEW n \in numerrors..i
      PROVE  Feedback(Corrected, syndromes, numerrors, n) = 0
  BY <1>0, <1>1, <1>2, CorrectedDescribes
<1>5. /\ \A n \in last_order..(i - delay_length - 1) :
           Feedback(last_locator, syndromes, last_order, n) = 0
      /\ i - delay_length >= 0 =>
           /\ last_order <= i - delay_length
           /\ Feedback(last_locator, syndromes, last_order, i - delay_length) = last_discrepancy
  BY DEF Ready, SumsInv
<1>6. (i + 1) - 1 = i /\ (i + 1) - (delay_length + 1) = i - delay_length
  BY <1>0
<1>7. SumsInv'
  BY <1>1, <1>4, <1>5, <1>6 DEF SumsInv
<1> QED
  BY <1>3, <1>7

\* Before the first round nothing has been read.
LEMMA StartDescribes ==
    ASSUME IInv, PlacesInv, DescribesInv, FindSyndromes, pc' = "locate"
    PROVE  (TapsInv /\ SumsInv)'
<1>0. min_distance \in Nat /\ min_distance > 0 /\ Top \in Nat /\ Top > 0 /\ 0 \in Element /\ 1 \in Element
  BY FieldSize, CodeAssumption, ZeroAndOne
<1>1. /\ pc = "decode" /\ Len(word) <= block_length
      /\ syndromes' = IF erasure_length = 0 THEN find_syndromes(Received)
                                            ELSE find_modified_syndromes(find_syndromes(Received))
      /\ locator' = [NoPolynomial EXCEPT ![0] = 1] /\ order' = 0
      /\ last_locator' = [NoPolynomial EXCEPT ![0] = 1] /\ last_order' = 0
      /\ i' = 0 /\ numerrors' = 0 /\ delay_length' = 1 /\ last_discrepancy' = 1
  BY DEF FindSyndromes
<1>2. find_syndromes(Received) \in [0..(min_distance - 1) -> Element]
  BY <1>1, SyndromesType DEF DescribesInv
<1>3. erasure_length \in Nat /\ erasure_roots \in [0..(erasure_length - 1) -> 1..Top]
  BY <1>1, ErasureRootsType DEF IInv
<1>4. syndromes' \in [0..(min_distance - 1) -> Element]
  BY <1>1, <1>2, <1>3, ModifiedSyndromesType
<1>5. /\ locator' \in [0..min_distance -> Element] /\ last_locator' \in [0..min_distance -> Element]
      /\ \A k \in 0..min_distance : k > 0 => locator'[k] = 0
  BY <1>0, <1>1 DEF NoPolynomial
<1>6. TapsInv'
  BY <1>0, <1>1, <1>4, <1>5 DEF TapsInv
<1>7. SumsInv'
  <2>1. 0..(0 - 1) = {} /\ 0..(0 - 1 - 1) = {} /\ ~(0 - 1 >= 0)
    OBVIOUS
  <2> QED
    BY <1>1, <2>1 DEF SumsInv
<1> QED
  BY <1>6, <1>7

\* A damaged block still consists of elements.
LEMMA DamageKeepsElements ==
    ASSUME CodewordInv, Damage
    PROVE  word' \in Seq(Element)
<1>1. sent \in Seq(Element)
  <2>1. 0 \in 0..(min_distance - 1)
    BY FieldSize, CodeAssumption
  <2> QED
    BY <2>1, CodedIsCodeword DEF Damage, CodewordInv
<1>2. PICK bad, error :
        /\ error \in [bad -> ErrorValues]
        /\ word' = [k \in DOMAIN sent |->
                      IF k \in bad THEN field_add(sent[k], error[k]) ELSE sent[k]]
  BY Zenon DEF Damage
<1>3. ASSUME NEW k \in DOMAIN sent
      PROVE  (IF k \in bad THEN field_add(sent[k], error[k]) ELSE sent[k]) \in Element
  <2>1. sent[k] \in Element
    BY <1>1
  <2>2. k \in bad => error[k] \in Element
    BY <1>2, CodeAssumption DEF CodeAssumption
  <2> QED
    BY <2>1, <2>2, AddBits
<1>4. PICK n \in Nat : DOMAIN sent = 1..n
  BY <1>1
<1>5. word' \in [1..n -> Element]
  BY <1>2, <1>3, <1>4
<1> QED
  BY <1>5

\* Every step keeps the description.
LEMMA DescribesKept ==
    ASSUME IInv, PlacesInv, CodewordInv, DescribesInv, [Next]_vars
    PROVE  DescribesInv'
<1>1. CASE encode
  BY <1>1 DEF encode, DescribesInv
<1>2. CASE Damage
  <2>1. pc' = "decode"
    BY <1>2 DEF Damage
  <2>2. word' \in Seq(Element)
    BY <1>2, DamageKeepsElements
  <2> QED
    BY <2>1, <2>2 DEF DescribesInv
<1>3. CASE Refuse
  BY <1>3 DEF Refuse, DescribesInv
<1>4. CASE FindSyndromes
  <2>1. pc' \in {"done", "locate"}
    BY <1>4 DEF FindSyndromes
  <2>2. pc' = "locate" => (TapsInv /\ SumsInv)'
    BY <1>4, StartDescribes
  <2> QED
    BY <2>1, <2>2 DEF DescribesInv
<1>5. CASE find_error_locator
  <2>1. Locating /\ pc' = pc
    BY <1>5, Zenon DEF find_error_locator, NoDiscrepancy, LengthenLocator, AdjustLocator
  <2>2. pc = "locate"
    BY <2>1 DEF Locating
  <2>3. Ready
    BY <2>1, <2>2 DEF Ready, DescribesInv
  <2>4. (TapsInv /\ SumsInv)'
    BY <1>5, <2>3, NoDiscrepancyDescribes, LengthenDescribes, AdjustDescribes
       DEF find_error_locator
  <2> QED
    BY <2>1, <2>2, <2>4 DEF DescribesInv
<1>6. CASE factorize_error_locator
  BY <1>6 DEF factorize_error_locator, DescribesInv
<1>7. CASE Correct
  BY <1>7 DEF Correct, DescribesInv
<1>8. CASE Done \/ UNCHANGED vars
  <2>1. pc' = pc /\ word' = word /\ UNCHANGED <<syndromes, lfsr>>
    BY <1>8 DEF Done, vars, call
  <2>2. TapsInv /\ SumsInv => (TapsInv /\ SumsInv)'
    BY <2>1 DEF lfsr, TapsInv, SumsInv
  <2> QED
    BY <2>1, <2>2 DEF DescribesInv
<1> QED
  BY <1>1, <1>2, <1>3, <1>4, <1>5, <1>6, <1>7, <1>8 DEF Next

\* The rounds of find_error_locator do what Berlekamp and Massey promise (decode.c:30-118):
\* after each of them the locator describes all syndromes read, for every field, code, message
\* and damage, with erasures and without.
THEOREM LocatorDescribes == Spec => []LocatorDescribesSyndromes
<1> DEFINE All == IInv /\ PlacesInv /\ CodewordInv /\ DescribesInv
<1>1. Init => All
  <2>1. Init => CodewordInv /\ DescribesInv
    BY CodeAssumption DEF Init, CodewordInv, DescribesInv
  <2> QED
    BY <2>1, StartsInside, PlacesStart
<1>2. All /\ [Next]_vars => All'
  BY StepInside, PlacesKept, CodewordKept, DescribesKept
<1>3. All => LocatorDescribesSyndromes
  BY DEF DescribesInv, SumsInv, Feedback, LocatorDescribesSyndromes
<1> QED
  BY <1>1, <1>2, <1>3, PTL DEF Spec

\* Raised to its place, a root of the generator is a power of the reciprocal.
LEMMA PlaceOfRoot ==
    ASSUME NEW root \in 1..Top, NEW k \in 0..(min_distance - 1)
    PROVE  field_pow(generator_roots[k], find_error_location(root))
             = field_pow(field_div(1, root), k + first_consecutive_root)
<1> DEFINE loc == field_div(1, root)
           e == Min(matches(loc))
           place == find_error_location(root)
           gap == generator_root_gap
           s == k + first_consecutive_root
           p == gap * s
           q == place * gap
           alpha == exp[1]
<1>0. Top \in Nat /\ Top > 0 /\ gap \in Nat /\ first_consecutive_root \in Nat /\ min_distance \in Nat
  BY FieldSize, CodeAssumption
<1>1. place \in Nat
  BY <1>0, LocationInBlock DEF block_length
<1>2. place = log[e] /\ field_pow(e, gap) = loc
  <2>1. e \in matches(loc)
    BY LeastMatch
  <2> HIDE DEF e, loc
  <2>2. field_pow(e, gap) = loc
    BY <2>1 DEF matches
  <2> QED
    BY <2>2 DEF find_error_location, e, loc
<1>3. loc = exp[q % Top]
  BY <1>2 DEF field_pow
<1>4. generator_roots[k] = exp[p % Top]
  BY DEF generator_roots
<1>5. s \in Nat /\ p \in Nat /\ q \in Nat /\ p * place = q * s
  <2> HIDE DEF place, gap, s
  <2>1. s \in Nat
    BY <1>0 DEF s
  <2> QED
    BY <1>0, <1>1, <2>1
<1> HIDE DEF p, q, s, e, loc, place, gap, alpha
<1>6. alpha \in 1..Top /\ loc = field_pow(alpha, q) /\ generator_roots[k] = field_pow(alpha, p)
  BY <1>3, <1>4, <1>5, ExpIsPow DEF alpha
<1>7. field_pow(field_pow(alpha, p), place) = field_pow(alpha, p * place)
  BY <1>1, <1>5, <1>6, PowOfPow
<1>8. field_pow(field_pow(alpha, q), s) = field_pow(alpha, q * s)
  BY <1>5, <1>6, PowOfPow
<1> QED
  BY <1>5, <1>6, <1>7, <1>8 DEF loc, place, s

\* A row of element_exp holds the powers of its element.
LEMMA RowIsPowers ==
    ASSUME NEW e \in 1..Top
    PROVE  LogPowers(element_exp[e], e, min_distance - 1)
<1>0. min_distance - 1 \in Nat /\ e \in Element
  BY FieldSize, CodeAssumption
<1>1. element_exp[e] = polynomial_build_exp_lut(e, min_distance - 1)
  BY <1>0 DEF element_exp
<1> QED
  BY <1>0, <1>1, LutIsPowers

\* As long as the locator fits its rows, the search finds its roots.
LEMMA SearchIsExact ==
    ASSUME TapsInv, order \in Nat, order < min_distance, locator[0] = 1
    PROVE  /\ PossibleRoots = SureRoots
           /\ \A e : e \in PossibleRoots <=> e \in 1..Top /\ Value(locator, order, e) = 0
<1>0. min_distance \in Nat /\ Element \ {0} = 1..Top
  BY CodeAssumption, FieldSize
<1>1. Terms(locator, order)
  BY <1>0 DEF TapsInv, Terms
<1>2. ~ReadsBehindRow
  BY <1>0 DEF ReadsBehindRow
<1>3. PossibleRoots = SureRoots
  BY <1>2 DEF PossibleRoots
<1>4. PossibleRoots \subseteq 1..Top
  BY RootsNotZero
<1>5. ASSUME NEW e \in 1..Top
      PROVE  polynomial_eval_log_lut(error_locator_log, element_exp[e]) = Value(locator, order, e)
  <2> DEFINE lut == element_exp[e]
  <2>1. LogPowers(lut, e, order)
    <3>1. LogPowers(lut, e, min_distance - 1)
      BY RowIsPowers
    <3>2. \A k \in 0..order : k \in 0..(min_distance - 1)
      BY <1>0
    <3> QED
      BY <3>1, <3>2 DEF LogPowers
  <2>2. error_locator_log = [k \in 0..order |-> log[locator[k]]]
    BY DEF error_locator_log
  <2> HIDE DEF lut
  <2> QED
    BY <1>1, <2>1, <2>2, EvalLogIsValue DEF lut
<1>6. \A e \in 1..Top : e \in SureRoots <=> Value(locator, order, e) = 0
  <2>1. \A e \in 1..Top : e \in SureRoots
                            <=> polynomial_eval_log_lut(error_locator_log, element_exp[e]) = 0
    BY <1>0, <1>2 DEF SureRoots
  <2> QED
    BY <1>5, <2>1
<1> QED
  BY <1>3, <1>4, <1>6

\* As long as nothing is erased, the syndromes are those of the block received, and not all 0.
\* What the search hands over is a locator that describes them, and all its roots.
Located ==
    /\ order \in 1..(min_distance - 1)
    /\ locator \in [0..min_distance -> Element]
    /\ locator[0] = 1
    /\ \A k \in 0..min_distance : k > order => locator[k] = 0
    /\ \A k \in order..(min_distance - 1) : Feedback(locator, syndrome_copy, order, k) = 0
    /\ Different(error_roots, order - 1)
    /\ \A m \in 0..(order - 1) : Value(locator, order, error_roots[m]) = 0

DecodedInv ==
    /\ pc \in {"locate", "correct"} =>
          /\ received \in [0..(block_length - 1) -> Element]
          /\ syndrome_copy = find_syndromes(received)
    /\ pc = "locate" /\ erasure_length = 0 =>
          /\ syndromes = syndrome_copy
          /\ \E k \in 0..(min_distance - 1) : syndromes[k] # 0
    /\ pc = "correct" /\ erasure_length = 0 /\ order < min_distance => Located
    /\ SuccessIsCodeword

\* The order is not 0 when the locator describes syndromes that are not all 0.
LEMMA OrderNotZero ==
    ASSUME TapsInv, SumsInv, locator[0] = 1, order \in Nat, i = min_distance,
           NEW k \in 0..(min_distance - 1), syndromes[k] # 0
    PROVE  order > 0
<1> SUFFICES ASSUME order = 0 PROVE FALSE
  OBVIOUS
<1> DEFINE f == [j \in 0..0 |-> field_mul(locator[j], syndromes[k - j])]
<1>0. min_distance \in Nat /\ k - 0 = k /\ syndromes[k] \in Element /\ numerrors = 0
  BY CodeAssumption DEF TapsInv
<1>1. Feedback(locator, syndromes, 0, k) = 0
  BY <1>0 DEF SumsInv
<1>2. f[0] = syndromes[k]
  BY <1>0, MulOne
<1>3. Feedback(locator, syndromes, 0, k) = SumTo(f, 0)
  BY DEF Feedback
<1>4. Terms(f, 0)
  BY <1>0, <1>2 DEF Terms
<1> HIDE DEF f
<1>5. SumTo(f, 0) = f[0]
  BY <1>4, SumToUnfolds
<1> QED
  BY <1>1, <1>2, <1>3, <1>5

\* The search ends with the locator described and its roots found.
LEMMA FactorizeLocates ==
    ASSUME IInv, PlacesInv, DescribesInv, DecodedInv, factorize_error_locator,
           pc' = "correct", erasure_length = 0, order < min_distance
    PROVE  Located'
<1>1. /\ pc = "locate" /\ i >= min_distance
      /\ UNCHANGED <<order, locator, syndrome_copy>>
  <2>1. min_distance - 0 = min_distance
    BY CodeAssumption
  <2> QED
    BY <2>1 DEF factorize_error_locator, lfsr
<1>2. PICK roots \in SUBSET PossibleRoots :
        /\ error_roots' = [k \in 0..(erasure_length + Cardinality(roots) - 1) |->
                             IF k < erasure_length THEN error_roots[k]
                             ELSE Nth(roots, k - erasure_length)]
        /\ EnoughRoots(roots)
  BY DEF factorize_error_locator
<1>3. /\ TapsInv /\ SumsInv /\ order \in Nat /\ order = numerrors /\ locator[0] = 1
      /\ i = min_distance /\ min_distance \in Nat
      /\ syndromes = syndrome_copy
  BY <1>1, CodeAssumption DEF IInv, RegisterInv, PlacesInv, DescribesInv, TapsInv, DecodedInv
<1>4. order \in 1..(min_distance - 1)
  <2>1. PICK k \in 0..(min_distance - 1) : syndromes[k] # 0
    BY <1>1 DEF DecodedInv
  <2>2. order > 0
    BY <1>3, <2>1, OrderNotZero
  <2> QED
    BY <1>3, <2>2
<1>5. roots \subseteq 1..Top /\ \A e \in roots : Value(locator, order, e) = 0
  BY <1>2, <1>3, SearchIsExact
<1>6. IsFiniteSet(roots) /\ roots \subseteq Nat /\ Cardinality(roots) = order
  <2>1. IsFiniteSet(1..Top)
    BY FieldSize, FS_Interval
  <2>2. IsFiniteSet(roots)
    BY <1>5, <2>1, FS_Subset
  <2>3. roots \subseteq Nat
    BY <1>5, FieldSize
  <2> QED
    BY <1>2, <2>2, <2>3 DEF EnoughRoots
<1>7. error_roots' = [k \in 0..(order - 1) |-> Nth(roots, k)]
  <2>1. /\ 0 + order - 1 = order - 1
        /\ \A k \in 0..(order - 1) : ~(k < 0) /\ k - 0 = k
    BY <1>4
  <2> QED
    BY <1>2, <1>6, <2>1
<1>8. ASSUME NEW k \in 0..(order - 1)
      PROVE  /\ error_roots'[k] \in roots
             /\ Cardinality({d \in roots : d < error_roots'[k]}) = k
  <2>1. Nth(roots, k) \in roots /\ Cardinality({d \in roots : d < Nth(roots, k)}) = k
    BY <1>6, NthRank
  <2> QED
    BY <1>7, <2>1
<1>9. Different(error_roots', order - 1)
  <2>1. error_roots' \in [0..(order - 1) -> 1..Top]
    <3>1. \A k \in 0..(order - 1) : error_roots'[k] \in 1..Top
      BY <1>5, <1>8
    <3> QED
      BY <1>7, <3>1
  <2>2. ASSUME NEW k \in 0..(order - 1), NEW j \in 0..(order - 1), error_roots'[k] = error_roots'[j]
        PROVE  k = j
    BY <1>8, <2>2
  <2> QED
    BY <2>1, <2>2 DEF Different
<1>10. \A m \in 0..(order - 1) : Value(locator, order, error_roots'[m]) = 0
  BY <1>5, <1>8
<1>11. \A k \in order..(min_distance - 1) : Feedback(locator, syndrome_copy, order, k) = 0
  BY <1>3 DEF SumsInv
<1>12. locator \in [0..min_distance -> Element] /\ \A k \in 0..min_distance : k > order => locator[k] = 0
  BY <1>3 DEF TapsInv
<1> QED
  BY <1>1, <1>3, <1>4, <1>9, <1>10, <1>11, <1>12 DEF Located

-----------------------------------------------------------------------------
(* Forney's values. *)

Evaluator == polynomial_mul(whole_locator, syndrome_copy, min_distance - 1)
Derivative == polynomial_formal_derivative(whole_locator, Order(whole_locator) - 1)

\* What find_error_values divides for a root.
Share(root) == field_div(polynomial_eval_lut(Evaluator, element_exp[root]),
                             polynomial_eval_lut(Derivative, element_exp[root]))

\* Forney's polynomials for the whole locator.
LEMMA WholeEvaluates ==
    ASSUME NEW t \in Nat, t > 0, t <= min_distance, min_distance \in Nat,
           NEW c, Terms(c, min_distance), \A k \in 0..min_distance : k > t => c[k] = 0,
           DOMAIN whole_locator = 0..t, \A k \in 0..t : whole_locator[k] = c[k],
           syndrome_copy \in [0..(min_distance - 1) -> Element]
    PROVE  /\ \A k \in 0..(min_distance - 1) : /\ Evaluator[k] \in Element
                                               /\ Evaluator[k] = Feedback(c, syndrome_copy, k, k)
           /\ Evaluator \in [0..(min_distance - 1) -> Element]
           /\ Derivative \in [0..(t - 1) -> Element]
           /\ \A k \in 0..(t - 1) : Derivative[k] = field_sum(c[k + 1], k + 1)
<1> DEFINE n == min_distance - 1
           p == whole_locator
           s == syndrome_copy
<1>0. /\ n \in Nat /\ t - 1 \in Nat /\ 0 \in Element
      /\ \A k \in 0..n : k \in 0..min_distance /\ s[k] \in Element
      /\ \A k \in 0..t : k \in 0..min_distance /\ p[k] = c[k] /\ p[k] \in Element
      /\ \A k \in 0..min_distance : c[k] \in Element /\ (k > t => c[k] = 0)
      /\ DOMAIN p = 0..t /\ DOMAIN s = 0..n
  BY ZeroAndOne DEF Terms
<1>00. p = whole_locator /\ s = syndrome_copy
  OBVIOUS
<1> HIDE DEF p, s
<1>1. Order(p) = t
  BY <1>0, OrderOf
<1>2. Evaluator \in [0..n -> Element]
  <2>1. \A k \in DOMAIN p : p[k] \in Element
    BY <1>0
  <2>2. \A k \in DOMAIN s : s[k] \in Element
    BY <1>0
  <2>3. polynomial_mul(p, s, n) \in [0..n -> Element]
    BY <1>0, <2>1, <2>2, ProductType
  <2> QED
    BY <1>00, <2>3 DEF Evaluator
<1>3. ASSUME NEW k \in 0..n PROVE Evaluator[k] = Feedback(c, s, k, k)
  <2> DEFINE f == [j \in 0..k |-> IF j \in DOMAIN p /\ k - j \in DOMAIN s
                                  THEN field_mul(p[j], s[k - j]) ELSE 0]
             g == [j \in 0..k |-> field_mul(c[j], s[k - j])]
  <2>1. ASSUME NEW j \in 0..k PROVE f[j] = g[j]
    <3>1. k - j \in DOMAIN s /\ s[k - j] \in Element /\ j \in 0..min_distance
      BY <1>0
    <3>2. CASE j \in 0..t
      BY <1>0, <3>1, <3>2
    <3>3. CASE ~(j \in 0..t)
      <4>1. j > t /\ c[j] = 0
        BY <1>0, <3>1, <3>3
      <4> QED
        BY <1>0, <3>1, <3>3, <4>1, MulIsTimes
    <3> QED
      BY <3>2, <3>3
  <2>2. f = g
    BY <2>1
  <2>3. Evaluator[k] = SumTo(f, k)
    BY <1>0, <1>00 DEF Evaluator, polynomial_mul
  <2>4. Feedback(c, s, k, k) = SumTo(g, k)
    BY DEF Feedback
  <2> HIDE DEF f, g
  <2> QED
    BY <2>2, <2>3, <2>4
<1>4. Derivative = [k \in 0..(t - 1) |-> field_sum(p[k + 1], k + 1)]
  BY <1>0, <1>00, <1>1 DEF Derivative, polynomial_formal_derivative
<1>5. ASSUME NEW k \in 0..(t - 1)
      PROVE  Derivative[k] = field_sum(c[k + 1], k + 1) /\ Derivative[k] \in Element
  <2>1. k + 1 \in 0..t
    BY <1>0
  <2>2. Derivative[k] = field_sum(c[k + 1], k + 1)
    BY <1>0, <1>4, <2>1
  <2> QED
    BY <1>0, <2>1, <2>2 DEF field_sum
<1> QED
  BY <1>00, <1>2, <1>3, <1>4, <1>5

\* Without erasures the whole locator is that of the errors.
LEMMA WholeIsLocator ==
    ASSUME Located, erasure_length = 0, syndrome_copy \in [0..(min_distance - 1) -> Element]
    PROVE  /\ \A k \in 0..(min_distance - 1) : /\ Evaluator[k] \in Element
                                               /\ Evaluator[k] = Feedback(locator, syndrome_copy, k, k)
           /\ Evaluator \in [0..(min_distance - 1) -> Element]
           /\ Derivative \in [0..(order - 1) -> Element]
           /\ \A k \in 0..(order - 1) : Derivative[k] = field_sum(locator[k + 1], k + 1)
<1>1. PICK t : t = order
  OBVIOUS
<1>2. PICK c : c = locator
  OBVIOUS
<1>3. /\ t \in Nat /\ t > 0 /\ t <= min_distance /\ min_distance \in Nat
      /\ Terms(c, min_distance) /\ \A k \in 0..min_distance : k > t => c[k] = 0
  BY <1>1, <1>2, CodeAssumption DEF Located, Terms
<1>4. whole_locator = [k \in 0..t |-> c[k]]
  BY <1>1, <1>2 DEF whole_locator
<1>5. DOMAIN whole_locator = 0..t /\ \A k \in 0..t : whole_locator[k] = c[k]
  BY <1>4
<1> QED
  BY <1>1, <1>2, <1>3, <1>5, WholeEvaluates

\* The locator has as many roots as its order says.
LEMMA LocatorSplits ==
    ASSUME Located
    PROVE  Splits(locator, order, error_roots, min_distance - 1)
<1>1. \A k \in 0..(min_distance - 1) : k \in 0..min_distance
  BY CodeAssumption
<1> QED
  BY <1>1 DEF Located, Splits, Terms

\* The quotient is the derivative's weight.
LEMMA QuotientWeighs ==
    ASSUME Located, erasure_length = 0, syndrome_copy \in [0..(min_distance - 1) -> Element]
    PROVE  Weighs([m \in 0..(order - 1) |-> Share(error_roots[m])], Evaluator, Derivative,
                  locator, syndrome_copy, error_roots, order, min_distance - 1)
<1> DEFINE n == min_distance - 1
           l == order - 1
           w == [m \in 0..l |-> Share(error_roots[m])]
<1>0. /\ n \in Nat /\ order \in Nat /\ order > 0 /\ order <= n /\ l \in Nat
      /\ \A m \in 0..l : error_roots[m] \in 1..Top
      /\ \A k \in 0..l : k \in 0..n
      /\ Splits(locator, order, error_roots, n)
  BY CodeAssumption, LocatorSplits DEF Located, Different
<1>1. /\ \A k \in 0..n : Evaluator[k] = Feedback(locator, syndrome_copy, k, k)
      /\ Evaluator \in [0..n -> Element]
      /\ Derivative \in [0..l -> Element]
      /\ \A k \in 0..l : Derivative[k] = field_sum(locator[k + 1], k + 1)
  BY WholeIsLocator
<1>2. ASSUME NEW m \in 0..l
      PROVE  /\ w[m] \in Element
             /\ field_mul(w[m], Value(Derivative, l, error_roots[m])) = Value(Evaluator, n, error_roots[m])
  <2> DEFINE r == error_roots[m]
             d == Value(Derivative, l, r)
             e == Value(Evaluator, n, r)
  <2>1. r \in 1..Top
    BY <1>0
  <2>2. LogPowers(element_exp[r], r, n) /\ LogPowers(element_exp[r], r, l)
    <3>1. LogPowers(element_exp[r], r, n)
      BY <2>1, RowIsPowers
    <3> QED
      BY <1>0, <3>1 DEF LogPowers
  <2>3. polynomial_eval_lut(Evaluator, element_exp[r]) = e
    <3> HIDE DEF n, l, r
    <3> QED
      BY <1>0, <1>1, <2>1, <2>2, EvalIsValue
  <2>4. polynomial_eval_lut(Derivative, element_exp[r]) = d
    <3> HIDE DEF n, l, r
    <3> QED
      BY <1>0, <1>1, <2>1, <2>2, EvalIsValue
  <2>5. w[m] = field_div(e, d)
    BY <2>3, <2>4 DEF Share
  <2>6. d \in 1..Top
    <3>1. PICK q : Divided(q, locator, order, error_roots, n)
      BY <1>0, DividedExists
    <3> QED
      BY <1>0, <1>1, <3>1, DerivativeIsQuotient
  <2>7. e \in Element
    <3>1. Terms(Evaluator, n)
      BY <1>1 DEF Terms
    <3> HIDE DEF n, r
    <3> QED
      BY <1>0, <2>1, <3>1, ValueTerms
  <2> HIDE DEF d, e, w
  <2>8. field_div(e, d) \in Element /\ field_mul(d, field_div(e, d)) = e
    BY <2>6, <2>7, MulDivided
  <2>9. d \in Element
    BY <2>6, FieldSize
  <2>10. field_mul(w[m], d) = e /\ w[m] \in Element
    BY <2>5, <2>8, <2>9, MulCommutes
  <2> QED
    BY <2>10 DEF d, e
<1> HIDE DEF w
<1>3. Terms(w, l)
  BY <1>2 DEF Terms
<1> QED
  BY <1>1, <1>2, <1>3 DEF Weighs, w

\* The values of Correct and their places.
Values == find_error_values(whole_locator, syndrome_copy)
Places == [n \in DOMAIN error_roots |-> find_error_location(error_roots[n])]

\* They are put into the block.
LEMMA CorrectPlaces ==
    ASSUME Located, erasure_length = 0, Correct, received \in [0..(block_length - 1) -> Element],
           Terms(Values, order - 1)
    PROVE  /\ Filled(received', received, Values, Places, order - 1, block_length - 1)
           /\ DOMAIN received' = 0..(block_length - 1)
<1> DEFINE l == order - 1
           b == block_length - 1
           one(k) == [n \in DOMAIN Places |-> IF Places[n] = k THEN Values[n] ELSE 0]
<1>0. /\ l \in Nat /\ DOMAIN error_roots = 0..l /\ DOMAIN Places = 0..l
      /\ \A n \in 0..l : error_roots[n] \in 1..Top /\ Places[n] = find_error_location(error_roots[n])
  BY DEF Located, Different, Places
<1>1. \A n \in 0..l : Places[n] \in 0..b
  BY <1>0, LocationInBlock
<1>2. Order(Places) = l
  BY <1>0, OrderOf
<1>3. received' = [k \in DOMAIN received |-> field_add(received[k], SumTo(one(k), Order(Places)))]
  BY DEF Correct, Places, Values
<1>4. DOMAIN received = 0..b
  OBVIOUS
<1>5. \A k \in 0..b : received'[k] = field_add(received[k], SumTo(one(k), l))
  BY <1>2, <1>3, <1>4
<1>6. DOMAIN received' = 0..b
  BY <1>3, <1>4
<1>7. \A k \in 0..b : one(k) = [n \in 0..l |-> IF Places[n] = k THEN Values[n] ELSE 0]
  BY <1>0
<1> HIDE DEF one
<1> QED
  BY <1>1, <1>5, <1>6, <1>7 DEF Filled

\* What they contribute to a root's value is the syndrome.
LEMMA ContributionsCancel ==
    ASSUME Located, erasure_length = 0, syndrome_copy \in [0..(min_distance - 1) -> Element],
           NEW k \in 0..(min_distance - 1)
    PROVE  /\ Terms(Values, order - 1)
           /\ Contributions(Values, Places, order - 1, generator_roots[k]) = syndrome_copy[k]
<1> DEFINE n == min_distance - 1
           l == order - 1
           f == first_consecutive_root
           v == generator_roots[k]
           w == [m \in 0..l |-> Share(error_roots[m])]
           x == [m \in 0..l |-> field_div(1, error_roots[m])]
           z == [m \in 0..l |-> [j \in 0..n |-> field_pow(x[m], j + 1)]]
<1>0. /\ n \in Nat /\ order \in Nat /\ order > 0 /\ order <= n /\ l \in Nat /\ f \in Nat
      /\ DOMAIN error_roots = 0..l
      /\ \A m \in 0..l : error_roots[m] \in 1..Top
      /\ Splits(locator, order, error_roots, n)
      /\ k \in 0..n /\ k \in Nat /\ v \in 1..Top
      /\ Terms(syndrome_copy, n)
      /\ \A j \in order..n : Feedback(locator, syndrome_copy, order, j) = 0
  <2>1. /\ n \in Nat /\ order \in Nat /\ order > 0 /\ order <= n /\ l \in Nat /\ f \in Nat
        /\ k \in 0..n /\ k \in Nat
    BY FieldSize, CodeAssumption DEF Located
  <2>2. DOMAIN error_roots = 0..l /\ \A m \in 0..l : error_roots[m] \in 1..Top
    BY DEF Located, Different
  <2>3. Splits(locator, order, error_roots, n)
    BY LocatorSplits
  <2>4. v \in 1..Top
    BY GeneratorHasRoots
  <2>5. Terms(syndrome_copy, n)
    BY DEF Terms
  <2>6. \A j \in order..n : Feedback(locator, syndrome_copy, order, j) = 0
    BY DEF Located
  <2> QED
    BY <2>1, <2>2, <2>3, <2>4, <2>5, <2>6
<1>1. Weighs(w, Evaluator, Derivative, locator, syndrome_copy, error_roots, order, n)
  BY QuotientWeighs
<1>2. \A m \in 0..l : w[m] \in Element
  BY <1>1 DEF Weighs, Terms
<1>3. ASSUME NEW m \in 0..l
      PROVE  /\ x[m] \in 1..Top /\ field_mul(error_roots[m], x[m]) = 1
             /\ field_pow(error_roots[m], f - 1) \in Element
             /\ field_mul(field_pow(error_roots[m], f - 1), field_pow(x[m], k + f)) = field_pow(x[m], k + 1)
  <2>1. x[m] = field_div(1, error_roots[m]) /\ error_roots[m] \in 1..Top
    BY <1>0
  <2> QED
    BY <1>0, <2>1, PowersMeet
<1>4. Inverses(z, x, error_roots, order, n)
  BY <1>3 DEF Inverses, Geometric
<1>5. syndrome_copy[k] = Combined(w, z, l, k)
  <2> HIDE DEF w, x, z, n
  <2>1. Describes(locator, syndrome_copy, order, n)
    BY <1>0 DEF Describes
  <2>2. Explains(syndrome_copy, w, z, order, n)
    BY <1>0, <1>1, <1>4, <2>1, Forney
  <2> QED
    BY <1>0, <2>2 DEF Explains
<1>6. ASSUME NEW m \in 0..l
      PROVE  /\ Values[m] = field_mul(field_pow(error_roots[m], f - 1), w[m])
             /\ Places[m] = find_error_location(error_roots[m])
  BY <1>0 DEF Values, Places, find_error_values, Share, Evaluator, Derivative
<1>7. ASSUME NEW m \in 0..l
      PROVE  /\ Values[m] \in Element
             /\ field_mul(Values[m], field_pow(v, Places[m])) = field_mul(w[m], z[m][k])
  <2> DEFINE a == field_pow(error_roots[m], f - 1)
             u == field_pow(x[m], k + f)
             c == w[m]
             y == field_pow(x[m], k + 1)
  <2>1. field_pow(v, Places[m]) = u
    <3>1. x[m] = field_div(1, error_roots[m])
      OBVIOUS
    <3> HIDE DEF x
    <3> QED
      BY <1>0, <1>6, <3>1, PlaceOfRoot
  <2>2. z[m][k] = y
    BY <1>0
  <2>3. /\ a \in Element /\ c \in Element /\ field_mul(a, u) = y /\ Values[m] = field_mul(a, c)
    BY <1>2, <1>3, <1>6
  <2>4. u \in Element
    <3>1. x[m] \in 1..Top /\ k + f \in Nat
      BY <1>0, <1>3
    <3> HIDE DEF x
    <3> QED
      BY <3>1, PowUnfolds
  <2> HIDE DEF a, u, c, y
  <2>5. field_mul(field_mul(a, c), u) = field_mul(field_mul(c, a), u)
    BY <2>3, MulCommutes
  <2>6. field_mul(field_mul(c, a), u) = field_mul(c, field_mul(a, u))
    BY <2>3, <2>4, MulAssociates
  <2>7. Values[m] \in Element
    BY <2>3, MulType
  <2>8. field_mul(Values[m], field_pow(v, Places[m])) = field_mul(c, y)
    BY <2>1, <2>3, <2>5, <2>6
  <2> QED
    BY <2>2, <2>7, <2>8 DEF c
<1>8. Contributions(Values, Places, l, v) = Combined(w, z, l, k)
  <2> DEFINE g == [m \in 0..l |-> field_mul(Values[m], field_pow(v, Places[m]))]
             h == [m \in 0..l |-> field_mul(w[m], z[m][k])]
  <2>1. g = h
    BY <1>7
  <2>2. Contributions(Values, Places, l, v) = SumTo(g, l)
    BY DEF Contributions
  <2>3. Combined(w, z, l, k) = SumTo(h, l)
    BY DEF Combined
  <2> HIDE DEF g, h
  <2> QED
    BY <2>1, <2>2, <2>3
<1>9. Terms(Values, l)
  BY <1>7 DEF Terms
<1> QED
  BY <1>5, <1>8, <1>9

\* Corrected, the block has every root of the generator.
LEMMA CorrectDecodes ==
    ASSUME Located, erasure_length = 0, Correct, received \in [0..(block_length - 1) -> Element],
           syndrome_copy = find_syndromes(received), NEW k \in 0..(min_distance - 1)
    PROVE  polynomial_eval(received', generator_roots[k]) = 0
<1> DEFINE b == block_length - 1
           v == generator_roots[k]
           h == received'
<1>0. b \in Nat /\ v \in 1..Top /\ Terms(received, b)
  BY FieldSize, GeneratorHasRoots DEF block_length, Terms
<1>1. \A j \in 0..(min_distance - 1) :
         syndrome_copy[j] = Value(received, b, generator_roots[j]) /\ syndrome_copy[j] \in Element
  BY SyndromeIsValue
<1>2. syndrome_copy \in [0..(min_distance - 1) -> Element]
  <2>1. syndrome_copy = [j \in 0..(min_distance - 1) |-> syndrome_copy[j]]
    BY DEF find_syndromes
  <2> QED
    BY <1>1, <2>1
<1>3. /\ Terms(Values, order - 1)
      /\ Contributions(Values, Places, order - 1, v) = syndrome_copy[k]
  BY <1>2, ContributionsCancel
<1>4. Filled(h, received, Values, Places, order - 1, b) /\ DOMAIN h = 0..b
  BY <1>3, CorrectPlaces
<1>5. order - 1 \in Nat
  BY DEF Located
<1>6. h = [j \in 0..b |-> h[j]]
  BY DEF Correct
<1> HIDE DEF h, b, v
<1>7. /\ Terms(h, b)
      /\ Value(h, b, v) = field_add(Value(received, b, v), Contributions(Values, Places, order - 1, v))
  BY <1>0, <1>4, <1>5, PlacedValue
<1>8. Value(h, b, v) = 0
  BY <1>1, <1>3, <1>7, AddSelf DEF v
<1>9. h \in [0..b -> Element]
  BY <1>4, <1>6, <1>7 DEF Terms
<1>10. polynomial_eval(h, v) = Value(h, b, v)
  BY <1>0, <1>9, PolynomialEval
<1> QED
  BY <1>8, <1>10 DEF h, v

\* Decoding starts from the syndromes of what was received, or ends because they are all 0.
LEMMA StartDecodes ==
    ASSUME DescribesInv, FindSyndromes
    PROVE  DecodedInv'
<1>0. Top \in Nat /\ min_distance \in Nat /\ min_distance > 0 /\ DOMAIN generator_roots = 0..(min_distance - 1)
  BY FieldSize, CodeAssumption DEF generator_roots
<1>1. /\ received' = Received /\ syndrome_copy' = find_syndromes(Received)
      /\ erasure_length' = erasure_length
      /\ pc' \in {"locate", "done"}
      /\ pc' = "done" => \A k \in DOMAIN syndrome_copy' : syndrome_copy'[k] = 0
      /\ pc' = "locate" => /\ ~(\A k \in DOMAIN syndrome_copy' : syndrome_copy'[k] = 0)
                           /\ erasure_length = 0 => syndromes' = syndrome_copy'
  BY DEF FindSyndromes, call
<1>2. Received \in [0..(block_length - 1) -> Element]
  <2>1. word \in Seq(Element) /\ Len(word) <= block_length
    BY DEF FindSyndromes, DescribesInv
  <2> QED
    BY <2>1, ReceivedType
<1>3. DOMAIN syndrome_copy' = 0..(min_distance - 1)
  BY <1>1 DEF find_syndromes
<1>4. pc' = "done" => \A k \in 0..(min_distance - 1) : polynomial_eval(received', generator_roots[k]) = 0
  <2> SUFFICES ASSUME pc' = "done", NEW k \in 0..(min_distance - 1)
               PROVE  polynomial_eval(received', generator_roots[k]) = 0
    OBVIOUS
  <2>1. find_syndromes(Received)[k] = 0
    BY <1>1, <1>3
  <2> QED
    BY <1>1, <1>2, <2>1, SyndromeIsValue
<1> QED
  BY <1>0, <1>1, <1>2, <1>3, <1>4 DEF DecodedInv, SuccessIsCodeword

\* Every step keeps what is decoded a codeword.
LEMMA DecodedKept ==
    ASSUME IInv, PlacesInv, DescribesInv, DecodedInv, [Next]_vars
    PROVE  DecodedInv'
<1>0. DOMAIN generator_roots = 0..(min_distance - 1)
  BY DEF generator_roots
<1>1. CASE encode
  BY <1>1 DEF encode, DecodedInv, SuccessIsCodeword
<1>2. CASE Damage
  <2>1. pc' = "decode"
    BY <1>2 DEF Damage
  <2> QED
    BY <2>1 DEF DecodedInv, SuccessIsCodeword
<1>3. CASE Refuse
  BY <1>3 DEF Refuse, DecodedInv, SuccessIsCodeword
<1>4. CASE FindSyndromes
  BY <1>4, StartDecodes
<1>5. CASE find_error_locator
  <2>1. /\ pc = "locate" /\ pc' = "locate" /\ UNCHANGED <<received, syndromes, syndrome_copy>>
        /\ erasure_length' = erasure_length
    BY <1>5, Zenon DEF find_error_locator, NoDiscrepancy, LengthenLocator, AdjustLocator, Locating, call
  <2> QED
    BY <2>1 DEF DecodedInv, SuccessIsCodeword
<1>6. CASE factorize_error_locator
  <2>1. /\ pc = "locate" /\ UNCHANGED <<received, syndrome_copy, order>>
        /\ erasure_length' = erasure_length
        /\ pc' = "correct" \/ (pc' = "done" /\ returned' = Failed)
    BY <1>6 DEF factorize_error_locator, call, lfsr
  <2>2. pc' = "correct" /\ erasure_length = 0 /\ order < min_distance => Located'
    BY <1>6, FactorizeLocates
  <2> QED
    BY <2>1, <2>2 DEF DecodedInv, SuccessIsCodeword
<1>7. CASE Correct
  <2>1. /\ pc = "correct" /\ pc' = "done" /\ order' = order /\ erasure_length' = erasure_length
    BY <1>7 DEF Correct, call, lfsr
  <2>2. received \in [0..(block_length - 1) -> Element] /\ syndrome_copy = find_syndromes(received)
    BY <2>1 DEF DecodedInv
  <2>3. ASSUME erasure_length = 0, order < min_distance, NEW k \in 0..(min_distance - 1)
        PROVE  polynomial_eval(received', generator_roots[k]) = 0
    <3>1. Located
      BY <2>1, <2>3 DEF DecodedInv
    <3> QED
      BY <1>7, <2>2, <2>3, <3>1, CorrectDecodes
  <2> QED
    BY <1>0, <2>1, <2>3 DEF DecodedInv, SuccessIsCodeword
<1>8. CASE Done \/ UNCHANGED vars
  <2>1. UNCHANGED vars
    BY <1>8 DEF Done
  <2> QED
    BY <2>1 DEF vars, call, lfsr, DecodedInv, SuccessIsCodeword, Located
<1> QED
  BY <1>1, <1>2, <1>3, <1>4, <1>5, <1>6, <1>7, <1>8 DEF Next

\* A decoder that claims success leaves a block with every root of the generator, however many
\* errors there were (decode.c:141), for every field, code, message and damage: if the locator
\* of order t has t roots, Forney's values at their places make up for all syndromes.
THEOREM SuccessMeansCodeword == Spec => []SuccessIsCodeword
<1> DEFINE All == IInv /\ PlacesInv /\ CodewordInv /\ DescribesInv /\ DecodedInv
<1>1. Init => All
  <2>1. Init => CodewordInv /\ DescribesInv
    BY CodeAssumption DEF Init, CodewordInv, DescribesInv
  <2>2. Init => DecodedInv
    BY DEF Init, DecodedInv, SuccessIsCodeword
  <2> QED
    BY <2>1, <2>2, StartsInside, PlacesStart
<1>2. All /\ [Next]_vars => All'
  BY StepInside, PlacesKept, CodewordKept, DescribesKept, DecodedKept
<1>3. All => SuccessIsCodeword
  BY DEF DecodedInv
<1> QED
  BY <1>1, <1>2, <1>3, PTL DEF Spec

-----------------------------------------------------------------------------
(* What a place in the block stands for. *)

\* The element of which the errors at a place make powers.
Locator(p) == field_pow(exp[p], generator_root_gap)

\* Raised to the gap, different elements stay different.
LEMMA GapInjective ==
    ASSUME NEW d \in 1..Top, NEW e \in 1..Top,
           field_pow(d, generator_root_gap) = field_pow(e, generator_root_gap)
    PROVE  d = e
<1> DEFINE G == [a \in 1..Top |-> field_pow(a, generator_root_gap)]
<1>0. Top \in Nat /\ Top > 0 /\ Element = 0..Top /\ Element \ {0} = 1..Top /\ generator_root_gap \in Nat
      /\ 1 \in 1..Top
  BY FieldSize, CodeAssumption
<1>1. G \in [1..Top -> 1..Top]
  BY <1>0, PowType
<1>2. field_pow(1, generator_root_gap) = 1
  <2>1. \E place \in Element : field_pow(place, generator_root_gap) = 1
    BY <1>0, GapAssumption
  <2>2. log[1] \in 1..Top /\ exp[log[1]] = 1
    BY <1>0, LogIsIndex
  <2>3. log[1] = Top
    BY <1>0, <2>2, PowersGoRound, EachElementOnce
  <2>4. (Top * generator_root_gap) % Top = 0
    BY <1>0, MultipleLeavesNothing
  <2> QED
    BY <2>3, <2>4, ExpUnfolds DEF field_pow
<1>3. ASSUME NEW e1 \in 1..Top PROVE \E a \in 1..Top : G[a] = e1
  <2>1. PICK place \in Element : field_pow(place, generator_root_gap) = e1
    BY <1>0, GapAssumption
  <2>2. CASE place = 0
    <3>1. e1 = 1
      BY <1>0, <2>1, <2>2, PowOfZero
    <3> QED
      BY <1>0, <1>2, <3>1
  <2>3. CASE place # 0
    BY <1>0, <2>1, <2>3
  <2> QED
    BY <2>2, <2>3
<1>4. G[d] = G[e]
  OBVIOUS
<1> HIDE DEF G
<1>5. G \in Surjection(1..Top, 1..Top)
  BY <1>1, <1>3, Fun_IsSurj
<1>6. IsFiniteSet(1..Top)
  BY <1>0, FS_Interval
<1>7. G \in Injection(1..Top, 1..Top)
  BY <1>5, <1>6, FS_SurjSameCardinalityImpliesInj
<1> QED
  BY <1>4, <1>7, Fun_InjectionProperties

\* Different places in the block stand for different elements, and not for 0.
LEMMA LocatorInjective ==
    ASSUME NEW p \in 0..(Top - 1), NEW q \in 0..(Top - 1)
    PROVE  /\ exp[p] \in 1..Top /\ Locator(p) \in 1..Top
           /\ Locator(p) = Locator(q) => p = q
<1>0. Top \in Nat /\ Top > 0 /\ generator_root_gap \in Nat /\ p \in 0..(2 * Top) /\ q \in 0..(2 * Top)
  BY FieldSize, CodeAssumption
<1>1. exp[p] \in 1..Top /\ exp[q] \in 1..Top
  BY <1>0, PowersGoRound
<1>2. Locator(p) \in 1..Top
  BY <1>0, <1>1, PowType DEF Locator
<1>3. ASSUME Locator(p) = Locator(q) PROVE p = q
  <2>1. exp[p] = exp[q]
    BY <1>1, <1>3, GapInjective DEF Locator
  <2>2. exp[0] = 1 /\ exp[Top] = 1 /\ Top \in 1..Top
    BY <1>0, ExpUnfolds, PowersGoRound
  <2>3. \A m \in 1..Top : \A j \in 1..Top : exp[m] = exp[j] => m = j
    BY EachElementOnce
  <2>4. CASE p = 0
    <3>1. q # 0 => q \in 1..Top /\ q # Top
      BY <1>0
    <3> QED
      BY <2>1, <2>2, <2>3, <2>4, <3>1
  <2>5. CASE q = 0
    <3>1. p # 0 => p \in 1..Top /\ p # Top
      BY <1>0
    <3> QED
      BY <2>1, <2>2, <2>3, <2>5, <3>1
  <2>6. CASE p # 0 /\ q # 0
    <3>1. p \in 1..Top /\ q \in 1..Top
      BY <1>0, <2>6
    <3> QED
      BY <2>1, <2>3, <3>1
  <2> QED
    BY <2>4, <2>5, <2>6
<1> QED
  BY <1>1, <1>2, <1>3

\* The first place stands for 1.
LEMMA LocatorOfFirst == Locator(0) = 1
<1>0. Top \in Nat /\ Top > 0 /\ generator_root_gap \in Nat /\ Element \ {0} = 1..Top /\ 1 \in 1..Top
  BY FieldSize, CodeAssumption
<1>1. exp[0] = 1
  BY ExpUnfolds
<1>2. log[1] \in 1..Top /\ exp[log[1]] = 1
  BY <1>0, LogIsIndex
<1>3. log[1] = Top
  <2>1. exp[Top] = 1 /\ Top \in 1..Top
    BY <1>0, PowersGoRound
  <2> QED
    BY <1>2, <2>1, EachElementOnce
<1>4. (Top * generator_root_gap) % Top = 0
  BY <1>0, MultipleLeavesNothing
<1> QED
  BY <1>1, <1>3, <1>4 DEF Locator, field_pow

\* The inverse of a place's element is the root the decoder finds it by.
RootAt(p) == field_div(1, Locator(p))

\* It finds the place again.
LEMMA RootFindsPlace ==
    ASSUME NEW p \in 0..(Top - 1)
    PROVE  /\ RootAt(p) \in 1..Top
           /\ field_mul(RootAt(p), Locator(p)) = 1
           /\ field_div(1, RootAt(p)) = Locator(p)
           /\ find_error_location(RootAt(p)) = p
<1> DEFINE x == Locator(p)
           r == RootAt(p)
           y == field_div(1, r)
           gap == generator_root_gap
           found == matches(x)
<1>0. /\ Top \in Nat /\ Top > 0 /\ gap \in Nat /\ Element = 0..Top /\ Element \ {0} = 1..Top
      /\ 1 \in Element /\ 0 \in 0..(Top - 1)
  BY FieldSize, CodeAssumption, ZeroAndOne
<1>1. x \in 1..Top /\ exp[p] \in 1..Top
  BY LocatorInjective
<1>2. r \in 1..Top /\ y \in 1..Top
  BY <1>1, DivisionType DEF RootAt
<1>3. field_mul(x, r) = 1 /\ field_mul(r, y) = 1
  BY <1>0, <1>1, <1>2, MulDivided DEF RootAt
<1>4. field_mul(r, x) = 1
  BY <1>0, <1>1, <1>2, <1>3, MulCommutes
<1>5. y = x
  BY <1>0, <1>1, <1>2, <1>3, <1>4, MulCancels
<1>6. exp[p] \in found /\ \A e \in 1..Top : e \in found => e = exp[p]
  <2>1. field_pow(exp[p], gap) = x
    BY DEF Locator
  <2>2. \A e \in 1..Top : field_pow(e, gap) = x => e = exp[p]
    BY <1>1, <2>1, GapInjective
  <2> QED
    BY <1>0, <1>1, <2>1, <2>2 DEF matches
<1>7. log[Min(found)] = p
  <2>1. Min(found) \in found /\ \A e \in found : Min(found) <= e
    BY <1>2, <1>5, LeastMatch
  <2>2. found \subseteq Element
    BY DEF matches
  <2>3. CASE p = 0
    <3>1. field_pow(0, gap) = 1 /\ x = 1
      BY <1>0, <2>3, PowOfZero, LocatorOfFirst
    <3>2. 0 \in found
      BY <1>0, <3>1 DEF matches
    <3>3. Min(found) = 0
      BY <1>0, <2>1, <2>2, <3>2
    <3> QED
      BY <1>0, <2>3, <3>3 DEF log
  <2>4. CASE p # 0
    <3>1. field_pow(0, gap) = 1
      BY <1>0, PowOfZero
    <3>2. x # 1
      <4>1. Locator(0) = 1
        BY LocatorOfFirst
      <4> QED
        BY <1>0, <2>4, <4>1, LocatorInjective
    <3>3. ~(0 \in found)
      BY <3>1, <3>2 DEF matches
    <3>4. Min(found) = exp[p]
      <4> HIDE DEF found
      <4>1. Min(found) # 0 /\ Min(found) \in Element
        BY <2>1, <2>2, <3>3
      <4>2. Min(found) \in 1..Top
        BY <1>0, <4>1
      <4> QED
        BY <1>6, <2>1, <4>2
    <3>5. log[exp[p]] \in 1..Top /\ exp[log[exp[p]]] = exp[p]
      BY <1>0, <1>1, LogIsIndex
    <3>6. p \in 1..Top
      BY <1>0, <2>4
    <3>7. log[exp[p]] = p
      BY <3>5, <3>6, EachElementOnce
    <3> QED
      BY <3>4, <3>7
  <2> QED
    BY <2>3, <2>4
<1>8. find_error_location(r) = p
  BY <1>5, <1>7 DEF find_error_location
<1> QED
  BY <1>2, <1>4, <1>5, <1>8

\* The erased positions are found by the roots of their places.
LEMMA RootIsErased ==
    ASSUME NEW p \in 0..(Top - 1)
    PROVE  field_div(1, field_pow(exp[p], generator_root_gap)) = RootAt(p)
BY DEF RootAt, Locator

\* A root of the generator raised to a place is a power of the place's element.
LEMMA RootToPlace ==
    ASSUME NEW p \in 0..(Top - 1), NEW k \in 0..(min_distance - 1)
    PROVE  field_pow(generator_roots[k], p) = field_pow(Locator(p), k + first_consecutive_root)
<1> DEFINE r == RootAt(p)
<1>1. r \in 1..Top /\ field_div(1, r) = Locator(p) /\ find_error_location(r) = p
  BY RootFindsPlace
<1> HIDE DEF r
<1> QED
  BY <1>1, PlaceOfRoot

-----------------------------------------------------------------------------
(* What was sent and what is wrong with what arrived. *)

\* The block sent, and what the channel added to it, low order first.
SentBlock == [p \in 0..(block_length - 1) |-> IF p < Len(sent) THEN sent[Len(sent) - p] ELSE 0]
Wrong == [p \in 0..(block_length - 1) |->
             IF p < Len(sent) THEN field_add(sent[Len(sent) - p], word[Len(sent) - p]) ELSE 0]

\* A message that fits was sent with its parity, a block of its length arrived, and the erased
\* positions are different ones of it.
Arrived ==
    /\ Fits(msg) /\ sent = Coded(msg)
    /\ word \in Seq(Element) /\ Len(word) = Len(sent)
    /\ erasure_length \in Nat
    /\ erasures \in [1..erasure_length -> 0..(Len(word) - 1)]
    /\ \A j \in 1..erasure_length : \A k \in 1..erasure_length : erasures[j] = erasures[k] => j = k

\* What arrived is what was sent and what is wrong.
LEMMA BlocksAdd ==
    ASSUME Arrived
    PROVE  /\ block_length = Top /\ Top \in Nat /\ min_distance \in Nat /\ min_distance > 0
           /\ Len(sent) \in min_distance..block_length /\ Len(sent) = Len(msg) + min_distance
           /\ sent \in Seq(Element)
           /\ SentBlock \in [0..(block_length - 1) -> Element]
           /\ Wrong \in [0..(block_length - 1) -> Element]
           /\ Received \in [0..(block_length - 1) -> Element]
           /\ \A p \in 0..(block_length - 1) : Received[p] = field_add(SentBlock[p], Wrong[p])
<1>0. /\ Top \in Nat /\ Top > 0 /\ block_length = Top /\ min_distance \in Nat /\ min_distance > 0
      /\ message_length = Top - min_distance /\ min_distance < Top /\ 0 \in Element
      /\ 0 \in 0..(min_distance - 1)
  BY FieldSize, CodeAssumption, ZeroAndOne DEF block_length, message_length
<1>1. sent \in Seq(Element) /\ Len(sent) = Len(msg) + min_distance /\ msg \in Seq(Element)
      /\ Len(msg) <= message_length
  BY <1>0, CodedIsCodeword DEF Arrived, Fits
<1>2. Len(sent) \in min_distance..block_length /\ Len(word) = Len(sent) /\ word \in Seq(Element)
  <2>1. Len(msg) \in Nat
    BY <1>1
  <2> QED
    BY <1>0, <1>1, <2>1 DEF Arrived
<1>3. Received \in [0..(block_length - 1) -> Element]
  BY <1>2, ReceivedType
<1>4. ASSUME NEW p \in 0..(block_length - 1)
      PROVE  /\ SentBlock[p] \in Element /\ Wrong[p] \in Element
             /\ Received[p] = field_add(SentBlock[p], Wrong[p])
  <2>1. CASE p < Len(sent)
    <3> DEFINE x == sent[Len(sent) - p]
               y == word[Len(sent) - p]
    <3>1. Len(sent) - p \in 1..Len(sent) /\ Len(sent) - p \in 1..Len(word)
      BY <1>0, <1>2, <2>1
    <3>2. x \in Element /\ y \in Element
      BY <1>1, <1>2, <3>1
    <3>3. SentBlock[p] = x /\ Wrong[p] = field_add(x, y) /\ Received[p] = y
      BY <1>2, <2>1 DEF SentBlock, Wrong, Received
    <3> HIDE DEF x, y
    <3>4. field_add(x, field_add(x, y)) = y
      <4>1. field_add(x, y) \in Element
        BY <3>2, AddBits
      <4>2. field_add(x, y) = field_add(y, x) /\ field_add(x, field_add(x, y)) = field_add(field_add(x, y), x)
        BY <3>2, <4>1, AddCommutes
      <4> QED
        BY <3>2, <4>2, AddTwice
    <3> QED
      BY <3>2, <3>3, <3>4, AddBits
  <2>2. CASE ~(p < Len(sent))
    <3>1. SentBlock[p] = 0 /\ Wrong[p] = 0 /\ Received[p] = 0
      BY <1>2, <2>2 DEF SentBlock, Wrong, Received
    <3> QED
      BY <1>0, <3>1, AddZero
  <2> QED
    BY <2>1, <2>2
<1>5. SentBlock \in [0..(block_length - 1) -> Element] /\ Wrong \in [0..(block_length - 1) -> Element]
  <2>1. SentBlock = [p \in 0..(block_length - 1) |-> SentBlock[p]]
    BY DEF SentBlock
  <2>2. Wrong = [p \in 0..(block_length - 1) |-> Wrong[p]]
    BY DEF Wrong
  <2> HIDE DEF SentBlock, Wrong
  <2> QED
    BY <1>4, <2>1, <2>2
<1> QED
  BY <1>0, <1>1, <1>2, <1>3, <1>4, <1>5

\* The syndromes are the values of what is wrong: what was sent has all roots of the generator.
LEMMA SyndromesOfWrong ==
    ASSUME Arrived, NEW k \in 0..(min_distance - 1)
    PROVE  /\ find_syndromes(Received)[k] = Value(Wrong, block_length - 1, generator_roots[k])
           /\ find_syndromes(Received)[k] \in Element
<1> DEFINE b == block_length - 1
           v == generator_roots[k]
           l == Len(sent) - 1
           s == [n \in 0..(Len(sent) - 1) |-> sent[Len(sent) - n]]
           S == SentBlock
<1>0. /\ b \in Nat /\ l \in Nat /\ l <= b /\ v \in 1..Top
      /\ Terms(S, b) /\ Terms(Wrong, b) /\ Received \in [0..b -> Element]
      /\ sent \in Seq(Element) /\ Len(sent) \in Nat
      /\ \A p \in 0..b : Received[p] = field_add(S[p], Wrong[p])
  <2>1. v \in 1..Top
    BY GeneratorHasRoots
  <2>2. /\ Top \in Nat /\ b = Top - 1 /\ min_distance \in Nat /\ min_distance > 0
        /\ Len(sent) \in min_distance..Top /\ sent \in Seq(Element)
        /\ S \in [0..b -> Element] /\ Wrong \in [0..b -> Element] /\ Received \in [0..b -> Element]
        /\ \A p \in 0..b : Received[p] = field_add(S[p], Wrong[p])
    BY BlocksAdd
  <2>3. b \in Nat /\ l \in Nat /\ l <= b /\ Len(sent) \in Nat
    BY <2>2
  <2> HIDE DEF S, v, b, l
  <2>4. Terms(S, b) /\ Terms(Wrong, b)
    BY <2>2 DEF Terms
  <2> QED
    BY <2>1, <2>2, <2>3, <2>4
<1>1. \A n \in 0..b : S[n] = IF n < Len(sent) THEN sent[Len(sent) - n] ELSE 0
  BY DEF SentBlock
<1>2. \A n \in 0..l : s[n] = S[n] /\ s[n] \in Element
  BY <1>0, <1>1
<1>3. polynomial_eval(s, v) = 0
  <2>1. Fits(msg) /\ sent = Coded(msg)
    BY DEF Arrived
  <2>2. polynomial_eval([n \in 0..(Len(Coded(msg)) - 1) |-> Coded(msg)[Len(Coded(msg)) - n]],
                        generator_roots[k]) = 0
    BY <2>1, CodedIsCodeword
  <2> QED
    BY <2>1, <2>2
<1>4. s \in [0..l -> Element]
  <2>1. s = [n \in 0..l |-> s[n]]
    OBVIOUS
  <2> HIDE DEF s
  <2> QED
    BY <1>2, <2>1
<1>5. \A n \in 0..b : n > l => S[n] = 0
  BY <1>0, <1>1
<1> HIDE DEF s, S, l, b, v
<1>6. Value(s, l, v) = 0
  BY <1>0, <1>3, <1>4, PolynomialEval
<1>7. Value(S, l, v) = Value(s, l, v)
  BY <1>0, <1>2, ValueSame
<1>8. Value(S, b, v) = Value(S, l, v)
  BY <1>0, <1>5, ValueTail
<1>9. Value(Received, b, v) = field_add(Value(S, b, v), Value(Wrong, b, v)) /\ Value(Wrong, b, v) \in Element
  BY <1>0, ValueAdd, ValueTerms
<1>10. find_syndromes(Received)[k] = Value(Received, b, v)
  BY <1>0, SyndromeIsValue DEF b, v
<1> QED
  BY <1>6, <1>7, <1>8, <1>9, <1>10, AddZero DEF b, v

\* A place is wrong where the bytes differ.
LEMMA WrongWhereDifferent ==
    ASSUME Arrived, NEW p \in 0..(Len(sent) - 1)
    PROVE  /\ p \in 0..(block_length - 1) /\ p \in 0..(Top - 1)
           /\ Len(sent) - p \in DOMAIN sent
           /\ Wrong[p] # 0 <=> sent[Len(sent) - p] # word[Len(sent) - p]
<1> DEFINE x == sent[Len(sent) - p]
           y == word[Len(sent) - p]
<1>1. /\ Len(sent) \in min_distance..block_length /\ block_length = Top /\ Top \in Nat
      /\ min_distance \in Nat
      /\ sent \in Seq(Element) /\ word \in Seq(Element) /\ Len(word) = Len(sent)
  BY BlocksAdd DEF Arrived
<1>2. /\ p \in 0..(block_length - 1) /\ p \in 0..(Top - 1) /\ p < Len(sent)
      /\ Len(sent) - p \in 1..Len(sent)
  BY <1>1
<1>3. x \in Element /\ y \in Element /\ Len(sent) - p \in DOMAIN sent
  BY <1>1, <1>2
<1>4. Wrong[p] = field_add(x, y)
  BY <1>2 DEF Wrong
<1>5. field_add(x, y) = 0 <=> x = y
  BY <1>3, AddIsZero, AddSelf
<1> QED
  BY <1>2, <1>3, <1>4, <1>5

\* The wrong places that are not erased, and behind them the erased ones.
FaultyAt(P, e) ==
    /\ P \in [0..(e + erasure_length - 1) -> 0..(Len(sent) - 1)]
    /\ \A n \in 0..(e + erasure_length - 1) : \A k \in 0..(e + erasure_length - 1) :
         P[n] = P[k] => n = k
    /\ \A n \in 0..(e - 1) : Wrong[P[n]] # 0
    /\ \A n \in 0..(erasure_length - 1) : P[e + n] = Len(word) - erasures[n + 1] - 1
    /\ \A p \in 0..(block_length - 1) : Wrong[p] # 0 => \E n \in 0..(e + erasure_length - 1) : P[n] = p

\* The damaged bytes can be numbered.
LEMMA DamagedNumbered ==
    ASSUME Arrived
    PROVE  /\ Cardinality(Damaged) \in Nat
           /\ \E g \in [1..Cardinality(Damaged) -> Damaged] :
                /\ \A j \in 1..Cardinality(Damaged) : \A k \in 1..Cardinality(Damaged) :
                     g[j] = g[k] => j = k
                /\ \A d \in Damaged : \E k \in 1..Cardinality(Damaged) : g[k] = d
<1>1. IsFiniteSet(Damaged)
  <2>1. sent \in Seq(Element)
    BY BlocksAdd
  <2>2. IsFiniteSet(1..Len(sent)) /\ DOMAIN sent = 1..Len(sent)
    BY <2>1, FS_Interval
  <2>3. Damaged \in SUBSET (1..Len(sent))
    BY <2>2 DEF Damaged
  <2> QED
    BY <2>2, <2>3, FS_Subset
<1>2. Cardinality(Damaged) \in Nat /\ ExistsBijection(1..Cardinality(Damaged), Damaged)
  BY <1>1, FS_CardinalityType
<1>3. PICK g : g \in Bijection(1..Cardinality(Damaged), Damaged)
  BY <1>2 DEF ExistsBijection
<1>4. /\ g \in [1..Cardinality(Damaged) -> Damaged]
      /\ \A j, k \in 1..Cardinality(Damaged) : g[j] = g[k] => j = k
      /\ \A d \in Damaged : \E k \in 1..Cardinality(Damaged) : g[k] = d
  <2> DEFINE N == 1..Cardinality(Damaged)
  <2>1. g \in Bijection(N, Damaged)
    BY <1>3
  <2> HIDE DEF N
  <2>2. g \in [N -> Damaged] /\ \A j, k \in N : g[j] = g[k] => j = k
    BY <2>1, Fun_BijectionProperties
  <2>3. \A d \in Damaged : \E k \in N : g[k] = d
    BY <2>1, Fun_BijectionProperties
  <2> QED
    BY <2>2, <2>3 DEF N
<1> QED
  BY <1>2, <1>4

\* So can all places a decoder has to put right.
LEMMA FaultsPlaced ==
    ASSUME Arrived
    PROVE  Cardinality(Damaged) \in Nat /\ \E P : FaultyAt(P, Cardinality(Damaged))
<1> DEFINE e == Cardinality(Damaged)
           f == erasure_length
           l == Len(sent)
<1>1. e \in Nat
  BY DamagedNumbered
<1>2. PICK g \in [1..e -> Damaged] :
        /\ \A j \in 1..e : \A k \in 1..e : g[j] = g[k] => j = k
        /\ \A d \in Damaged : \E k \in 1..e : g[k] = d
  BY DamagedNumbered
<1>3. /\ f \in Nat /\ l \in Nat /\ Len(word) = l /\ DOMAIN sent = 1..l
      /\ \A k \in 1..f : erasures[k] \in 0..(l - 1)
      /\ \A j \in 1..f : \A k \in 1..f : erasures[j] = erasures[k] => j = k
      /\ l <= block_length /\ block_length \in Nat
  <2>1. l \in min_distance..block_length /\ sent \in Seq(Element) /\ min_distance \in Nat
        /\ block_length \in Nat
    BY BlocksAdd
  <2> QED
    BY <2>1 DEF Arrived
<1>4. \A d : d \in Damaged <=> /\ d \in 1..l /\ sent[d] # word[d]
                               /\ \A k \in 1..f : erasures[k] # d - 1
  <2>1. \A d : Contains(erasures, d - 1) <=> \E k \in 1..f : erasures[k] = d - 1
    <3>1. erasures \in Seq(0..(l - 1)) /\ Len(erasures) = f
      BY <1>3 DEF Arrived
    <3> QED
      BY <3>1 DEF Contains
  <2> QED
    BY <1>3, <2>1 DEF Damaged
<1> DEFINE P == [n \in 0..(e + f - 1) |-> IF n < e THEN l - g[n + 1] ELSE l - erasures[n - e + 1] - 1]
<1> HIDE DEF e, f, l
<1>5. ASSUME NEW n \in 0..(e + f - 1), n < e
      PROVE  n + 1 \in 1..e /\ P[n] = l - g[n + 1] /\ g[n + 1] \in Damaged /\ P[n] \in 0..(l - 1)
  <2>1. n + 1 \in 1..e
    BY <1>1, <1>3, <1>5
  <2>2. g[n + 1] \in 1..l /\ g[n + 1] \in Damaged
    BY <1>2, <1>4, <2>1
  <2> QED
    BY <1>3, <1>5, <2>1, <2>2
<1>6. ASSUME NEW n \in 0..(e + f - 1), ~(n < e)
      PROVE  /\ n - e + 1 \in 1..f /\ P[n] = l - erasures[n - e + 1] - 1
             /\ erasures[n - e + 1] \in 0..(l - 1) /\ P[n] \in 0..(l - 1)
  <2>1. n - e + 1 \in 1..f
    BY <1>1, <1>3, <1>6
  <2>2. erasures[n - e + 1] \in 0..(l - 1)
    BY <1>3, <2>1
  <2> QED
    BY <1>3, <1>6, <2>1, <2>2
<1>7. P \in [0..(e + f - 1) -> 0..(l - 1)]
  <2>1. \A n \in 0..(e + f - 1) : P[n] \in 0..(l - 1)
    BY <1>5, <1>6
  <2> QED
    BY <2>1
<1> HIDE DEF P
<1>8. ASSUME NEW n \in 0..(e + f - 1), NEW k \in 0..(e + f - 1), P[n] = P[k]
      PROVE  n = k
  <2>1. CASE n < e /\ k < e
    <3>1. g[n + 1] \in 1..l /\ g[k + 1] \in 1..l
      BY <1>4, <1>5, <2>1
    <3>2. g[n + 1] = g[k + 1]
      BY <1>3, <1>5, <1>8, <2>1, <3>1
    <3> QED
      BY <1>1, <1>2, <1>5, <2>1, <3>2
  <2>2. CASE ~(n < e) /\ ~(k < e)
    <3>1. erasures[n - e + 1] = erasures[k - e + 1]
      BY <1>3, <1>6, <1>8, <2>2
    <3>2. n - e + 1 = k - e + 1
      BY <1>3, <1>6, <2>2, <3>1
    <3> QED
      BY <1>1, <3>2
  <2>3. CASE n < e /\ ~(k < e)
    <3>1. g[n + 1] \in 1..l /\ erasures[k - e + 1] # g[n + 1] - 1
      BY <1>4, <1>5, <1>6, <2>3
    <3> QED
      BY <1>3, <1>5, <1>6, <1>8, <2>3, <3>1
  <2>4. CASE ~(n < e) /\ k < e
    <3>1. g[k + 1] \in 1..l /\ erasures[n - e + 1] # g[k + 1] - 1
      BY <1>4, <1>5, <1>6, <2>4
    <3> QED
      BY <1>3, <1>5, <1>6, <1>8, <2>4, <3>1
  <2> QED
    BY <2>1, <2>2, <2>3, <2>4
<1>9. ASSUME NEW n \in 0..(e - 1) PROVE Wrong[P[n]] # 0
  <2>1. n \in 0..(e + f - 1) /\ n < e
    BY <1>1, <1>3
  <2>2. P[n] = l - g[n + 1] /\ g[n + 1] \in 1..l /\ sent[g[n + 1]] # word[g[n + 1]] /\ P[n] \in 0..(l - 1)
    BY <1>4, <1>5, <2>1
  <2>3. l - P[n] = g[n + 1]
    BY <1>3, <2>2
  <2> QED
    BY <2>2, <2>3, WrongWhereDifferent DEF l
<1>10. ASSUME NEW n \in 0..(f - 1) PROVE P[e + n] = l - erasures[n + 1] - 1
  <2>1. e + n \in 0..(e + f - 1) /\ ~(e + n < e) /\ (e + n) - e + 1 = n + 1
    BY <1>1, <1>3
  <2> QED
    BY <1>6, <2>1
<1>11. ASSUME NEW p \in 0..(block_length - 1), Wrong[p] # 0
       PROVE  \E n \in 0..(e + f - 1) : P[n] = p
  <2>1. p < l
    BY <1>11 DEF Wrong, l
  <2>2. p \in 0..(l - 1)
    BY <1>3, <2>1
  <2>3. l - p \in 1..l /\ sent[l - p] # word[l - p]
    BY <1>3, <1>11, <2>2, WrongWhereDifferent DEF l
  <2>4. CASE l - p \in Damaged
    <3>1. PICK k \in 1..e : g[k] = l - p
      BY <1>2, <2>4
    <3>2. k - 1 \in 0..(e + f - 1) /\ k - 1 < e /\ (k - 1) + 1 = k
      BY <1>1, <1>3
    <3>3. P[k - 1] = l - g[k]
      BY <1>5, <3>2
    <3>4. P[k - 1] = p
      BY <1>3, <2>2, <3>1, <3>3
    <3> QED
      BY <3>2, <3>4
  <2>5. CASE ~(l - p \in Damaged)
    <3>1. PICK k \in 1..f : erasures[k] = l - p - 1
      BY <1>4, <2>3, <2>5
    <3>2. e + k - 1 \in 0..(e + f - 1) /\ ~(e + k - 1 < e) /\ (e + k - 1) - e + 1 = k
      BY <1>1, <1>3
    <3>3. P[e + k - 1] = l - erasures[k] - 1
      BY <1>6, <3>2
    <3>4. P[e + k - 1] = p
      BY <1>3, <2>2, <3>1, <3>3
    <3> QED
      BY <3>2, <3>4
  <2> QED
    BY <2>4, <2>5
<1>12. FaultyAt(P, e)
  BY <1>3, <1>7, <1>8, <1>9, <1>10, <1>11 DEF FaultyAt, f, l
<1> QED
  BY <1>1, <1>12 DEF e

-----------------------------------------------------------------------------
(* The syndromes as sums of powers. *)

\* The elements of places, the roots they are found by, and the weights of the errors there.
LocatorsAt(P, l) == [n \in 0..l |-> Locator(P[n])]
RootsAt(P, l) == [n \in 0..l |-> RootAt(P[n])]
Weights(P, l) ==
    [n \in 0..l |-> field_mul(Wrong[P[n]], field_pow(Locator(P[n]), first_consecutive_root))]

\* Different places have different ones.
LEMMA PlacesDifferent ==
    ASSUME NEW l \in Nat, NEW P, \A n \in 0..l : P[n] \in 0..(Top - 1),
           \A n \in 0..l : \A k \in 0..l : P[n] = P[k] => n = k
    PROVE  /\ Different(LocatorsAt(P, l), l)
           /\ Different(RootsAt(P, l), l)
           /\ Reciprocal(RootsAt(P, l), LocatorsAt(P, l), l)
<1> DEFINE x == LocatorsAt(P, l)
           r == RootsAt(P, l)
<1>1. \A n \in 0..l : x[n] = Locator(P[n]) /\ r[n] = RootAt(P[n])
  BY DEF LocatorsAt, RootsAt
<1>2. \A n \in 0..l : x[n] \in 1..Top /\ r[n] \in 1..Top /\ field_mul(r[n], x[n]) = 1
  BY <1>1, LocatorInjective, RootFindsPlace
<1>3. x = [n \in 0..l |-> x[n]] /\ r = [n \in 0..l |-> r[n]] /\ DOMAIN r = 0..l
  BY DEF LocatorsAt, RootsAt
<1>4. \A n \in 0..l : \A k \in 0..l : x[n] = x[k] => n = k
  BY <1>1, LocatorInjective
<1> HIDE DEF x, r
<1>5. Different(x, l)
  BY <1>2, <1>3, <1>4 DEF Different
<1>6. Reciprocal(r, x, l)
  BY <1>2 DEF Reciprocal
<1>7. Different(r, l)
  BY <1>3, <1>5, <1>6, InversesDifferent
<1> QED
  BY <1>5, <1>6, <1>7 DEF x, r

\* Every syndrome is the sum of powers of the places' elements, weighed.
LEMMA SyndromesSpan ==
    ASSUME Arrived, NEW l \in Nat, NEW P, Supports(P, l, Wrong, block_length - 1)
    PROVE  /\ Terms(Weights(P, l), l)
           /\ \A n \in 0..l : Weights(P, l)[n] = 0 <=> Wrong[P[n]] = 0
           /\ Spanned(find_syndromes(Received), Weights(P, l), LocatorsAt(P, l), l, min_distance - 1)
<1> DEFINE b == block_length - 1
           f == first_consecutive_root
           w == Weights(P, l)
           x == LocatorsAt(P, l)
           E == [n \in 0..l |-> Wrong[P[n]]]
<1>0. /\ b \in Nat /\ b = Top - 1 /\ f \in Nat /\ Terms(Wrong, b) /\ min_distance \in Nat
      /\ \A n \in 0..l : P[n] \in 0..b
  <2>1. /\ b = Top - 1 /\ Top \in Nat /\ min_distance \in Nat /\ Wrong \in [0..b -> Element]
    BY BlocksAdd
  <2>2. Top > 0 /\ f \in Nat
    BY FieldSize, CodeAssumption
  <2> HIDE DEF b
  <2>3. Terms(Wrong, b)
    BY <2>1 DEF Terms
  <2> QED
    BY <2>1, <2>2, <2>3 DEF Supports, b
<1>1. \A n \in 0..l : /\ w[n] = field_mul(E[n], field_pow(x[n], f))
                      /\ x[n] = Locator(P[n]) /\ E[n] = Wrong[P[n]]
  BY DEF Weights, LocatorsAt
<1>2. \A n \in 0..l : x[n] \in 1..Top /\ E[n] \in Element
  <2>1. \A n \in 0..l : P[n] \in 0..(Top - 1)
    BY <1>0
  <2> QED
    BY <1>0, <1>1, <2>1, LocatorInjective DEF Terms
<1> HIDE DEF w, x, E, f
<1>3. ASSUME NEW n \in 0..l PROVE w[n] \in Element /\ (w[n] = 0 <=> E[n] = 0)
  <2> DEFINE y == field_pow(x[n], f)
  <2>1. y \in 1..Top
    BY <1>0, <1>2, PowType
  <2>2. y \in Element /\ y # 0 /\ E[n] \in Element /\ w[n] = field_mul(E[n], y)
    BY <1>1, <1>2, <2>1, FieldSize
  <2> HIDE DEF y
  <2> QED
    BY <2>2, MulType, MulIsTimes
<1>4. ASSUME NEW k \in 0..(min_distance - 1)
      PROVE  find_syndromes(Received)[k] = PowerSum(w, x, l, k)
  <2> DEFINE v == generator_roots[k]
             g == [n \in 0..l |-> field_mul(E[n], field_pow(v, P[n]))]
             h == [n \in 0..l |-> field_mul(w[n], field_pow(x[n], k))]
  <2>1. k \in Nat /\ v \in 1..Top
    BY <1>0, GeneratorHasRoots
  <2>2. find_syndromes(Received)[k] = Value(Wrong, b, v)
    BY SyndromesOfWrong
  <2>3. Value(Wrong, b, v) = Contributions(E, P, l, v)
    <3> HIDE DEF v, b
    <3> QED
      BY <1>0, <1>1, <2>1, SupportValue DEF b
  <2>4. Contributions(E, P, l, v) = SumTo(g, l)
    BY DEF Contributions
  <2>5. PowerSum(w, x, l, k) = SumTo(h, l)
    BY DEF PowerSum
  <2>6. ASSUME NEW n \in 0..l PROVE g[n] = h[n]
    <3> DEFINE y == field_pow(x[n], f)
               z == field_pow(x[n], k)
    <3>1. field_pow(v, P[n]) = field_pow(x[n], k + f)
      <4>1. P[n] \in 0..(Top - 1)
        BY <1>0
      <4> QED
        BY <1>1, <4>1, RootToPlace DEF f
    <3>2. field_pow(x[n], k + f) = field_mul(z, y)
      BY <1>0, <1>2, <2>1, PowAdds
    <3>3. y \in Element /\ z \in Element /\ E[n] \in Element
      BY <1>0, <1>2, <2>1, PowUnfolds
    <3>4. g[n] = field_mul(E[n], field_mul(z, y)) /\ h[n] = field_mul(field_mul(E[n], y), z)
      BY <1>1, <3>1, <3>2
    <3> HIDE DEF y, z, g, h
    <3>5. field_mul(field_mul(E[n], y), z) = field_mul(E[n], field_mul(y, z))
      BY <3>3, MulAssociates
    <3> QED
      BY <3>3, <3>4, <3>5, MulCommutes
  <2>7. g = h
    BY <2>6
  <2> HIDE DEF g, h
  <2> QED
    BY <2>2, <2>3, <2>4, <2>5, <2>7
<1>5. Terms(w, l)
  BY <1>3 DEF Terms
<1>6. Spanned(find_syndromes(Received), w, x, l, min_distance - 1)
  BY <1>4 DEF Spanned
<1> QED
  BY <1>1, <1>3, <1>5, <1>6 DEF w, x

\* The faulty places are all there is wrong.
LEMMA FaultsSupport ==
    ASSUME Arrived, NEW e \in Nat, NEW P, FaultyAt(P, e), NEW l, l = e + erasure_length - 1
    PROVE  /\ Supports(P, l, Wrong, block_length - 1)
           /\ \A n \in 0..l : P[n] \in 0..(Top - 1)
           /\ \A n \in 0..l : \A k \in 0..l : P[n] = P[k] => n = k
<1>1. /\ P \in [0..l -> 0..(Len(sent) - 1)]
      /\ \A n \in 0..l : \A k \in 0..l : P[n] = P[k] => n = k
      /\ \A p \in 0..(block_length - 1) : Wrong[p] # 0 => \E n \in 0..l : P[n] = p
  BY DEF FaultyAt
<1>2. Len(sent) \in min_distance..block_length /\ block_length = Top /\ Top \in Nat /\ min_distance \in Nat
  BY BlocksAdd
<1>3. \A n \in 0..l : P[n] \in 0..(block_length - 1)
  <2> SUFFICES ASSUME NEW n \in 0..l PROVE P[n] \in 0..(block_length - 1)
    OBVIOUS
  <2>1. P[n] \in 0..(Len(sent) - 1)
    BY <1>1
  <2> QED
    BY <1>2, <2>1
<1> QED
  BY <1>1, <1>2, <1>3 DEF Supports

\* Within reach the syndromes are all 0 only if nothing is wrong.
LEMMA NothingWrong ==
    ASSUME Arrived, WithinReach, \A k \in 0..(min_distance - 1) : find_syndromes(Received)[k] = 0,
           NEW p \in 0..(block_length - 1)
    PROVE  Wrong[p] = 0
<1> DEFINE e == Cardinality(Damaged)
           l == e + erasure_length - 1
<1>1. e \in Nat /\ \E P : FaultyAt(P, e)
  BY FaultsPlaced
<1>2. PICK P : FaultyAt(P, e)
  BY <1>1
<1>3. min_distance \in Nat /\ erasure_length \in Nat /\ 2 * e + erasure_length <= min_distance
  BY BlocksAdd DEF Arrived, WithinReach
<1>4. /\ Supports(P, l, Wrong, block_length - 1)
      /\ \A n \in 0..l : P[n] \in 0..(Top - 1)
      /\ \A n \in 0..l : \A k \in 0..l : P[n] = P[k] => n = k
  <2> HIDE DEF e
  <2> QED
    BY <1>1, <1>2, FaultsSupport
<1>5. l <= min_distance - 1 /\ (l \in Nat \/ 0..l = {})
  <2> HIDE DEF e
  <2> QED
    BY <1>1, <1>3
<1> HIDE DEF e, l
<1>6. CASE 0..l = {}
  BY <1>4, <1>6 DEF Supports
<1>7. CASE l \in Nat
  <2> DEFINE w == Weights(P, l)
             x == LocatorsAt(P, l)
  <2>1. /\ Terms(w, l) /\ \A n \in 0..l : w[n] = 0 <=> Wrong[P[n]] = 0
        /\ Spanned(find_syndromes(Received), w, x, l, min_distance - 1)
    BY <1>4, <1>7, SyndromesSpan
  <2>2. Different(x, l)
    BY <1>4, <1>7, PlacesDifferent
  <2> HIDE DEF w, x
  <2>3. \A k \in 0..l : PowerSum(w, x, l, k) = 0
    <3> SUFFICES ASSUME NEW k \in 0..l PROVE PowerSum(w, x, l, k) = 0
      OBVIOUS
    <3>1. k \in 0..(min_distance - 1)
      BY <1>3, <1>5, <1>7
    <3> QED
      BY <2>1, <3>1 DEF Spanned
  <2>4. \A n \in 0..l : w[n] = 0
    BY <1>7, <2>1, <2>2, <2>3, Independent
  <2> QED
    BY <1>4, <2>1, <2>4 DEF Supports
<1> QED
  BY <1>5, <1>6, <1>7

\* With nothing wrong left, the payload is the message.
LEMMA PayloadIsMessage ==
    ASSUME Arrived, NEW r, \A p \in 0..(block_length - 1) : r[p] = SentBlock[p]
    PROVE  Payload(r) = msg /\ Len(word) - min_distance = Len(msg)
<1> DEFINE m == parity(msg)
<1>1. /\ Len(sent) = Len(msg) + min_distance /\ Len(word) = Len(sent) /\ msg \in Seq(Element)
      /\ Len(sent) <= block_length /\ block_length \in Nat /\ min_distance \in Nat /\ min_distance > 0
      /\ sent = msg \o m /\ sent \in Seq(Element)
  BY BlocksAdd DEF Arrived, Fits, Coded
<1>2. Len(msg) \in Nat /\ Len(word) - min_distance = Len(msg)
  BY <1>1
<1>3. ASSUME NEW k \in 1..Len(msg) PROVE r[Len(word) - k] = msg[k]
  <2>1. /\ Len(sent) - k \in 0..(block_length - 1) /\ Len(sent) - k < Len(sent)
        /\ Len(sent) - (Len(sent) - k) = k
    BY <1>1, <1>2
  <2>2. SentBlock[Len(sent) - k] = sent[k]
    BY <2>1 DEF SentBlock
  <2>3. sent[k] = msg[k]
    <3>1. m = [j \in 1..min_distance |-> m[j]]
      BY DEF parity
    <3> HIDE DEF m
    <3> DEFINE S == Element \cup {m[j] : j \in 1..min_distance}
    <3>2. m \in Seq(S) /\ Len(m) = min_distance
      BY <1>1, <3>1
    <3>3. msg \in Seq(S)
      BY <1>1
    <3> HIDE DEF S
    <3> QED
      BY <1>1, <1>2, <3>2, <3>3
  <2> QED
    BY <1>1, <2>1, <2>2, <2>3
<1>4. Payload(r) = [k \in 1..Len(msg) |-> msg[k]]
  BY <1>2, <1>3 DEF Payload
<1>5. msg = [k \in 1..Len(msg) |-> msg[k]]
  BY <1>1
<1> QED
  BY <1>2, <1>4, <1>5

-----------------------------------------------------------------------------
(* What the erasures explain. *)

\* The erasure locator has the roots of the erased places, and no other faulty place's.
LEMMA ErasureLocatorSplits ==
    ASSUME Arrived, NEW e \in Nat, NEW P, FaultyAt(P, e), erasure_length > 0
    PROVE  /\ erasure_roots = [k \in 0..(erasure_length - 1) |-> RootAt(P[e + k])]
           /\ Splits(erasure_locator, erasure_length, erasure_roots, erasure_length)
           /\ \A n \in 0..(e + erasure_length - 1) :
                Value(erasure_locator, erasure_length, RootAt(P[n])) = 0 <=> n >= e
<1> DEFINE f == erasure_length
           l == e + f - 1
           rho == [k \in 0..(f - 1) |-> RootAt(P[e + k])]
<1>0. f \in Nat /\ f > 0 /\ l \in Nat /\ f - 1 \in Nat
  BY DEF Arrived
<1>1. /\ \A n \in 0..l : P[n] \in 0..(Top - 1)
      /\ \A n \in 0..l : \A k \in 0..l : P[n] = P[k] => n = k
  BY FaultsSupport
<1>2. Reciprocal(RootsAt(P, l), LocatorsAt(P, l), l) /\ Different(RootsAt(P, l), l)
  BY <1>0, <1>1, PlacesDifferent
<1>3. \A n \in 0..l : RootAt(P[n]) = RootsAt(P, l)[n]
  BY DEF RootsAt
<1>4. /\ \A n \in 0..l : RootAt(P[n]) \in 1..Top
      /\ \A n \in 0..l : \A k \in 0..l : RootAt(P[n]) = RootAt(P[k]) => n = k
  BY <1>2, <1>3 DEF Different
<1>5. erasure_roots = rho
  <2> SUFFICES ASSUME NEW k \in 0..(f - 1)
               PROVE  field_div(1, field_pow(exp[Len(word) - erasures[k + 1] - 1], generator_root_gap))
                        = RootAt(P[e + k])
    BY DEF erasure_roots
  <2>1. P[e + k] = Len(word) - erasures[k + 1] - 1
    BY DEF FaultyAt
  <2>2. e + k \in 0..l
    BY <1>0
  <2> QED
    BY <1>1, <2>1, <2>2, RootIsErased
<1>6. \A k \in 0..(f - 1) : rho[k] = RootAt(P[e + k]) /\ e + k \in 0..l
  BY <1>0
<1>7. Different(rho, f - 1)
  <2>1. \A k \in 0..(f - 1) : rho[k] \in 1..Top
    BY <1>4, <1>6
  <2>2. \A k \in 0..(f - 1) : \A j \in 0..(f - 1) : rho[k] = rho[j] => k = j
    <3> SUFFICES ASSUME NEW k \in 0..(f - 1), NEW j \in 0..(f - 1), rho[k] = rho[j] PROVE k = j
      OBVIOUS
    <3>1. e + k = e + j
      BY <1>4, <1>6
    <3> QED
      BY <3>1
  <2>3. rho \in [0..(f - 1) -> 1..Top]
    BY <2>1
  <2> HIDE DEF rho
  <2> QED
    BY <2>2, <2>3 DEF Different
<1> HIDE DEF rho, l
<1>8. Splits(erasure_locator, f, rho, f)
  <2> HIDE DEF f
  <2>1. Splits(polynomial_create_from_roots(rho, f), f, rho, f)
    BY <1>0, <1>7, CreatedSplits
  <2> QED
    BY <1>5, <2>1 DEF erasure_locator, f
<1>9. ASSUME NEW n \in 0..l, n >= e PROVE Value(erasure_locator, f, RootAt(P[n])) = 0
  <2>1. n - e \in 0..(f - 1) /\ e + (n - e) = n
    BY <1>0, <1>9 DEF l
  <2>2. rho[n - e] = RootAt(P[n])
    BY <1>6, <2>1
  <2> QED
    BY <1>8, <2>1, <2>2 DEF Splits
<1>10. ASSUME NEW n \in 0..l, ~(n >= e), Value(erasure_locator, f, RootAt(P[n])) = 0 PROVE FALSE
  <2>1. RootAt(P[n]) \in 1..Top
    BY <1>4
  <2>2. /\ Terms(erasure_locator, f) /\ erasure_locator[0] # 0
        /\ \A k \in 0..(f - 1) : Value(erasure_locator, f, rho[k]) = 0
    BY <1>8 DEF Splits
  <2>3. \E k \in 0..(f - 1) : rho[k] = RootAt(P[n])
    BY <1>0, <1>7, <1>10, <2>1, <2>2, OneRootMore
  <2>4. PICK k \in 0..(f - 1) : rho[k] = RootAt(P[n])
    BY <2>3
  <2>5. e + k = n
    BY <1>4, <1>6, <2>4
  <2> QED
    BY <1>0, <1>10, <2>5
<1>11. l = e + erasure_length - 1 /\ f = erasure_length
  BY DEF l
<1> QED
  BY <1>5, <1>8, <1>9, <1>10, <1>11 DEF rho

\* The syndromes that find_error_locator starts from, and that they are sums of powers of the
\* elements of the wrong places not erased.
StartSyndromes ==
    IF erasure_length = 0 THEN find_syndromes(Received)
                          ELSE find_modified_syndromes(find_syndromes(Received))

ErrorsExplain(T, P, e) ==
    /\ e > 0 => \E w : /\ Terms(w, e - 1) /\ \A n \in 0..(e - 1) : w[n] # 0
                       /\ Spanned(T, w, LocatorsAt(P, e - 1), e - 1, min_distance - erasure_length - 1)
    /\ e = 0 => \A k \in 0..(min_distance - erasure_length - 1) : T[k] = 0

\* What modifying the syndromes makes of them is what the erasure locator does as a register.
LEMMA ModifiedIsFeedback ==
    ASSUME erasure_length \in Nat, erasure_length > 0, min_distance \in Nat,
           DOMAIN erasure_locator = 0..erasure_length, Terms(erasure_locator, erasure_length),
           NEW S, S \in [0..(min_distance - 1) -> Element],
           NEW k \in 0..(min_distance - 1 - erasure_length)
    PROVE  find_modified_syndromes(S)[k] = Feedback(erasure_locator, S, erasure_length, k + erasure_length)
<1> DEFINE f == erasure_length
           c == erasure_locator
           n == k + f
           a == [j \in 0..n |-> IF j \in DOMAIN c /\ n - j \in DOMAIN S THEN field_mul(c[j], S[n - j]) ELSE 0]
           b == [j \in 0..f |-> field_mul(c[j], S[n - j])]
<1>0. /\ f \in Nat /\ n \in Nat /\ n \in 0..(min_distance - 1) /\ k \in 0..(min_distance - 1)
      /\ k + f < min_distance /\ f <= n /\ 0 \in Element
      /\ (\A j \in 0..f : c[j] \in Element) /\ DOMAIN c = 0..f
      /\ DOMAIN S = 0..(min_distance - 1) /\ \A m \in 0..(min_distance - 1) : S[m] \in Element
  BY ZeroAndOne DEF Terms
<1>1. find_modified_syndromes(S)[k] = polynomial_mul(c, S, min_distance - 1)[n]
  BY <1>0 DEF find_modified_syndromes
<1>2. polynomial_mul(c, S, min_distance - 1)[n] = SumTo(a, n)
  BY <1>0 DEF polynomial_mul
<1>3. Feedback(c, S, f, n) = SumTo(b, f)
  BY DEF Feedback
<1>4. ASSUME NEW j \in 0..n
      PROVE  a[j] \in Element /\ (j > f => a[j] = 0) /\ (j \in 0..f => a[j] = b[j])
  <2>0. n - j \in 0..(min_distance - 1)
    BY <1>0
  <2>1. CASE j \in 0..f
    <3>1. a[j] = field_mul(c[j], S[n - j]) /\ b[j] = field_mul(c[j], S[n - j]) /\ ~(j > f)
      BY <1>0, <2>0, <2>1
    <3>2. c[j] \in Element /\ S[n - j] \in Element
      BY <1>0, <2>0, <2>1
    <3> HIDE DEF a, b, c, n, f
    <3> QED
      BY <3>1, <3>2, MulType
  <2>2. CASE ~(j \in 0..f)
    BY <1>0, <2>2
  <2> QED
    BY <2>1, <2>2
<1>5. \A j \in 0..f : j \in 0..n
  BY <1>0
<1> HIDE DEF a, b, c, n, f
<1>6. Terms(a, n)
  BY <1>4 DEF Terms
<1>7. SumTo(a, n) = SumTo(a, f)
  BY <1>0, <1>4, <1>6, SumToTail
<1>8. Terms(a, f) /\ \A j \in 0..f : b[j] = a[j]
  BY <1>4, <1>5 DEF Terms
<1>9. SumTo(b, f) = SumTo(a, f)
  BY <1>0, <1>8, SumToSame
<1> QED
  BY <1>1, <1>2, <1>3, <1>7, <1>9 DEF c, n, f

\* Within the register's reach, they are sums of powers of the wrong places' elements only.
LEMMA ErrorsSpan ==
    ASSUME Arrived, NEW e \in Nat, NEW P, FaultyAt(P, e), e + erasure_length > 0,
           e + erasure_length <= min_distance
    PROVE  ErrorsExplain(StartSyndromes, P, e)
<1> DEFINE f == erasure_length
           l == e + f - 1
           D == min_distance - 1
           S == find_syndromes(Received)
           w == Weights(P, l)
           x == LocatorsAt(P, l)
           rho == RootsAt(P, l)
           T == StartSyndromes
<1>0. f \in Nat /\ l \in Nat /\ D \in Nat /\ min_distance \in Nat
  BY BlocksAdd DEF Arrived
<1>1. /\ Supports(P, l, Wrong, block_length - 1)
      /\ \A n \in 0..l : P[n] \in 0..(Top - 1)
      /\ \A n \in 0..l : \A k \in 0..l : P[n] = P[k] => n = k
  BY FaultsSupport
<1>2. /\ Terms(w, l)
      /\ \A n \in 0..l : w[n] = 0 <=> Wrong[P[n]] = 0
      /\ Spanned(S, w, x, l, D)
  BY <1>0, <1>1, SyndromesSpan
<1>3. Different(x, l) /\ Reciprocal(rho, x, l)
  BY <1>0, <1>1, PlacesDifferent
<1>4. /\ \A n \in 0..l : rho[n] = RootAt(P[n]) /\ x[n] = Locator(P[n])
      /\ \A n \in 0..(e - 1) : Wrong[P[n]] # 0 /\ n \in 0..l
      /\ LocatorsAt(P, e - 1) = [n \in 0..(e - 1) |-> Locator(P[n])]
  BY <1>0 DEF RootsAt, LocatorsAt, FaultyAt
<1>5. S \in [0..D -> Element]
  <2>1. Len(sent) \in min_distance..block_length /\ block_length \in Nat
    BY BlocksAdd
  <2>2. word \in Seq(Element) /\ Len(word) <= block_length
    BY <1>0, <2>1 DEF Arrived
  <2> QED
    BY <2>2, SyndromesType
<1>6. \E v : /\ Terms(v, l)
             /\ \A n \in 0..l : n < e => v[n] # 0
             /\ \A n \in 0..l : n >= e => v[n] = 0
             /\ Spanned(T, v, x, l, D - f)
  <2>1. CASE f = 0
    <3>1. T = S /\ D - f = D /\ \A n \in 0..l : n < e /\ n \in 0..(e - 1)
      BY <1>0, <2>1 DEF StartSyndromes
    <3>2. \A n \in 0..l : n < e /\ ~(n >= e) /\ w[n] # 0
      <4> SUFFICES ASSUME NEW n \in 0..l PROVE n < e /\ ~(n >= e) /\ w[n] # 0
        OBVIOUS
      <4>1. n < e /\ n \in 0..(e - 1)
        BY <3>1
      <4>2. w[n] # 0
        <5> HIDE DEF w, l
        <5> QED
          BY <1>2, <1>4, <4>1
      <4> QED
        BY <4>1, <4>2
    <3> HIDE DEF w, x, T, S, l, D, f
    <3> QED
      BY <1>2, <3>1, <3>2
  <2>2. CASE f # 0
    <3> DEFINE c == erasure_locator
               v == Filtered(w, x, rho, c, f, l)
    <3>1. f > 0
      BY <1>0, <2>2
    <3>2. /\ Splits(c, f, erasure_roots, f)
          /\ \A n \in 0..l : Value(c, f, RootAt(P[n])) = 0 <=> n >= e
      BY <3>1, ErasureLocatorSplits
    <3>3. Terms(c, f)
      BY <3>2 DEF Splits
    <3>4. DOMAIN c = 0..f
      <4>1. \A k \in 0..(f - 1) : erasure_roots[k] \in 1..Top
        BY <3>2 DEF Splits, Different
      <4> QED
        BY <1>0, <3>1, <4>1, CreatedHasRoots DEF erasure_locator
    <3>5. T = find_modified_syndromes(S)
      BY <2>2 DEF StartSyndromes
    <3>6. \A k \in 0..(D - f) : T[k] = Feedback(c, S, f, k + f)
      <4> SUFFICES ASSUME NEW k \in 0..(D - f) PROVE T[k] = Feedback(c, S, f, k + f)
        OBVIOUS
      <4> HIDE DEF S, c, T
      <4> QED
        BY <1>0, <1>5, <3>1, <3>3, <3>4, <3>5, ModifiedIsFeedback DEF c
    <3>7. /\ Terms(v, l)
          /\ \A n \in 0..l : v[n] = 0 <=> w[n] = 0 \/ Value(c, f, rho[n]) = 0
          /\ Spanned(T, v, x, l, D - f)
      <4> HIDE DEF w, x, rho, T, S, c, l, D, f
      <4> QED
        BY <1>0, <1>2, <1>3, <3>3, <3>6, FilteredSpan
    <3> HIDE DEF v, c
    <3>8. \A n \in 0..l : n < e => v[n] # 0
      <4> SUFFICES ASSUME NEW n \in 0..l, n < e PROVE v[n] # 0
        OBVIOUS
      <4>1. n \in 0..(e - 1) /\ ~(n >= e)
        OBVIOUS
      <4>2. w[n] # 0 /\ Value(c, f, rho[n]) # 0
        BY <1>2, <1>4, <3>2, <4>1
      <4> QED
        BY <3>7, <4>2
    <3>9. \A n \in 0..l : n >= e => v[n] = 0
      <4> HIDE DEF rho
      <4> QED
        BY <1>4, <3>2, <3>7
    <3> QED
      BY <3>7, <3>8, <3>9
  <2> QED
    BY <2>1, <2>2
<1>7. PICK v : /\ Terms(v, l)
               /\ \A n \in 0..l : n < e => v[n] # 0
               /\ \A n \in 0..l : n >= e => v[n] = 0
               /\ Spanned(T, v, x, l, D - f)
  BY <1>6
<1>8. D - f \in Int /\ D - f = min_distance - erasure_length - 1
  BY <1>0
<1> HIDE DEF w, rho, T, S, D
<1>9. ASSUME e > 0
      PROVE  /\ Terms(v, e - 1) /\ \A n \in 0..(e - 1) : v[n] # 0
             /\ Spanned(T, v, LocatorsAt(P, e - 1), e - 1, D - f)
  <2>1. e - 1 \in 0..l /\ e - 1 \in Nat /\ \A n \in 0..l : n > e - 1 => v[n] = 0
    BY <1>0, <1>7, <1>9
  <2>2. Terms(v, e - 1) /\ Spanned(T, v, x, e - 1, D - f)
    <3> HIDE DEF x, l, f
    <3> QED
      BY <1>0, <1>3, <1>7, <1>8, <2>1, SpanShortened
  <2>3. \A n \in 0..(e - 1) : v[n] # 0
    BY <1>4, <1>7
  <2>4. Spanned(T, v, LocatorsAt(P, e - 1), e - 1, D - f)
    <3> DEFINE y == LocatorsAt(P, e - 1)
    <3>1. \A n \in 0..(e - 1) : y[n] = x[n]
      BY <1>4
    <3> HIDE DEF y, x
    <3>2. \A k \in 0..(D - f) : PowerSum(v, y, e - 1, k) = PowerSum(v, x, e - 1, k)
      <4> SUFFICES ASSUME NEW k \in 0..(D - f)
                   PROVE  PowerSum(v, y, e - 1, k) = PowerSum(v, x, e - 1, k)
        OBVIOUS
      <4>1. [j \in 0..(e - 1) |-> field_mul(v[j], field_pow(y[j], k))]
              = [j \in 0..(e - 1) |-> field_mul(v[j], field_pow(x[j], k))]
        BY <3>1
      <4> QED
        BY <4>1 DEF PowerSum
    <3> QED
      BY <2>2, <3>2 DEF Spanned, y
  <2> QED
    BY <2>2, <2>3, <2>4
<1>10. ASSUME e = 0 PROVE \A k \in 0..(D - f) : T[k] = 0
  <2>1. \A n \in 0..l : v[n] = 0
    BY <1>0, <1>7, <1>10
  <2> HIDE DEF x, l, f
  <2> QED
    BY <1>0, <1>3, <1>7, <1>8, <2>1, SpanOfNothing
<1>11. /\ e > 0 => \E w1 : /\ Terms(w1, e - 1) /\ \A n \in 0..(e - 1) : w1[n] # 0
                           /\ Spanned(T, w1, LocatorsAt(P, e - 1), e - 1, D - f)
       /\ e = 0 => \A k \in 0..(D - f) : T[k] = 0
  BY <1>9, <1>10
<1> QED
  BY <1>8, <1>11 DEF ErrorsExplain, T

-----------------------------------------------------------------------------
(* The shortest register. *)

\* As many taps as there are wrong places not erased are enough.
LEMMA TapsEnough ==
    ASSUME NEW e \in Nat, NEW P, NEW T, NEW n \in Nat, ErrorsExplain(T, P, e),
           n <= min_distance - erasure_length - 1, Terms(T, n), e > 0 => e <= n,
           \A j \in 0..(e - 1) : P[j] \in 0..(Top - 1),
           \A j \in 0..(e - 1) : \A k \in 0..(e - 1) : P[j] = P[k] => j = k,
           min_distance \in Nat, erasure_length \in Nat
    PROVE  \E b : /\ Terms(b, e) /\ b[0] # 0
                  /\ \A k \in e..n : Feedback(b, T, e, k) = 0
<1> DEFINE m == min_distance - erasure_length - 1
<1>0. m \in Nat /\ n \in 0..m /\ \A k \in 0..n : k \in 0..m
  OBVIOUS
<1>1. CASE e = 0
  <2> DEFINE b == [k \in 0..0 |-> 1]
  <2>1. Terms(b, 0) /\ b[0] = 1
    BY ZeroAndOne DEF Terms
  <2>2. ASSUME NEW k \in e..n PROVE Feedback(b, T, e, k) = 0
    <3> DEFINE a == [j \in 0..0 |-> field_mul(b[j], T[k - j])]
    <3>1. Feedback(b, T, e, k) = SumTo(a, 0)
      BY <1>1 DEF Feedback
    <3>2. k \in 0..n /\ k \in 0..m /\ k - 0 = k
      BY <1>0, <1>1
    <3>3. T[k] = 0
      BY <1>1, <3>2 DEF ErrorsExplain
    <3>4. a[0] = field_mul(1, 0)
      BY <2>1, <3>2, <3>3
    <3> HIDE DEF a
    <3>5. a[0] = 0
      BY <3>4, MulOne, ZeroAndOne
    <3>6. \A j \in 0..0 : a[j] = 0
      BY <3>5
    <3> QED
      BY <3>1, <3>6, SumToZero
  <2> HIDE DEF b
  <2> QED
    BY <1>1, <2>1, <2>2
<1>2. CASE e > 0
  <2> DEFINE l == e - 1
             x == LocatorsAt(P, l)
             rho == RootsAt(P, l)
             b == polynomial_create_from_roots(rho, e)
  <2>1. l \in Nat /\ l + 1 = e
    BY <1>2
  <2>2. PICK w : Terms(w, l) /\ Spanned(T, w, x, l, m)
    BY <1>2 DEF ErrorsExplain
  <2>3. Different(rho, l) /\ Reciprocal(rho, x, l)
    <3>1. /\ \A j \in 0..l : P[j] \in 0..(Top - 1)
          /\ \A j \in 0..l : \A k \in 0..l : P[j] = P[k] => j = k
      BY <2>1
    <3> HIDE DEF l
    <3> QED
      BY <2>1, <3>1, PlacesDifferent
  <2> HIDE DEF rho, x
  <2>4. Splits(b, e, rho, e)
    BY <1>2, <2>3, CreatedSplits
  <2> HIDE DEF b
  <2>5. Terms(b, e) /\ b[0] # 0 /\ \A k \in 0..l : Value(b, e, rho[k]) = 0
    BY <2>4 DEF Splits
  <2>6. Describes(b, T, e, m)
    <3> HIDE DEF l, m
    <3> QED
      BY <1>0, <2>1, <2>2, <2>3, <2>5, RootsDescribe
  <2>7. \A k \in e..n : Feedback(b, T, e, k) = 0
    <3>1. \A k \in e..n : k \in e..m
      BY <1>0
    <3> QED
      BY <2>6, <3>1 DEF Describes
  <2> QED
    BY <2>5, <2>7
<1> QED
  BY <1>1, <1>2

\* What the decoder knows within reach.
Within ==
    /\ Arrived /\ WithinReach
    /\ syndromes = StartSyndromes
    /\ Cardinality(Damaged) + erasure_length > 0

\* A register that could be lengthened past the number of errors has no discrepancy.
LEMMA LongEnough ==
    ASSUME Ready, Within, numerrors + Cardinality(Damaged) <= i
    PROVE  discrepancy = 0
<1> DEFINE e == Cardinality(Damaged)
<1>1. e \in Nat /\ \E P : FaultyAt(P, e)
  BY FaultsPlaced DEF Within
<1>2. PICK P : FaultyAt(P, e)
  BY <1>1
<1>3. /\ i \in Nat /\ numerrors \in Nat /\ min_distance \in Nat /\ erasure_length \in Nat
      /\ i < min_distance - erasure_length
  BY ReadyNumbers DEF Ready, Locating
<1>4. 2 * e + erasure_length <= min_distance /\ e + erasure_length > 0 /\ Arrived
      /\ syndromes = StartSyndromes /\ numerrors + e <= i
  BY DEF Within, WithinReach
<1> HIDE DEF e
<1>5. ErrorsExplain(syndromes, P, e)
  <2>1. e + erasure_length <= min_distance
    BY <1>1, <1>3, <1>4
  <2> QED
    BY <1>1, <1>2, <1>4, <2>1, ErrorsSpan
<1>6. /\ \A j \in 0..(e - 1) : P[j] \in 0..(Top - 1)
      /\ \A j \in 0..(e - 1) : \A k \in 0..(e - 1) : P[j] = P[k] => j = k
  <2> DEFINE l == e + erasure_length - 1
  <2>1. /\ \A j \in 0..l : P[j] \in 0..(Top - 1)
        /\ \A j \in 0..l : \A k \in 0..l : P[j] = P[k] => j = k
    BY <1>1, <1>2, <1>4, FaultsSupport
  <2>2. \A j \in 0..(e - 1) : j \in 0..l
    BY <1>1, <1>3
  <2> HIDE DEF l
  <2> QED
    BY <2>1, <2>2
<1>7. Terms(syndromes, i) /\ Terms(locator, numerrors)
  <2>1. i \in 0..i /\ numerrors \in 0..i
    BY <1>1, <1>3, <1>4
  <2> QED
    BY <2>1, ReadyTerms
<1>8. \E b : /\ Terms(b, e) /\ b[0] # 0
             /\ \A k \in e..i : Feedback(b, syndromes, e, k) = 0
  <2>1. i <= min_distance - erasure_length - 1 /\ e <= i
    BY <1>1, <1>3, <1>4
  <2> QED
    BY <1>1, <1>3, <1>5, <1>6, <1>7, <2>1, TapsEnough
<1>9. PICK b : /\ Terms(b, e) /\ b[0] # 0
               /\ \A k \in e..i : Feedback(b, syndromes, e, k) = 0
  BY <1>8
<1>10. \A k \in numerrors..(i - 1) : Feedback(locator, syndromes, numerrors, k) = 0
  BY DEF Ready, SumsInv
<1>11. Feedback(locator, syndromes, numerrors, i) = 0
  BY <1>1, <1>3, <1>4, <1>7, <1>9, <1>10, LengthBound
<1> QED
  BY <1>11, DiscrepancyIs

\* So the taps never outnumber the errors.
LEMMA TapsWithin ==
    ASSUME Ready, Within, numerrors <= Cardinality(Damaged), find_error_locator
    PROVE  numerrors' <= Cardinality(Damaged) /\ i' = i + 1
<1> DEFINE e == Cardinality(Damaged)
<1>1. e \in Nat
  BY DamagedNumbered DEF Within
<1>2. i \in Nat /\ numerrors \in Nat
  BY ReadyNumbers
<1>3. CASE NoDiscrepancy \/ AdjustLocator
  BY <1>3 DEF NoDiscrepancy, AdjustLocator
<1>4. CASE LengthenLocator
  <2>1. numerrors' = i + 1 - numerrors /\ i' = i + 1 /\ discrepancy # 0
    BY <1>4 DEF LengthenLocator
  <2>2. ~(numerrors + e <= i)
    BY <2>1, LongEnough
  <2> HIDE DEF e
  <2>3. i + 1 - numerrors <= e
    BY <1>1, <1>2, <2>2
  <2> QED
    BY <2>1, <2>3 DEF e
<1> QED
  BY <1>3, <1>4 DEF find_error_locator

-----------------------------------------------------------------------------
(* The search within reach. *)

\* Different roots are as many as their numbers.
LEMMA RootsCounted ==
    ASSUME NEW n \in Nat, NEW rho, Different(rho, n - 1)
    PROVE  Cardinality({rho[k] : k \in 0..(n - 1)}) = n
<1> DEFINE S == 0..(n - 1)
           R == {rho[k] : k \in S}
<1>1. rho \in [S -> 1..Top] /\ \A j, k \in S : rho[j] = rho[k] => j = k
  BY DEF Different
<1>2. \A k \in S : rho[k] \in R
  OBVIOUS
<1>3. R \subseteq 1..Top /\ \A r \in R : \E k \in S : rho[k] = r
  BY <1>1
<1>4. IsFiniteSet(S) /\ Cardinality(S) = n
  <2>1. n - 1 \in Int /\ 0 \in Int /\ (0 > n - 1 => n = 0) /\ (n - 1) - 0 + 1 = n
    OBVIOUS
  <2> QED
    BY <2>1, FS_Interval
<1>5. IsFiniteSet(1..Top)
  BY FieldSize, FS_Interval
<1> HIDE DEF S, R
<1>6. IsFiniteSet(R)
  BY <1>3, <1>5, FS_Subset
<1>7. rho \in [S -> R]
  BY <1>1, <1>2
<1>8. rho \in Injection(S, R)
  BY <1>1, <1>7, Fun_IsInj
<1>9. rho \in Surjection(S, R)
  BY <1>3, <1>7, Fun_IsSurj
<1>10. Cardinality(S) = Cardinality(R)
  BY <1>6, <1>8, <1>9, FS_Injection
<1> QED
  BY <1>4, <1>10 DEF R, S

\* Where the search starts within reach.
Searching ==
    /\ pc = "locate" /\ IInv /\ PlacesInv /\ DescribesInv /\ Within
    /\ numerrors <= Cardinality(Damaged)
    /\ i = min_distance - erasure_length
    /\ error_roots = erasure_roots

\* The register has a tap for each error, and the errors' places are found by its roots.
LEMMA RegisterComplete ==
    ASSUME Searching, NEW P, FaultyAt(P, Cardinality(Damaged))
    PROVE  /\ Cardinality(Damaged) \in Nat /\ order = Cardinality(Damaged)
           /\ \A n \in 0..(order - 1) : Value(locator, order, RootAt(P[n])) = 0
           /\ Different(RootsAt(P, order - 1), order - 1)
<1> DEFINE e == Cardinality(Damaged)
           f == erasure_length
           l == e - 1
           D == min_distance - f - 1
           rho == RootsAt(P, l)
           x == LocatorsAt(P, l)
<1>0. /\ e \in Nat /\ f \in Nat /\ min_distance \in Nat /\ i \in Nat /\ numerrors \in Nat /\ order \in Nat
      /\ Arrived /\ 2 * e + f <= min_distance /\ e + f > 0 /\ syndromes = StartSyndromes
      /\ numerrors <= e /\ i = min_distance - f /\ order = numerrors /\ locator[0] = 1
      /\ TapsInv /\ SumsInv
  BY DamagedNumbered, CodeAssumption
     DEF Searching, Within, WithinReach, IInv, RegisterInv, PlacesInv, DescribesInv, TapsInv
<1>1. /\ \A j \in 0..l : P[j] \in 0..(Top - 1)
      /\ \A j \in 0..l : \A k \in 0..l : P[j] = P[k] => j = k
  <2> DEFINE m == e + f - 1
  <2> HIDE DEF e, f
  <2>1. /\ \A j \in 0..m : P[j] \in 0..(Top - 1)
        /\ \A j \in 0..m : \A k \in 0..m : P[j] = P[k] => j = k
    BY <1>0, FaultsSupport DEF e, f
  <2>2. \A j \in 0..l : j \in 0..m
    BY <1>0
  <2> HIDE DEF m, l
  <2> QED
    BY <2>1, <2>2
<1>2. ErrorsExplain(syndromes, P, e)
  <2>1. e + f <= min_distance /\ FaultyAt(P, e)
    BY <1>0
  <2> HIDE DEF e
  <2> QED
    BY <1>0, <2>1, ErrorsSpan
<1>3. CASE e = 0
  <2>1. order = 0 /\ order - 1 = -1 /\ 0..(-1) = {} /\ order = e
    BY <1>0, <1>3
  <2>2. Different(RootsAt(P, order - 1), order - 1)
    BY <2>1 DEF Different, RootsAt
  <2> QED
    BY <1>0, <2>1, <2>2
<1>4. CASE e > 0
  <2>1. l \in Nat /\ D \in Nat /\ numerrors + l <= D
    <3> HIDE DEF e, f
    <3> QED
      BY <1>0, <1>4
  <2>2. /\ \E w : /\ Terms(w, l) /\ \A n \in 0..l : w[n] # 0
                  /\ Spanned(syndromes, w, x, l, D)
    BY <1>2, <1>4 DEF ErrorsExplain
  <2>3. PICK w : /\ Terms(w, l) /\ \A n \in 0..l : w[n] # 0
                 /\ Spanned(syndromes, w, x, l, D)
    BY <2>2
  <2>4. Different(x, l) /\ Reciprocal(rho, x, l) /\ Different(rho, l)
    <3> HIDE DEF l
    <3> QED
      BY <1>1, <2>1, PlacesDifferent
  <2>5. Terms(locator, numerrors)
    <3>1. \A k \in 0..numerrors : k \in 0..min_distance
      <4> HIDE DEF e, f
      <4> QED
        BY <1>0
    <3> QED
      BY <1>0, <3>1 DEF TapsInv, Terms
  <2>6. Describes(locator, syndromes, numerrors, D)
    <3>1. D = i - 1
      <4> HIDE DEF e, f
      <4> QED
        BY <1>0
    <3> QED
      BY <1>0, <3>1 DEF SumsInv, Describes
  <2> HIDE DEF e, f, l, D, x, rho
  <2>7. \A n \in 0..l : Value(locator, numerrors, rho[n]) = 0
    BY <1>0, <2>1, <2>3, <2>4, <2>5, <2>6, DescribesRoots
  <2>8. l < numerrors
    BY <1>0, <2>1, <2>4, <2>5, <2>7, RootsBound
  <2>9. numerrors = e /\ l = order - 1
    BY <1>0, <2>1, <2>8 DEF l
  <2>10. \A n \in 0..l : rho[n] = RootAt(P[n])
    BY DEF rho, RootsAt
  <2>11. \A n \in 0..(order - 1) : Value(locator, order, RootAt(P[n])) = 0
    BY <1>0, <2>7, <2>9, <2>10
  <2>12. Different(RootsAt(P, order - 1), order - 1)
    BY <2>4, <2>9 DEF rho
  <2> QED
    BY <1>0, <2>9, <2>11, <2>12 DEF e
<1> QED
  <2> HIDE DEF e
  <2> QED
    BY <1>0, <1>3, <1>4

\* So the search finds their roots and no others.
LEMMA SearchComplete ==
    ASSUME Searching, NEW P, FaultyAt(P, Cardinality(Damaged)), NEW roots \in SUBSET PossibleRoots,
           SureRoots \subseteq roots
    PROVE  /\ Cardinality(roots) = order
           /\ \A r : r \in roots <=> r \in 1..Top /\ Value(locator, order, r) = 0
           /\ \A r \in roots : \E n \in 0..(order - 1) : RootAt(P[n]) = r
           /\ IsFiniteSet(roots) /\ roots \subseteq Nat
<1> DEFINE rho == RootsAt(P, order - 1)
<1>1. /\ Cardinality(Damaged) \in Nat /\ order = Cardinality(Damaged)
      /\ \A n \in 0..(order - 1) : Value(locator, order, RootAt(P[n])) = 0
      /\ Different(rho, order - 1)
  BY RegisterComplete
<1>2. order \in Nat /\ order < min_distance /\ TapsInv /\ locator[0] = 1 /\ min_distance \in Nat
  <2>1. /\ order \in Nat /\ TapsInv /\ locator[0] = 1 /\ WithinReach /\ erasure_length \in Nat
        /\ min_distance \in Nat /\ min_distance > 0
    BY CodeAssumption DEF Searching, Within, IInv, RegisterInv, PlacesInv, DescribesInv
  <2>2. 2 * order + erasure_length <= min_distance
    BY <1>1, <2>1 DEF WithinReach
  <2> QED
    BY <2>1, <2>2
<1>3. /\ PossibleRoots = SureRoots
      /\ \A r : r \in PossibleRoots <=> r \in 1..Top /\ Value(locator, order, r) = 0
  BY <1>2, SearchIsExact
<1>4. roots = PossibleRoots
  BY <1>3
<1>5. \A n \in 0..(order - 1) : rho[n] = RootAt(P[n]) /\ rho[n] \in 1..Top
  BY <1>1 DEF RootsAt, Different
<1>6. Terms(locator, order)
  BY <1>2 DEF TapsInv, Terms
<1>7. ASSUME NEW r \in roots PROVE \E n \in 0..(order - 1) : RootAt(P[n]) = r
  <2>1. r \in 1..Top /\ Value(locator, order, r) = 0
    BY <1>3, <1>4
  <2>2. \A k \in 0..(order - 1) : Value(locator, order, rho[k]) = 0
    BY <1>1, <1>5
  <2> HIDE DEF rho
  <2>3. \E k \in 0..(order - 1) : rho[k] = r
    BY <1>1, <1>2, <1>6, <2>1, <2>2, OneRootMore
  <2> QED
    BY <1>5, <2>3
<1>8. roots = {rho[k] : k \in 0..(order - 1)}
  <2>1. \A k \in 0..(order - 1) : rho[k] \in roots
    BY <1>1, <1>3, <1>4, <1>5
  <2> HIDE DEF rho
  <2>2. \A r \in roots : \E k \in 0..(order - 1) : rho[k] = r
    BY <1>5, <1>7
  <2> QED
    BY <2>1, <2>2
<1> HIDE DEF rho
<1>9. Cardinality(roots) = order
  BY <1>1, <1>2, <1>8, RootsCounted
<1>10. IsFiniteSet(roots) /\ roots \subseteq Nat
  <2>1. roots \subseteq 1..Top
    BY <1>3, <1>4
  <2>2. IsFiniteSet(1..Top) /\ 1..Top \subseteq Nat
    BY FieldSize, FS_Interval
  <2> QED
    BY <2>1, <2>2, FS_Subset
<1> QED
  BY <1>3, <1>4, <1>7, <1>9, <1>10

\* What the search hands over within reach: a locator and roots at the places of all that is
\* wrong, those of the erasures first.
FoundAt(P) ==
    /\ Supports(P, order + erasure_length - 1, Wrong, block_length - 1)
    /\ error_roots = RootsAt(P, order + erasure_length - 1)
    /\ \A n \in 0..(erasure_length - 1) : error_roots[n] = erasure_roots[n]
    /\ \A n \in erasure_length..(order + erasure_length - 1) : Value(locator, order, error_roots[n]) = 0

FoundAll ==
    /\ order \in Nat /\ erasure_length \in Nat
    /\ order + erasure_length > 0 /\ order + erasure_length <= min_distance
    /\ locator \in [0..min_distance -> Element] /\ locator[0] = 1
    /\ \E P : FoundAt(P)

\* The numbers the search gives the errors are those of faulty places.
Renumbers(h, P, Q, t, f) ==
    /\ h \in [0..(t + f - 1) -> 1..Top]
    /\ \A k \in 0..(f - 1) : h[k] = RootAt(P[t + k])
    /\ \A k \in f..(t + f - 1) : \E n \in 0..(t - 1) : h[k] = RootAt(P[n])
    /\ \A k \in f..(t + f - 1) : \A j \in f..(t + f - 1) : h[k] = h[j] => k = j
    /\ \A n \in 0..(t - 1) : \E k \in f..(t + f - 1) : h[k] = RootAt(P[n])
    /\ Q = [k \in 0..(t + f - 1) |-> find_error_location(h[k])]

\* Renumbered they are still all that is wrong.
LEMMA RenumberedSupports ==
    ASSUME NEW t \in Nat, NEW f \in Nat, NEW b, b = Top - 1, NEW P, NEW p,
           Supports(P, t + f - 1, p, b), NEW h, NEW Q, Renumbers(h, P, Q, t, f)
    PROVE  /\ Supports(Q, t + f - 1, p, b)
           /\ h = RootsAt(Q, t + f - 1)
<1> DEFINE l == t + f - 1
<1>1. /\ \A n \in 0..l : P[n] \in 0..(Top - 1) /\ P[n] \in 0..b
      /\ \A n \in 0..l : \A k \in 0..l : P[n] = P[k] => n = k
      /\ \A k \in 0..b : p[k] # 0 => \E n \in 0..l : P[n] = k
  BY DEF Supports
<1>2. \A k \in 0..l : \E n \in 0..l : h[k] = RootAt(P[n]) /\ (k < f <=> n >= t)
                                                          /\ (k < f => n = t + k)
  <2> SUFFICES ASSUME NEW k \in 0..l
               PROVE  \E n \in 0..l : h[k] = RootAt(P[n]) /\ (k < f <=> n >= t)
                                                          /\ (k < f => n = t + k)
    OBVIOUS
  <2>1. CASE k < f
    <3>1. k \in 0..(f - 1) /\ t + k \in 0..l /\ t + k >= t
      BY <2>1
    <3> QED
      BY <2>1, <3>1 DEF Renumbers
  <2>2. CASE ~(k < f)
    <3>1. k \in f..l
      BY <2>2
    <3>2. PICK n \in 0..(t - 1) : h[k] = RootAt(P[n])
      BY <3>1 DEF Renumbers
    <3>3. n \in 0..l /\ ~(n >= t)
      OBVIOUS
    <3> QED
      BY <2>2, <3>2, <3>3
  <2> QED
    BY <2>1, <2>2
<1>3. \A n \in 0..l : find_error_location(RootAt(P[n])) = P[n] /\ RootAt(P[n]) \in 1..Top
  BY <1>1, RootFindsPlace
<1>4. /\ h \in [0..l -> 1..Top]
      /\ \A k \in 0..l : Q[k] = find_error_location(h[k])
      /\ \A k \in f..l : \A j \in f..l : h[k] = h[j] => k = j
      /\ \A n \in 0..(t - 1) : \E k \in f..l : h[k] = RootAt(P[n])
      /\ \A k \in 0..(f - 1) : h[k] = RootAt(P[t + k])
  BY DEF Renumbers
<1> HIDE DEF l
<1>5. \A k \in 0..l : \E n \in 0..l : /\ h[k] = RootAt(P[n]) /\ Q[k] = P[n]
                                      /\ (k < f <=> n >= t) /\ (k < f => n = t + k)
  <2> SUFFICES ASSUME NEW k \in 0..l
               PROVE  \E n \in 0..l : /\ h[k] = RootAt(P[n]) /\ Q[k] = P[n]
                                      /\ (k < f <=> n >= t) /\ (k < f => n = t + k)
    OBVIOUS
  <2>1. PICK n \in 0..l : h[k] = RootAt(P[n]) /\ (k < f <=> n >= t) /\ (k < f => n = t + k)
    BY <1>2
  <2>2. Q[k] = P[n]
    BY <1>3, <1>4, <2>1
  <2> QED
    BY <2>1, <2>2
<1>6. \A k \in 0..l : Q[k] \in 0..b /\ h[k] = RootAt(Q[k])
  BY <1>1, <1>5
<1>7. ASSUME NEW k \in 0..l, NEW j \in 0..l, Q[k] = Q[j] PROVE k = j
  <2>1. PICK n \in 0..l : /\ h[k] = RootAt(P[n]) /\ Q[k] = P[n]
                          /\ (k < f <=> n >= t) /\ (k < f => n = t + k)
    BY <1>5
  <2>2. PICK m \in 0..l : /\ h[j] = RootAt(P[m]) /\ Q[j] = P[m]
                          /\ (j < f <=> m >= t) /\ (j < f => m = t + j)
    BY <1>5
  <2>3. n = m
    BY <1>1, <1>7, <2>1, <2>2
  <2>4. CASE k < f
    <3>1. t + k = t + j
      BY <2>1, <2>2, <2>3, <2>4
    <3> QED
      BY <3>1 DEF l
  <2>5. CASE ~(k < f)
    <3>1. k \in f..l /\ j \in f..l
      BY <2>1, <2>2, <2>3, <2>5 DEF l
    <3>2. h[k] = h[j]
      BY <2>1, <2>2, <2>3
    <3> QED
      BY <1>4, <3>1, <3>2
  <2> QED
    BY <2>4, <2>5
<1>8. ASSUME NEW q \in 0..b, p[q] # 0 PROVE \E k \in 0..l : Q[k] = q
  <2>1. PICK n \in 0..l : P[n] = q
    BY <1>1, <1>8
  <2>2. \E k \in 0..l : h[k] = RootAt(P[n])
    <3>1. CASE n < t
      <4>1. n \in 0..(t - 1)
        BY <3>1 DEF l
      <4>2. PICK k \in f..l : h[k] = RootAt(P[n])
        BY <1>4, <4>1
      <4>3. k \in 0..l
        BY DEF l
      <4> QED
        BY <4>2, <4>3
    <3>2. CASE ~(n < t)
      <4>1. n - t \in 0..(f - 1) /\ t + (n - t) = n /\ n - t \in 0..l
        BY <3>2 DEF l
      <4>2. h[n - t] = RootAt(P[n])
        BY <1>4, <4>1
      <4> QED
        BY <4>1, <4>2
    <3> QED
      BY <3>1, <3>2
  <2>3. PICK k \in 0..l : h[k] = RootAt(P[n])
    BY <2>2
  <2>4. Q[k] = q
    BY <1>3, <1>4, <2>1, <2>3
  <2> QED
    BY <2>4
<1>9. Supports(Q, l, p, b)
  BY <1>6, <1>7, <1>8 DEF Supports
<1>10. h = RootsAt(Q, l)
  <2>1. h = [k \in 0..l |-> h[k]]
    BY <1>4
  <2>2. [k \in 0..l |-> h[k]] = [k \in 0..l |-> RootAt(Q[k])]
    BY <1>6
  <2> QED
    BY <2>1, <2>2 DEF RootsAt
<1> QED
  BY <1>9, <1>10 DEF l

\* The search hands all of them over.
LEMMA SearchPlaces ==
    ASSUME Searching, factorize_error_locator
    PROVE  pc' = "correct" /\ FoundAll'
<1> DEFINE f == erasure_length
           t == order
           h == error_roots'
           Q == [k \in 0..(t + f - 1) |-> find_error_location(h[k])]
<1>1. PICK P : FaultyAt(P, Cardinality(Damaged))
  BY FaultsPlaced DEF Searching, Within
<1>2. /\ t = Cardinality(Damaged) /\ t \in Nat /\ FaultyAt(P, t)
      /\ \A n \in 0..(t - 1) : Value(locator, t, RootAt(P[n])) = 0
  BY <1>1, RegisterComplete
<1>3. /\ f \in Nat /\ min_distance \in Nat /\ 2 * t + f <= min_distance /\ t + f > 0 /\ Arrived
      /\ error_roots = erasure_roots /\ TapsInv /\ locator[0] = 1 /\ block_length = Top /\ Top \in Nat
  BY <1>2, CodeAssumption, FieldSize
     DEF Searching, Within, WithinReach, IInv, PlacesInv, DescribesInv, block_length
<1>4. UNCHANGED <<msg, sent, word, erasure_length, erasures, order, locator>>
  BY DEF factorize_error_locator, call, lfsr
<1>5. PICK roots \in SUBSET PossibleRoots :
        /\ SureRoots \subseteq roots
        /\ h = [k \in 0..(f + Cardinality(roots) - 1) |->
                  IF k < f THEN error_roots[k] ELSE Nth(roots, k - f)]
        /\ EnoughRoots(roots) => pc' = "correct"
  BY DEF factorize_error_locator
<1>6. /\ Cardinality(roots) = t
      /\ \A r : r \in roots <=> r \in 1..Top /\ Value(locator, t, r) = 0
      /\ \A r \in roots : \E n \in 0..(t - 1) : RootAt(P[n]) = r
      /\ IsFiniteSet(roots) /\ roots \subseteq Nat
  BY <1>1, <1>5, SearchComplete
<1>7. pc' = "correct"
  BY <1>5, <1>6 DEF EnoughRoots
<1> HIDE DEF h, f, t
<1>8. /\ h = [k \in 0..(t + f - 1) |-> IF k < f THEN erasure_roots[k] ELSE Nth(roots, k - f)]
      /\ \A k \in 0..(f - 1) : k \in 0..(t + f - 1) /\ k < f
      /\ \A k \in f..(t + f - 1) : k \in 0..(t + f - 1) /\ ~(k < f) /\ k - f \in 0..(t - 1)
  BY <1>2, <1>3, <1>5, <1>6
<1>9. \A k \in 0..(f - 1) : h[k] = erasure_roots[k]
  BY <1>8
<1>10. \A n \in 0..(t + f - 1) : P[n] \in 0..(Top - 1)
  BY <1>2, <1>3, FaultsSupport DEF f
<1>11. \A k \in 0..(f - 1) : h[k] = RootAt(P[t + k])
  <2> SUFFICES ASSUME NEW k \in 0..(f - 1) PROVE h[k] = RootAt(P[t + k])
    OBVIOUS
  <2>1. erasure_length > 0
    BY <1>3 DEF f
  <2>2. erasure_roots = [j \in 0..(f - 1) |-> RootAt(P[t + j])]
    BY <1>2, <1>3, <2>1, ErasureLocatorSplits DEF f
  <2> QED
    BY <1>9, <2>2
<1>12. \A k \in f..(t + f - 1) : /\ h[k] \in roots
                                 /\ Cardinality({d \in roots : d < h[k]}) = k - f
  <2> SUFFICES ASSUME NEW k \in f..(t + f - 1)
               PROVE  h[k] \in roots /\ Cardinality({d \in roots : d < h[k]}) = k - f
    OBVIOUS
  <2>1. h[k] = Nth(roots, k - f)
    BY <1>8
  <2>2. k - f \in 0..(Cardinality(roots) - 1)
    BY <1>6, <1>8
  <2> QED
    BY <1>6, <2>1, <2>2, NthRank
<1>13. h \in [0..(t + f - 1) -> 1..Top]
  <2> SUFFICES ASSUME NEW k \in 0..(t + f - 1) PROVE h[k] \in 1..Top
    <3> h = [k \in 0..(t + f - 1) |-> h[k]]
      BY <1>8
    <3> QED
      OBVIOUS
  <2>1. CASE k < f
    <3>1. k \in 0..(f - 1) /\ t + k \in 0..(t + f - 1)
      BY <1>2, <1>3, <2>1
    <3> QED
      BY <1>10, <1>11, <3>1, RootFindsPlace
  <2>2. CASE ~(k < f)
    <3>1. k \in f..(t + f - 1)
      BY <1>3, <2>2
    <3> QED
      BY <1>6, <1>12, <3>1
  <2> QED
    BY <2>1, <2>2
<1>14. \A k \in f..(t + f - 1) : \A j \in f..(t + f - 1) : h[k] = h[j] => k = j
  <2> SUFFICES ASSUME NEW k \in f..(t + f - 1), NEW j \in f..(t + f - 1), h[k] = h[j]
               PROVE  k = j
    OBVIOUS
  <2>1. k - f = j - f
    BY <1>12
  <2> QED
    BY <1>3, <2>1
<1>15. \A k \in f..(t + f - 1) : Value(locator, t, h[k]) = 0
  BY <1>6, <1>12
<1>16. \A k \in f..(t + f - 1) : \E n \in 0..(t - 1) : h[k] = RootAt(P[n])
  BY <1>6, <1>12
<1>17. \A n \in 0..(t - 1) : \E k \in f..(t + f - 1) : h[k] = RootAt(P[n])
  <2> SUFFICES ASSUME NEW n \in 0..(t - 1) PROVE \E k \in f..(t + f - 1) : h[k] = RootAt(P[n])
    OBVIOUS
  <2> DEFINE rho == [k \in 0..(t - 1) |-> h[f + k]]
             r == RootAt(P[n])
  <2>1. \A k \in 0..(t - 1) : rho[k] = h[f + k] /\ f + k \in f..(t + f - 1) /\ f + k \in 0..(t + f - 1)
    BY <1>2, <1>3
  <2>2. \A k \in 0..(t - 1) : rho[k] \in 1..Top /\ Value(locator, t, rho[k]) = 0
    BY <1>13, <1>15, <2>1
  <2>3. \A k \in 0..(t - 1) : \A j \in 0..(t - 1) : rho[k] = rho[j] => k = j
    <3> SUFFICES ASSUME NEW k \in 0..(t - 1), NEW j \in 0..(t - 1), rho[k] = rho[j] PROVE k = j
      OBVIOUS
    <3>1. f + k = f + j
      BY <1>14, <2>1
    <3> QED
      BY <1>3, <3>1
  <2>4. rho \in [0..(t - 1) -> 1..Top]
    BY <2>2
  <2> HIDE DEF rho
  <2>5. Different(rho, t - 1)
    BY <2>3, <2>4 DEF Different
  <2>6. r \in 1..Top /\ Value(locator, t, r) = 0
    <3>1. n \in 0..(t + f - 1)
      BY <1>2, <1>3
    <3> QED
      BY <1>2, <1>10, <3>1, RootFindsPlace
  <2>7. Terms(locator, t) /\ locator[0] # 0
    <3>1. \A k \in 0..t : k \in 0..min_distance
      BY <1>2, <1>3
    <3> QED
      BY <1>3, <3>1 DEF TapsInv, Terms
  <2> HIDE DEF r
  <2>8. \E k \in 0..(t - 1) : rho[k] = r
    BY <1>2, <2>2, <2>5, <2>6, <2>7, OneRootMore
  <2> QED
    BY <2>1, <2>8 DEF r
<1>18. Renumbers(h, P, Q, t, f)
  BY <1>11, <1>13, <1>14, <1>16, <1>17 DEF Renumbers
<1> HIDE DEF Q
<1>19. Supports(Q, t + f - 1, Wrong, block_length - 1) /\ h = RootsAt(Q, t + f - 1)
  <2>1. Supports(P, t + f - 1, Wrong, block_length - 1)
    BY <1>2, <1>3, FaultsSupport DEF f
  <2>2. block_length - 1 = Top - 1
    BY <1>3
  <2> QED
    BY <1>2, <1>3, <1>18, <2>1, <2>2, RenumberedSupports
<1>20. Wrong' = Wrong /\ erasure_roots' = erasure_roots
  BY <1>4 DEF Wrong, erasure_roots
<1>21. \E R : FoundAt(R)'
  <2>1. PICK R : R = Q
    OBVIOUS
  <2>2. FoundAt(R)'
    BY <1>4, <1>9, <1>15, <1>19, <1>20, <2>1 DEF FoundAt, f, t, h
  <2> QED
    BY <2>2
<1>22. locator \in [0..min_distance -> Element] /\ t + f <= min_distance
  BY <1>2, <1>3 DEF TapsInv
<1> QED
  BY <1>2, <1>3, <1>4, <1>7, <1>21, <1>22 DEF FoundAll, f, t

-----------------------------------------------------------------------------
(* The correction within reach. *)

\* The whole locator has the roots handed over, those of the erasures from the one factor and
\* those of the errors from the other.
LEMMA WholeSplits ==
    ASSUME FoundAll, NEW P, FoundAt(P)
    PROVE  LET t == order + erasure_length
               c == [k \in 0..min_distance |-> IF k <= t THEN whole_locator[k] ELSE 0]
           IN  /\ t \in Nat /\ t > 0 /\ t <= min_distance /\ min_distance \in Nat
               /\ DOMAIN whole_locator = 0..t
               /\ Splits(c, t, error_roots, min_distance)
               /\ \A n \in 0..(t - 1) : /\ P[n] \in 0..(Top - 1)
                                        /\ error_roots[n] = RootAt(P[n]) /\ error_roots[n] \in 1..Top
               /\ DOMAIN error_roots = 0..(t - 1)
<1> DEFINE f == erasure_length
           t == order + f
           D == min_distance
           g == [k \in 0..order |-> locator[k]]
           c == [k \in 0..D |-> IF k <= t THEN whole_locator[k] ELSE 0]
<1>0. /\ order \in Nat /\ f \in Nat /\ t \in Nat /\ t > 0 /\ t <= D /\ t - 1 \in Nat /\ D \in Nat
      /\ locator[0] = 1 /\ block_length = Top /\ Top \in Nat /\ 0 \in Element /\ 1 # 0
      /\ \A k \in 0..order : k \in 0..D /\ locator[k] \in Element
  BY CodeAssumption, FieldSize, ZeroAndOne DEF FoundAll, block_length
<1>1. /\ \A n \in 0..(t - 1) : P[n] \in 0..(Top - 1)
      /\ \A n \in 0..(t - 1) : \A k \in 0..(t - 1) : P[n] = P[k] => n = k
  BY <1>0 DEF FoundAt, Supports
<1>2. error_roots = RootsAt(P, t - 1)
  <2>1. error_roots = RootsAt(P, order + erasure_length - 1)
    BY DEF FoundAt
  <2>2. order + (erasure_length - 1) = t - 1
    BY <1>0
  <2> QED
    BY <2>1, <2>2
<1>3. Different(error_roots, t - 1)
  BY <1>0, <1>1, <1>2, PlacesDifferent
<1>4. /\ \A n \in 0..(t - 1) : error_roots[n] = RootAt(P[n]) /\ error_roots[n] \in 1..Top
      /\ DOMAIN error_roots = 0..(t - 1)
  BY <1>2, <1>3 DEF RootsAt, Different
<1>5. Terms(g, order) /\ g[0] = 1 /\ DOMAIN g = 0..order
  BY <1>0 DEF Terms
<1>6. \A n \in f..(t - 1) : Value(g, order, error_roots[n]) = 0
  <2> SUFFICES ASSUME NEW n \in f..(t - 1) PROVE Value(g, order, error_roots[n]) = 0
    OBVIOUS
  <2>1. Value(locator, order, error_roots[n]) = 0
    <3>1. n \in erasure_length..(order + erasure_length - 1)
      BY <1>0
    <3> HIDE DEF g
    <3> QED
      BY <3>1 DEF FoundAt
  <2>2. \A k \in 0..order : g[k] = locator[k]
    OBVIOUS
  <2> HIDE DEF g
  <2> QED
    BY <1>0, <2>1, <2>2, ValueSame
<1> HIDE DEF g
<1>7. /\ DOMAIN whole_locator = 0..t
      /\ Terms(whole_locator, t) /\ whole_locator[0] # 0
      /\ \A n \in 0..(t - 1) : Value(whole_locator, t, error_roots[n]) = 0
  <2>1. CASE f = 0
    <3>1. whole_locator = g /\ t = order
      BY <1>0, <2>1 DEF whole_locator, g
    <3>2. \A n \in 0..(t - 1) : n \in f..(t - 1)
      BY <2>1
    <3> HIDE DEF t, f
    <3> QED
      BY <1>0, <1>5, <1>6, <3>1, <3>2
  <2>2. CASE f # 0
    <3> DEFINE e == erasure_locator
               rho == erasure_roots
    <3>1. f > 0 /\ f - 1 \in Nat /\ \A k \in 0..(f - 1) : k \in 0..(t - 1)
      BY <1>0, <2>2
    <3>2. rho = [k \in 0..(f - 1) |-> rho[k]] /\ \A k \in 0..(f - 1) : rho[k] = error_roots[k]
      BY DEF erasure_roots, FoundAt
    <3> HIDE DEF rho
    <3>3. Different(rho, f - 1)
      <4>1. \A k \in 0..(f - 1) : rho[k] \in 1..Top
        BY <1>4, <3>1, <3>2
      <4>2. rho \in [0..(f - 1) -> 1..Top]
        BY <3>2, <4>1
      <4>3. \A k \in 0..(f - 1) : \A j \in 0..(f - 1) : rho[k] = rho[j] => k = j
        BY <1>3, <3>1, <3>2 DEF Different
      <4> QED
        BY <4>2, <4>3 DEF Different
    <3>4. Splits(e, f, rho, f)
      <4> HIDE DEF f
      <4>1. Splits(polynomial_create_from_roots(rho, f), f, rho, f)
        BY <1>0, <3>1, <3>3, CreatedSplits
      <4> QED
        BY <4>1 DEF erasure_locator, f, rho
    <3>5. DOMAIN e = 0..f
      <4>1. \A k \in 0..(f - 1) : rho[k] \in 1..Top
        BY <3>3 DEF Different
      <4> QED
        BY <1>0, <3>1, <4>1, CreatedHasRoots DEF erasure_locator, rho
    <3>6. Terms(e, f) /\ e[0] # 0 /\ \A k \in 0..(f - 1) : Value(e, f, rho[k]) = 0
      BY <3>4 DEF Splits
    <3>7. whole_locator = polynomial_mul(e, g, order + f) /\ order + f = f + order
      BY <1>0, <2>2 DEF whole_locator, g
    <3> HIDE DEF e, f
    <3>8. IsProduct(whole_locator, e, f, g, order)
      <4> DEFINE h(k) == SumTo([j \in 0..k |-> IF j \in DOMAIN e /\ k - j \in DOMAIN g
                                               THEN field_mul(e[j], g[k - j]) ELSE 0], k)
                 u(k) == SumTo([j \in 0..k |-> IF j \in 0..f /\ k - j \in 0..order
                                               THEN field_mul(e[j], g[k - j]) ELSE 0], k)
      <4>1. \A k \in 0..(f + order) : whole_locator[k] = h(k)
        BY <3>7 DEF polynomial_mul
      <4>2. \A k \in 0..(f + order) : h(k) = u(k)
        BY <1>5, <3>5
      <4> QED
        BY <4>1, <4>2 DEF IsProduct
    <3>9. ASSUME NEW v \in 1..Top
          PROVE  /\ Terms(whole_locator, f + order)
                 /\ whole_locator[0] = field_mul(e[0], g[0])
                 /\ Value(whole_locator, f + order, v) = field_mul(Value(e, f, v), Value(g, order, v))
      BY <1>0, <1>5, <3>6, <3>8, ProductValue
    <3>10. Terms(whole_locator, t) /\ whole_locator[0] # 0
      <4>1. 0 \in 0..(t - 1)
        BY <1>0
      <4>2. error_roots[0] \in 1..Top
        BY <1>4, <4>1
      <4>3. /\ Terms(whole_locator, f + order)
            /\ whole_locator[0] = field_mul(e[0], g[0])
        BY <3>9, <4>2
      <4>4. e[0] \in Element /\ field_mul(e[0], 1) = e[0]
        <5>1. e[0] \in Element
          BY <1>0, <3>6 DEF Terms
        <5> QED
          BY <5>1, MulOne
      <4> QED
        BY <1>5, <3>6, <3>7, <4>3, <4>4
    <3>11. DOMAIN whole_locator = 0..t
      BY <3>7 DEF polynomial_mul
    <3>12. ASSUME NEW n \in 0..(t - 1) PROVE Value(whole_locator, t, error_roots[n]) = 0
      <4> DEFINE v == error_roots[n]
      <4>1. v \in 1..Top
        BY <1>4
      <4> HIDE DEF v
      <4>2. Value(whole_locator, t, v) = field_mul(Value(e, f, v), Value(g, order, v))
        BY <3>7, <3>9, <4>1
      <4>3. Value(e, f, v) \in Element /\ Value(g, order, v) \in Element
        BY <1>0, <1>5, <3>6, <4>1, ValueTerms
      <4>4. CASE n < f
        <5>1. n \in 0..(f - 1)
          BY <1>0, <4>4
        <5>2. Value(e, f, v) = 0
          BY <3>2, <3>6, <5>1 DEF v
        <5> QED
          BY <4>2, <4>3, <5>2, MulIsTimes DEF v
      <4>5. CASE ~(n < f)
        <5>1. n \in f..(t - 1)
          BY <1>0, <4>5
        <5>2. Value(g, order, v) = 0
          BY <1>6, <5>1 DEF v
        <5> QED
          BY <4>2, <4>3, <5>2, MulIsTimes DEF v
      <4> QED
        BY <4>4, <4>5
    <3> QED
      BY <3>10, <3>11, <3>12
  <2> QED
    BY <2>1, <2>2
<1> HIDE DEF t
<1>8. \A k \in 0..D : c[k] = IF k <= t THEN whole_locator[k] ELSE 0
  OBVIOUS
<1>9. \A k \in 0..t : k \in 0..D /\ c[k] = whole_locator[k]
  BY <1>0
<1> HIDE DEF c
<1>10. Terms(c, D) /\ c[0] # 0 /\ \A k \in 0..D : k > t => c[k] = 0
  <2>1. \A k \in 0..D : c[k] \in Element
    <3> SUFFICES ASSUME NEW k \in 0..D PROVE c[k] \in Element
      OBVIOUS
    <3>1. CASE k <= t
      <4>1. k \in 0..t
        BY <3>1
      <4> QED
        BY <1>7, <1>9, <4>1 DEF Terms
    <3>2. CASE ~(k <= t)
      BY <1>0, <1>8, <3>2
    <3> QED
      BY <3>1, <3>2
  <2>2. c[0] = whole_locator[0]
    BY <1>0, <1>9
  <2>3. \A k \in 0..D : k > t => c[k] = 0
    BY <1>0, <1>8
  <2> QED
    BY <1>7, <2>1, <2>2, <2>3 DEF Terms
<1>11. \A n \in 0..(t - 1) : Value(c, t, error_roots[n]) = 0
  <2> SUFFICES ASSUME NEW n \in 0..(t - 1) PROVE Value(c, t, error_roots[n]) = 0
    OBVIOUS
  <2>1. Value(c, t, error_roots[n]) = Value(whole_locator, t, error_roots[n])
    BY <1>0, <1>9, ValueSame
  <2> QED
    BY <1>7, <2>1
<1>12. Splits(c, t, error_roots, D)
  BY <1>3, <1>10, <1>11 DEF Splits
<1> QED
  BY <1>0, <1>1, <1>4, <1>7, <1>12 DEF t, c

\* Forney's values are what is wrong, at the places of the roots.
LEMMA ValuesAreWrong ==
    ASSUME Arrived, FoundAll, NEW P, FoundAt(P), syndrome_copy = find_syndromes(Received),
           NEW t, t = order + erasure_length
    PROVE  \A m \in 0..(t - 1) : Values[m] = Wrong[P[m]] /\ Places[m] = P[m]
<1> DEFINE n == min_distance - 1
           l == t - 1
           f == first_consecutive_root
           b == block_length - 1
           s == syndrome_copy
           rho == error_roots
           c == [k \in 0..min_distance |-> IF k <= t THEN whole_locator[k] ELSE 0]
           x == [m \in 0..l |-> Locator(P[m])]
           w == [m \in 0..l |-> field_div(Wrong[P[m]], field_pow(rho[m], f - 1))]
           z == [m \in 0..l |-> [j \in 0..min_distance |-> field_pow(x[m], j + 1)]]
<1>1. /\ t \in Nat /\ t > 0 /\ t <= min_distance /\ min_distance \in Nat
      /\ DOMAIN whole_locator = 0..t
      /\ Splits(c, t, rho, min_distance)
      /\ \A m \in 0..l : P[m] \in 0..(Top - 1) /\ rho[m] = RootAt(P[m]) /\ rho[m] \in 1..Top
      /\ DOMAIN rho = 0..l
  BY WholeSplits
<1>2. /\ n \in Nat /\ l \in Nat /\ l <= n /\ n <= min_distance /\ f \in Nat /\ b \in Nat /\ b = Top - 1
      /\ n = min_distance - 1 /\ \A k \in 0..l : k \in 0..n
  BY <1>1, FieldSize, CodeAssumption DEF block_length
<1>3. Supports(P, l, Wrong, b)
  <2>1. Supports(P, order + erasure_length - 1, Wrong, b)
    BY DEF FoundAt
  <2>2. order + (erasure_length - 1) = l
    BY DEF FoundAll
  <2> QED
    BY <2>1, <2>2
<1>4. s \in [0..n -> Element]
  <2>1. \A k \in 0..n : s[k] \in Element
    BY SyndromesOfWrong
  <2>2. s = [k \in 0..n |-> s[k]]
    BY DEF find_syndromes
  <2> QED
    BY <2>1, <2>2
<1>5. /\ \A k \in 0..n : Evaluator[k] = Feedback(c, s, k, k)
      /\ Evaluator \in [0..n -> Element]
      /\ Derivative \in [0..l -> Element]
      /\ \A k \in 0..l : Derivative[k] = field_sum(c[k + 1], k + 1)
  <2>1. \A k \in 0..t : whole_locator[k] = c[k]
    BY <1>1
  <2>2. Terms(c, min_distance) /\ \A k \in 0..min_distance : k > t => c[k] = 0
    BY <1>1 DEF Splits
  <2> HIDE DEF c
  <2> QED
    BY <1>1, <1>4, <2>1, <2>2, WholeEvaluates
<1>6. \A m \in 0..l : Wrong[P[m]] \in Element
  BY <1>1, <1>2, BlocksAdd
<1>7. ASSUME NEW m \in 0..l
      PROVE  /\ x[m] \in 1..Top /\ field_mul(rho[m], x[m]) = 1
             /\ field_pow(rho[m], f - 1) \in 1..Top /\ w[m] \in Element
             /\ field_mul(field_pow(rho[m], f - 1), w[m]) = Wrong[P[m]]
             /\ \A k \in Nat : field_mul(w[m], field_pow(x[m], k + 1))
                                 = field_mul(field_mul(Wrong[P[m]], field_pow(x[m], f)), field_pow(x[m], k))
  <2> DEFINE r == rho[m]
             a == Wrong[P[m]]
  <2>1. r \in 1..Top /\ a \in Element /\ r = RootAt(P[m]) /\ P[m] \in 0..(Top - 1)
    BY <1>1, <1>6
  <2>2. x[m] = field_div(1, r)
    <3>1. field_div(1, RootAt(P[m])) = Locator(P[m])
      BY <2>1, RootFindsPlace
    <3>2. x[m] = Locator(P[m])
      OBVIOUS
    <3> HIDE DEF x
    <3> QED
      BY <2>1, <3>1, <3>2
  <2>3. w[m] = field_div(a, field_pow(r, f - 1))
    OBVIOUS
  <2> HIDE DEF r, a, x, w, f
  <2>4. LET xx == field_div(1, r)
            y == field_pow(r, f - 1)
            ww == field_div(a, y)
        IN  /\ xx \in 1..Top /\ field_mul(r, xx) = 1
            /\ y \in 1..Top /\ ww \in Element /\ field_mul(y, ww) = a
            /\ \A k \in Nat : field_mul(ww, field_pow(xx, k + 1))
                                   = field_mul(field_mul(a, field_pow(xx, f)), field_pow(xx, k))
    BY <1>2, <2>1, ForneyWeight
  <2> QED
    BY <2>2, <2>3, <2>4 DEF r, a
<1>8. \A k \in 0..n : s[k] = Combined(w, z, l, k)
  <2> SUFFICES ASSUME NEW k \in 0..n PROVE s[k] = Combined(w, z, l, k)
    OBVIOUS
  <2> DEFINE g == [m \in 0..l |-> field_mul(w[m], z[m][k])]
             h == [j \in 0..l |-> field_mul(Weights(P, l)[j], field_pow(LocatorsAt(P, l)[j], k))]
  <2>1. Spanned(s, Weights(P, l), LocatorsAt(P, l), l, n)
    BY <1>2, <1>3, SyndromesSpan
  <2>2. s[k] = SumTo(h, l)
    BY <2>1 DEF Spanned, PowerSum
  <2>3. Combined(w, z, l, k) = SumTo(g, l)
    BY DEF Combined
  <2>4. ASSUME NEW m \in 0..l PROVE g[m] = h[m]
    <3>1. k \in Nat /\ k \in 0..min_distance
      BY <1>1, <1>2
    <3>2. g[m] = field_mul(w[m], field_pow(x[m], k + 1))
      BY <3>1
    <3>3. h[m] = field_mul(field_mul(Wrong[P[m]], field_pow(x[m], f)), field_pow(x[m], k))
      BY DEF Weights, LocatorsAt
    <3> HIDE DEF g, h, x, w, f
    <3> QED
      BY <1>7, <3>1, <3>2, <3>3
  <2>5. g = h
    BY <2>4
  <2> HIDE DEF g, h
  <2> QED
    BY <2>2, <2>3, <2>5
<1>9. Inverses(z, x, rho, t, min_distance)
  <2>1. ASSUME NEW m \in 0..(t - 1) PROVE Geometric(z[m], x[m], min_distance)
    BY DEF Geometric
  <2> HIDE DEF x, z
  <2> QED
    BY <1>7, <2>1 DEF Inverses
<1>10. Terms(w, t - 1)
  <2> HIDE DEF w
  <2> QED
    BY <1>7 DEF Terms
<1> SUFFICES ASSUME NEW m \in 0..l PROVE Values[m] = Wrong[P[m]] /\ Places[m] = P[m]
  OBVIOUS
<1> DEFINE r == rho[m]
           e == Value(Evaluator, n, r)
           d == Value(Derivative, l, r)
           y == field_pow(r, f - 1)
<1>11. r \in 1..Top /\ y \in 1..Top /\ w[m] \in Element /\ field_mul(y, w[m]) = Wrong[P[m]]
  <2> HIDE DEF w
  <2> QED
    BY <1>1, <1>7
<1>12. Terms(Evaluator, n) /\ e = field_mul(w[m], d) /\ d \in 1..Top
  <2>1. n \in Nat /\ t - 1 <= n /\ n <= min_distance /\ m \in 0..(t - 1)
    BY <1>2
  <2>2. Explains(s, w, z, t, n) /\ Evaluates(Evaluator, Derivative, c, s, t, n)
    <3> HIDE DEF c, w, z, s
    <3> QED
      BY <1>5, <1>8 DEF Explains, Evaluates
  <2> HIDE DEF n, c, w, x, z, s, rho
  <2>3. /\ Terms(Evaluator, n)
        /\ Value(Evaluator, n, rho[m]) = field_mul(w[m], Value(Derivative, t - 1, rho[m]))
        /\ Value(Derivative, t - 1, rho[m]) \in 1..Top
    <3>1. t \in Nat /\ t > 0 /\ t <= min_distance /\ min_distance \in Nat /\ Splits(c, t, rho, min_distance)
      BY <1>1
    <3>2. Terms(Evaluator, n)
      BY <3>1, <1>9, <1>10, <2>1, <2>2, EvaluatorAtRoot
    <3>3. Value(Evaluator, n, rho[m]) = field_mul(w[m], Value(Derivative, t - 1, rho[m]))
      BY <3>1, <1>9, <1>10, <2>1, <2>2, EvaluatorAtRoot
    <3>4. Value(Derivative, t - 1, rho[m]) \in 1..Top
      BY <3>1, <1>9, <1>10, <2>1, <2>2, EvaluatorAtRoot
    <3> QED
      BY <3>2, <3>3, <3>4
  <2> QED
    BY <2>3
<1>13. Share(r) = w[m]
  <2>1. LogPowers(element_exp[r], r, n) /\ LogPowers(element_exp[r], r, l)
    <3>1. LogPowers(element_exp[r], r, n)
      BY <1>11, RowIsPowers
    <3> QED
      BY <1>2, <3>1 DEF LogPowers
  <2>2. Share(r) = field_div(e, d)
    <3> HIDE DEF n, l, r
    <3>1. polynomial_eval_lut(Evaluator, element_exp[r]) = Value(Evaluator, n, r)
      BY <1>2, <1>5, <1>11, <2>1, EvalIsValue
    <3>2. polynomial_eval_lut(Derivative, element_exp[r]) = Value(Derivative, l, r)
      BY <1>2, <1>5, <1>11, <2>1, EvalIsValue
    <3> QED
      BY <3>1, <3>2 DEF Share
  <2> HIDE DEF e, d, w, r
  <2>3. d \in Element /\ w[m] \in Element
    BY <1>11, <1>12, FieldSize
  <2>4. e = field_mul(d, w[m]) /\ e \in Element
    BY <1>12, <2>3, MulCommutes, MulType
  <2>5. field_div(e, d) \in Element /\ field_mul(d, field_div(e, d)) = e
    BY <1>12, <2>4, MulDivided
  <2>6. field_div(e, d) = w[m]
    BY <1>12, <2>3, <2>4, <2>5, MulCancels
  <2> QED
    BY <2>2, <2>6
<1>14. Values[m] = field_mul(y, Share(r)) /\ Places[m] = find_error_location(r)
  BY <1>1 DEF Values, Places, find_error_values, Share, Evaluator, Derivative
<1>15. r = RootAt(P[m]) /\ find_error_location(RootAt(P[m])) = P[m]
  BY <1>1, RootFindsPlace
<1> HIDE DEF w, r, y
<1> QED
  BY <1>11, <1>13, <1>14, <1>15

\* Added to what arrived, they make it what was sent.
LEMMA CorrectRestores ==
    ASSUME Arrived, FoundAll, Correct, received = Received, syndrome_copy = find_syndromes(Received)
    PROVE  result' = msg /\ returned' = Len(msg)
<1> DEFINE t == order + erasure_length
           l == t - 1
           b == block_length - 1
           one(k) == [n \in DOMAIN Places |-> IF Places[n] = k THEN Values[n] ELSE 0]
<1>1. PICK P : FoundAt(P)
  BY DEF FoundAll
<1>2. t \in Nat /\ t > 0 /\ l \in Nat /\ DOMAIN error_roots = 0..l
  <2>1. t \in Nat /\ t > 0 /\ l \in Nat
    BY DEF FoundAll
  <2>2. DOMAIN error_roots = 0..(order + erasure_length - 1)
    BY <1>1 DEF FoundAt, RootsAt
  <2>3. order + (erasure_length - 1) = l
    BY DEF FoundAll
  <2> QED
    BY <2>1, <2>2, <2>3
<1>3. /\ b \in Nat /\ Wrong \in [0..b -> Element] /\ SentBlock \in [0..b -> Element]
      /\ Received \in [0..b -> Element]
      /\ \A p \in 0..b : Received[p] = field_add(SentBlock[p], Wrong[p])
  BY BlocksAdd
<1>4. \A n \in 0..l : Values[n] = Wrong[P[n]] /\ Places[n] = P[n]
  <2>1. PICK u : u = t
    OBVIOUS
  <2>2. \A n \in 0..(u - 1) : Values[n] = Wrong[P[n]] /\ Places[n] = P[n]
    BY <1>1, <2>1, ValuesAreWrong
  <2> QED
    BY <2>1, <2>2
<1>5. Supports(P, l, Wrong, b)
  <2>1. Supports(P, order + erasure_length - 1, Wrong, b)
    BY <1>1 DEF FoundAt
  <2>2. order + (erasure_length - 1) = l
    BY DEF FoundAll
  <2> QED
    BY <2>1, <2>2
<1>6. DOMAIN Places = 0..l /\ Order(Places) = l
  <2>1. DOMAIN Places = 0..l
    BY <1>2 DEF Places
  <2> QED
    BY <1>2, <2>1, OrderOf
<1>7. received' = [k \in DOMAIN received |-> field_add(received[k], SumTo(one(k), Order(Places)))]
  BY DEF Correct, Places, Values
<1>8. ASSUME NEW k \in 0..b PROVE received'[k] = SentBlock[k]
  <2> DEFINE g == [n \in 0..l |-> IF Places[n] = k THEN Values[n] ELSE 0]
             h == [n \in 0..l |-> IF P[n] = k THEN Values[n] ELSE 0]
  <2>1. one(k) = g
    BY <1>6
  <2>2. g = h
    BY <1>4
  <2> HIDE DEF one, g
  <2>3. received'[k] = field_add(Received[k], SumTo(h, l))
    BY <1>3, <1>6, <1>7, <2>1, <2>2
  <2>4. SumTo(h, l) = Wrong[k]
    <3>1. Terms(Wrong, b)
      BY <1>3 DEF Terms
    <3>2. \A n \in 0..l : Values[n] = Wrong[P[n]]
      BY <1>4
    <3> HIDE DEF l, b
    <3>3. PutAt(Values, P, l, k) = Wrong[k]
      BY <1>2, <1>3, <1>5, <3>1, <3>2, SupportFills
    <3> QED
      BY <3>3 DEF PutAt
  <2>5. SentBlock[k] \in Element /\ Wrong[k] \in Element /\ Received[k] = field_add(SentBlock[k], Wrong[k])
    BY <1>3
  <2> QED
    BY <2>3, <2>4, <2>5, AddTwice
<1> DEFINE r == received'
<1>9. \A p \in 0..b : r[p] = SentBlock[p]
  BY <1>8
<1>10. Payload(r) = msg /\ Len(word) - min_distance = Len(msg)
  <2>1. PICK q : q = r
    OBVIOUS
  <2>2. Payload(q) = msg /\ Len(word) - min_distance = Len(msg)
    BY <1>9, <2>1, PayloadIsMessage
  <2> QED
    BY <2>1, <2>2
<1> QED
  BY <1>10 DEF Correct

\* Syndromes that are not all 0 show that there is something wrong.
LEMMA SomethingWrong ==
    ASSUME Arrived, NEW k \in 0..(min_distance - 1), find_syndromes(Received)[k] # 0
    PROVE  Cardinality(Damaged) + erasure_length > 0
<1> DEFINE e == Cardinality(Damaged)
           b == block_length - 1
           v == generator_roots[k]
<1> SUFFICES ASSUME ~(e + erasure_length > 0) PROVE FALSE
  OBVIOUS
<1>1. e \in Nat /\ \E P : FaultyAt(P, e)
  BY FaultsPlaced
<1>2. PICK P : FaultyAt(P, e)
  BY <1>1
<1>3. erasure_length \in Nat /\ 0..(e + erasure_length - 1) = {}
  BY <1>1 DEF Arrived
<1>4. \A p \in 0..b : Wrong[p] = 0
  BY <1>2, <1>3 DEF FaultyAt
<1>5. find_syndromes(Received)[k] = Value(Wrong, b, v) /\ v \in 1..Top /\ b \in Nat
  BY SyndromesOfWrong, GeneratorHasRoots, BlocksAdd
<1>6. Value(Wrong, b, v) = 0
  <2> DEFINE f == [p \in 0..b |-> field_mul(Wrong[p], field_pow(v, p))]
  <2>1. \A p \in 0..b : f[p] = 0
    <3> SUFFICES ASSUME NEW p \in 0..b PROVE field_mul(Wrong[p], field_pow(v, p)) = 0
      OBVIOUS
    <3>1. Wrong[p] = 0 /\ field_pow(v, p) \in Element
      BY <1>4, <1>5, PowUnfolds
    <3> QED
      BY <3>1, MulIsTimes, ZeroAndOne
  <2>2. Value(Wrong, b, v) = SumTo(f, b)
    BY DEF Value
  <2> HIDE DEF f
  <2> QED
    BY <1>5, <2>1, <2>2, SumToZero
<1> QED
  BY <1>5, <1>6

-----------------------------------------------------------------------------
(* The message is recovered. *)

\* What an untouched call leaves as it is.
LEMMA CallKept ==
    ASSUME UNCHANGED call
    PROVE  /\ Arrived => Arrived'
           /\ Damaged' = Damaged /\ WithinReach' = WithinReach
           /\ Received' = Received
           /\ erasure_roots' = erasure_roots /\ StartSyndromes' = StartSyndromes
           /\ msg' = msg /\ sent' = sent /\ erasure_length' = erasure_length
           /\ Wrong' = Wrong
<1>1. UNCHANGED <<msg, sent, word, erasure_length, erasures>>
  BY DEF call
<1>2. Fits(msg)' = Fits(msg) /\ Coded(msg)' = Coded(msg)
  BY <1>1 DEF Fits, Coded, parity, encoded_polynomial, pad_length
<1>3. Arrived => Arrived'
  BY <1>1, <1>2 DEF Arrived
<1>4. Damaged' = Damaged
  BY <1>1 DEF Damaged, Contains
<1>5. WithinReach' = WithinReach
  BY <1>1, <1>4 DEF WithinReach
<1>6. Received' = Received /\ erasure_roots' = erasure_roots /\ Wrong' = Wrong
  BY <1>1 DEF Received, erasure_roots, Wrong
<1>7. StartSyndromes' = StartSyndromes
  BY <1>1, <1>6 DEF StartSyndromes, find_modified_syndromes, erasure_locator, find_syndromes
<1> QED
  BY <1>1, <1>3, <1>4, <1>5, <1>6, <1>7

\* What a call decodes is a block that was sent, and what arrived is kept until it is corrected.
\* Within reach the register never has more taps than there are errors, and what is found are
\* the places of all that is wrong.
ReachInv ==
    /\ pc = "encode" => sent = <<>>
    /\ pc \in {"decode", "locate", "correct"} => Arrived
    /\ pc \in {"locate", "correct"} => received = Received /\ syndrome_copy = find_syndromes(Received)
    /\ pc = "locate" /\ WithinReach => /\ syndromes = StartSyndromes
                                       /\ error_roots = erasure_roots
                                       /\ i <= min_distance - erasure_length
                                       /\ numerrors <= Cardinality(Damaged)
                                       /\ Cardinality(Damaged) + erasure_length > 0
    /\ pc = "correct" /\ WithinReach => FoundAll
    /\ RecoversMessage

\* What the channel delivers is a block as long as the one sent.
LEMMA DamageArrives ==
    ASSUME IInv', CodewordInv, PlacesInv', Damage
    PROVE  Arrived'
<1>1. /\ pc' = "decode" /\ msg' = msg /\ sent' = sent /\ Fits(msg) /\ sent = Coded(msg)
  BY DEF Damage, CodewordInv
<1>2. Fits(msg)' /\ Coded(msg)' = Coded(msg)
  BY <1>1 DEF Fits, Coded, parity, encoded_polynomial, pad_length
<1>3. sent \in Seq(Element)
  <2>1. 0 \in 0..(min_distance - 1)
    BY FieldSize, CodeAssumption
  <2> QED
    BY <1>1, <2>1, CodedIsCodeword
<1>4. word' \in Seq(Element) /\ Len(word') = Len(sent)
  <2>1. PICK bad, error :
          word' = [k \in DOMAIN sent |-> IF k \in bad THEN field_add(sent[k], error[k]) ELSE sent[k]]
    BY DEF Damage
  <2>2. DOMAIN sent = 1..Len(sent) /\ Len(sent) \in Nat
    BY <1>3
  <2>3. Len(word') = Len(sent)
    BY <2>1, <2>2
  <2> QED
    BY <2>3, DamageKeepsElements
<1>5. erasure_length' \in Nat /\ erasures' \in [1..erasure_length' -> 0..(Len(word') - 1)]
  BY <1>1 DEF IInv, PlacesInv
<1>6. PICK suspects \in kSubset(erasure_length', 0..(Len(sent) - 1)) :
        erasures' = [k \in 1..erasure_length' |-> Nth(suspects, k - 1)]
  BY DEF Damage
<1>7. /\ Cardinality(suspects) = erasure_length'
      /\ IsFiniteSet(suspects) /\ suspects \subseteq Nat
  <2>1. Len(sent) \in Nat
    BY <1>3
  <2>2. IsFiniteSet(0..(Len(sent) - 1)) /\ 0..(Len(sent) - 1) \subseteq Nat
    BY <2>1, FS_Interval
  <2>3. suspects \subseteq 0..(Len(sent) - 1) /\ Cardinality(suspects) = erasure_length'
    BY DEF kSubset
  <2> QED
    BY <2>2, <2>3, FS_Subset
<1> DEFINE n == erasure_length'
<1>8. ASSUME NEW k \in 1..n
      PROVE  Cardinality({d \in suspects : d < erasures'[k]}) = k - 1
  <2>1. k - 1 \in 0..(Cardinality(suspects) - 1)
    <3>1. n \in Nat /\ Cardinality(suspects) = n
      BY <1>5, <1>7
    <3> HIDE DEF n
    <3>2. k - 1 \in 0..(n - 1)
      BY <3>1
    <3> QED
      BY <3>1, <3>2
  <2>2. erasures'[k] = Nth(suspects, k - 1)
    BY <1>6
  <2> QED
    BY <1>7, <2>1, <2>2, NthRank
<1>9. ASSUME NEW j \in 1..n, NEW k \in 1..n, erasures'[j] = erasures'[k]
      PROVE  j = k
  <2>1. j - 1 = k - 1
    BY <1>8, <1>9
  <2> QED
    BY <1>5, <2>1
<1> QED
  BY <1>1, <1>2, <1>4, <1>5, <1>9 DEF Arrived

\* Nothing that arrives within reach is refused.
LEMMA NoneRefused ==
    ASSUME Arrived, WithinReach
    PROVE  Len(word) <= block_length /\ erasure_length <= min_distance
<1>1. Cardinality(Damaged) \in Nat /\ erasure_length \in Nat /\ min_distance \in Nat
  BY FaultsPlaced, BlocksAdd DEF Arrived
<1>2. Len(word) <= block_length
  BY BlocksAdd DEF Arrived
<1>3. erasure_length <= min_distance
  BY <1>1 DEF WithinReach
<1> QED
  BY <1>2, <1>3

\* Where the syndromes are all 0 the message is there already, and where they are not the
\* search begins.
LEMMA StartReaches ==
    ASSUME ReachInv, FindSyndromes
    PROVE  ReachInv'
<1>1. Arrived /\ UNCHANGED call /\ pc = "decode"
  BY DEF ReachInv, FindSyndromes
<1>2. /\ Arrived' /\ Damaged' = Damaged /\ WithinReach' = WithinReach
      /\ Received' = Received
      /\ erasure_roots' = erasure_roots /\ StartSyndromes' = StartSyndromes
      /\ msg' = msg /\ sent' = sent /\ erasure_length' = erasure_length
  BY <1>1, CallKept
<1>3. /\ received' = Received /\ error_roots' = erasure_roots
      /\ syndrome_copy' = find_syndromes(Received)
      /\ DOMAIN syndrome_copy' = 0..(min_distance - 1)
  BY DEF FindSyndromes, find_syndromes
<1>4. syndrome_copy' = find_syndromes(Received)'
  BY <1>2, <1>3 DEF find_syndromes
<1>5. CASE \A k \in DOMAIN syndrome_copy' : syndrome_copy'[k] = 0
  <2>1. /\ pc' = "done" /\ result' = Payload(Received) /\ returned' = Len(word) - min_distance
    BY <1>5 DEF FindSyndromes
  <2>2. ASSUME WithinReach PROVE result' = msg /\ returned' = Len(msg)
    <3>1. \A k \in 0..(min_distance - 1) : find_syndromes(Received)[k] = 0
      BY <1>3, <1>5
    <3>2. ASSUME NEW p \in 0..(block_length - 1) PROVE Received[p] = SentBlock[p]
      <4>1. Wrong[p] = 0
        BY <1>1, <2>2, <3>1, NothingWrong
      <4>2. Received[p] = field_add(SentBlock[p], Wrong[p]) /\ SentBlock[p] \in Element
        BY <1>1, BlocksAdd
      <4> QED
        BY <4>1, <4>2, AddZero
    <3>3. PICK r : r = Received
      OBVIOUS
    <3>4. Payload(r) = msg /\ Len(word) - min_distance = Len(msg)
      BY <1>1, <3>2, <3>3, PayloadIsMessage
    <3> QED
      BY <2>1, <3>3, <3>4
  <2> QED
    BY <1>2, <2>1, <2>2 DEF ReachInv, RecoversMessage
<1>6. CASE ~(\A k \in DOMAIN syndrome_copy' : syndrome_copy'[k] = 0)
  <2>1. /\ pc' = "locate" /\ i' = 0 /\ numerrors' = 0
        /\ syndromes' = IF erasure_length = 0 THEN syndrome_copy'
                                              ELSE find_modified_syndromes(syndrome_copy')
        /\ erasure_length <= min_distance
    BY <1>6 DEF FindSyndromes
  <2>2. syndromes' = StartSyndromes
    <3>1. PICK s : s = syndrome_copy'
      OBVIOUS
    <3> QED
      BY <1>3, <2>1 DEF StartSyndromes, find_modified_syndromes
  <2>3. Cardinality(Damaged) \in Nat /\ erasure_length \in Nat /\ min_distance \in Nat
    BY <1>1, FaultsPlaced, BlocksAdd DEF Arrived
  <2>4. Cardinality(Damaged) + erasure_length > 0
    <3>1. PICK k \in 0..(min_distance - 1) : find_syndromes(Received)[k] # 0
      BY <1>3, <1>6
    <3> QED
      BY <1>1, <3>1, SomethingWrong
  <2> QED
    BY <1>2, <1>3, <1>4, <2>1, <2>2, <2>3, <2>4 DEF ReachInv, RecoversMessage
<1> QED
  BY <1>5, <1>6

\* A round keeps the taps within the errors.
LEMMA RoundReaches ==
    ASSUME IInv, PlacesInv, DescribesInv, ReachInv, find_error_locator
    PROVE  ReachInv'
<1>1. /\ Locating /\ pc = "locate" /\ pc' = "locate" /\ UNCHANGED call
      /\ UNCHANGED <<received, syndromes, syndrome_copy, error_roots>>
  BY Zenon DEF find_error_locator, NoDiscrepancy, LengthenLocator, AdjustLocator, Locating
<1>2. /\ Arrived => Arrived'
      /\ Damaged' = Damaged /\ WithinReach' = WithinReach
      /\ Received' = Received
      /\ erasure_roots' = erasure_roots /\ StartSyndromes' = StartSyndromes
      /\ erasure_length' = erasure_length
  BY <1>1, CallKept
<1>3. find_syndromes(Received)' = find_syndromes(Received)
  BY <1>2 DEF find_syndromes
<1>4. Ready
  BY <1>1 DEF Ready, DescribesInv
<1>5. Arrived /\ received = Received /\ syndrome_copy = find_syndromes(Received)
  BY <1>1 DEF ReachInv
<1>6. Arrived' /\ received' = Received' /\ syndrome_copy' = find_syndromes(Received)'
  BY <1>1, <1>2, <1>3, <1>5
<1>7. ASSUME WithinReach
      PROVE  /\ syndromes' = StartSyndromes' /\ error_roots' = erasure_roots'
             /\ i' <= min_distance - erasure_length
             /\ numerrors' <= Cardinality(Damaged)
             /\ Cardinality(Damaged) + erasure_length > 0
  <2>1. /\ syndromes = StartSyndromes /\ error_roots = erasure_roots
        /\ numerrors <= Cardinality(Damaged)
        /\ Cardinality(Damaged) + erasure_length > 0
    BY <1>1, <1>7 DEF ReachInv
  <2>2. Within
    BY <1>5, <1>7, <2>1 DEF Within
  <2>3. numerrors' <= Cardinality(Damaged) /\ i' = i + 1
    BY <1>4, <2>1, <2>2, TapsWithin
  <2>4. i' <= min_distance - erasure_length
    <3>1. i \in Nat /\ min_distance \in Nat /\ erasure_length \in Nat
      BY <1>4, ReadyNumbers
    <3>2. i < min_distance - erasure_length
      BY <1>1 DEF Locating
    <3> QED
      BY <2>3, <3>1, <3>2
  <2> QED
    BY <1>1, <1>2, <2>1, <2>3, <2>4
<1> QED
  BY <1>1, <1>2, <1>6, <1>7 DEF ReachInv, RecoversMessage

\* The search hands over the places of all that is wrong.
LEMMA SearchReaches ==
    ASSUME IInv, PlacesInv, DescribesInv, ReachInv, factorize_error_locator
    PROVE  ReachInv'
<1>1. /\ pc = "locate" /\ i >= min_distance - erasure_length /\ UNCHANGED call
      /\ UNCHANGED <<received, syndrome_copy>>
      /\ pc' \in {"correct", "done"}
  BY DEF factorize_error_locator
<1>2. /\ Arrived => Arrived'
      /\ WithinReach' = WithinReach /\ Received' = Received
  BY <1>1, CallKept
<1>3. find_syndromes(Received)' = find_syndromes(Received)
  BY <1>2 DEF find_syndromes
<1>4. Arrived /\ received = Received /\ syndrome_copy = find_syndromes(Received)
  BY <1>1 DEF ReachInv
<1>5. Arrived' /\ received' = Received' /\ syndrome_copy' = find_syndromes(Received)'
  BY <1>1, <1>2, <1>3, <1>4
<1>6. ASSUME WithinReach PROVE pc' = "correct" /\ FoundAll'
  <2>1. /\ syndromes = StartSyndromes /\ error_roots = erasure_roots
        /\ i <= min_distance - erasure_length
        /\ numerrors <= Cardinality(Damaged)
        /\ Cardinality(Damaged) + erasure_length > 0
    BY <1>1, <1>6 DEF ReachInv
  <2>2. i = min_distance - erasure_length
    <3>1. i \in Nat /\ min_distance \in Nat /\ erasure_length \in Nat
      BY <1>1, CodeAssumption, FieldSize DEF IInv, RegisterInv
    <3> QED
      BY <1>1, <2>1, <3>1
  <2>3. Searching
    BY <1>1, <1>4, <1>6, <2>1, <2>2 DEF Searching, Within
  <2> QED
    BY <2>3, SearchPlaces
<1> QED
  BY <1>1, <1>2, <1>5, <1>6 DEF ReachInv, RecoversMessage

\* Every step keeps to the message within reach.
LEMMA ReachKept ==
    ASSUME IInv, IInv', PlacesInv, PlacesInv', CodewordInv, DescribesInv, ReachInv, [Next]_vars
    PROVE  ReachInv'
<1>1. CASE encode
  BY <1>1 DEF encode, ReachInv, RecoversMessage
<1>2. CASE Damage
  <2>1. pc' = "decode"
    BY <1>2 DEF Damage
  <2> QED
    BY <1>2, <2>1, DamageArrives DEF ReachInv, RecoversMessage
<1>3. CASE Refuse
  <2>1. pc = "decode" /\ pc' = "done" /\ UNCHANGED call /\ Arrived
        /\ (Len(word) > block_length \/ erasure_length > min_distance)
    BY <1>3 DEF Refuse, ReachInv
  <2>2. ~WithinReach
    <3> SUFFICES ASSUME WithinReach PROVE FALSE
      OBVIOUS
    <3>1. Len(word) <= block_length /\ erasure_length <= min_distance
      BY <2>1, NoneRefused
    <3>2. /\ Len(word) \in Nat /\ block_length \in Nat
          /\ erasure_length \in Nat /\ min_distance \in Nat
      BY <2>1, BlocksAdd DEF Arrived
    <3> QED
      BY <2>1, <3>1, <3>2
  <2>3. WithinReach' = WithinReach
    BY <2>1, CallKept
  <2> QED
    BY <2>1, <2>2, <2>3 DEF ReachInv, RecoversMessage
<1>4. CASE FindSyndromes
  BY <1>4, StartReaches
<1>5. CASE find_error_locator
  BY <1>5, RoundReaches
<1>6. CASE factorize_error_locator
  BY <1>6, SearchReaches
<1>7. CASE Correct
  <2>1. pc = "correct" /\ pc' = "done" /\ UNCHANGED call
    BY <1>7 DEF Correct
  <2>2. Arrived /\ received = Received /\ syndrome_copy = find_syndromes(Received)
    BY <2>1 DEF ReachInv
  <2>3. ASSUME WithinReach PROVE result' = msg /\ returned' = Len(msg)
    <3>1. FoundAll
      BY <2>1, <2>3 DEF ReachInv
    <3> QED
      BY <1>7, <2>2, <3>1, CorrectRestores
  <2>4. WithinReach' = WithinReach /\ msg' = msg
    BY <2>1, CallKept
  <2> QED
    BY <2>1, <2>3, <2>4 DEF ReachInv, RecoversMessage
<1>8. CASE Done \/ UNCHANGED vars
  <2>1. UNCHANGED <<pc, call, received, syndromes, syndrome_copy, lfsr, error_roots, returned, result>>
    BY <1>8 DEF Done, vars
  <2>2. UNCHANGED call /\ UNCHANGED <<locator, order, i, numerrors>>
    BY <2>1 DEF lfsr
  <2>3. /\ Arrived => Arrived'
        /\ Damaged' = Damaged /\ WithinReach' = WithinReach
        /\ Received' = Received
        /\ erasure_roots' = erasure_roots /\ StartSyndromes' = StartSyndromes
        /\ msg' = msg /\ sent' = sent /\ erasure_length' = erasure_length
        /\ Wrong' = Wrong
    BY <2>2, CallKept
  <2>4. find_syndromes(Received)' = find_syndromes(Received)
    BY <2>3 DEF find_syndromes
  <2>5. FoundAll => FoundAll'
    BY <2>1, <2>2, <2>3 DEF FoundAll, FoundAt
  <2> QED
    BY <2>1, <2>2, <2>3, <2>4, <2>5 DEF ReachInv, RecoversMessage
<1> QED
  BY <1>1, <1>2, <1>3, <1>4, <1>5, <1>6, <1>7, <1>8 DEF Next

\* "It can handle as many as num_roots/2 bytes having corruption" (correct.h), and two erasures
\* in the place of one: whatever a channel does within that reach, the decoder returns the
\* message that was sent, for every field, code and message.
THEOREM RecoversWithinReach == Spec => []RecoversMessage
<1> DEFINE All == IInv /\ PlacesInv /\ CodewordInv /\ DescribesInv /\ ReachInv
<1>1. Init => All
  <2>1. Init => CodewordInv /\ DescribesInv
    BY CodeAssumption DEF Init, CodewordInv, DescribesInv
  <2>2. Init => ReachInv
    BY DEF Init, ReachInv, RecoversMessage
  <2> QED
    BY <2>1, <2>2, StartsInside, PlacesStart
<1>2. All /\ [Next]_vars => All'
  BY StepInside, PlacesKept, CodewordKept, DescribesKept, ReachKept
<1>3. All => RecoversMessage
  BY DEF ReachInv
<1> QED
  BY <1>1, <1>2, <1>3, PTL DEF Spec

=============================================================================
