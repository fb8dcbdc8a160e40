------------------------------- MODULE InfInt -------------------------------
(***************************************************************************)
(* The integers the teams compute with (lib/infint/InfInt.h): a sign and   *)
(* the elements of the absolute value in base 10^DIGIT_COUNT, the lowest   *)
(* first (TLA+ counts them from 1).  Operators are the const members; the  *)
(* members that change their object are actions on x, beside the integer   *)
(* ref that x should stand for.                                            *)
(*                                                                         *)
(* What C computes in ELEM_TYPE (int) and PRODUCT_TYPE (long long) is cut  *)
(* to that many bits.                                                      *)
(***************************************************************************)
EXTENDS Integers, Sequences, FiniteSets, SequencesExt

CONSTANTS DIGIT_COUNT,          \* 9 in the code
          INT_BITS, LONG_BITS,  \* 32 and 64
          Samples,              \* the integers that are operands
          Limit                 \* of the results TLC may compute

BASE        == 10^DIGIT_COUNT
UPPER_BOUND == BASE - 1

ASSUME WidthAssumption ==
    /\ 2 * BASE <= 2^(INT_BITS - 1) - 1
    /\ BASE * BASE <= 2^(LONG_BITS - 1) - 1

MinOf(bits) == -(2^(bits - 1))
MaxOf(bits) == 2^(bits - 1) - 1
Wrap(n, bits) == ((n - MinOf(bits)) % 2^bits) + MinOf(bits)
ELEM(n)    == Wrap(n, INT_BITS)
PRODUCT(n) == Wrap(n, LONG_BITS)

\* my_div and its like, for a positive denom: C rounds towards zero.
my_div(num, denom) ==
    LET quot == IF num < 0 THEN -((-num) \div denom) ELSE num \div denom
    IN  [quot |-> quot, rem |-> num - denom * quot]

Elements == Seq(Int)
Number   == [pos : BOOLEAN, val : Elements]

Zero == [pos |-> TRUE, val |-> <<0>>]

Highest(S) == CHOOSE n \in S : \A m \in S : m <= n
Lowest(S)  == CHOOSE n \in S : \A m \in S : n <= m
Abs(l) == IF l < 0 THEN -l ELSE l

\* The index of the highest element that is not 0; 0 if there is none.
Top(val) == Highest({0} \cup {i \in DOMAIN val : val[i] # 0})

-----------------------------------------------------------------------------
(* correct                                                                 *)

\* Each element keeps the remainder and passes the quotient on.
truncateToBase[val \in Elements] ==
    LET from[i \in Nat, carry \in Int] ==
          LET dt == my_div(ELEM(val[i] + carry), BASE)
          IN  IF i <= Len(val) THEN <<dt.rem>> \o from[i + 1, dt.quot]
              ELSE IF carry # 0 THEN <<carry>> ELSE <<>>
    IN  from[1, 0]

\* The sign of the whole number.
isPositive(val) == Top(val) = 0 \/ val[Top(val)] > 0

\* Element i has the other sign than sign: it borrows from the next higher
\* element that is not 0, across the zeros between.
Borrow_slip(val, i, sign) ==
    IF sign * val[i] >= 0 THEN val
    ELSE SubSeq(val, 1, i - 1) \o <<val[i] + sign * BASE, val[i + 1] - sign>>
         \o SubSeq(val, i + 2, Len(val))
Borrow(val, i, sign) ==
    LET index == Lowest({j \in i + 1 .. Len(val) : val[j] # 0})
    IN  IF sign * val[i] >= 0 THEN val
        ELSE SubSeq(val, 1, i - 1) \o <<val[i] + sign * BASE>>
             \o [k \in 1 .. index - i - 1 |-> sign * UPPER_BOUND]
             \o <<val[index] - sign>> \o SubSeq(val, index + 1, Len(val))

equalizeSigns[val \in Elements] ==
    LET sign == IF isPositive(val) THEN 1 ELSE -1
        down[v \in Elements, i \in Int] ==
          IF i < 1 THEN v ELSE down[Borrow(v, i, sign), i - 1]
    IN  down[val, Top(val) - 1]

removeLeadingZeros(val) == SubSeq(val, 1, Highest({1, Top(val)}))

\* correct(), once truncateToBase is done.
Settle[pos \in BOOLEAN, hasValidSign \in BOOLEAN, val \in Elements] ==
    LET equal == equalizeSigns[val]
    IN  [pos |-> IF isPositive(val) THEN equal = <<0>> \/ ~hasValidSign \/ pos
                 ELSE hasValidSign /\ ~pos,
         val |-> removeLeadingZeros([i \in DOMAIN equal |-> Abs(equal[i])])]

correct(n, hasValidSign) == Settle[n.pos, hasValidSign, truncateToBase[n.val]]

\* correct(true)
correctZeros(n) == [n EXCEPT !.val = removeLeadingZeros(@)]

\* The sign that the code sets after correct().
WithSign(n, pos) == [n EXCEPT !.pos = (n.val = <<0>>) \/ pos]

-----------------------------------------------------------------------------
(* The constructors                                                        *)

ElementsOf[l \in Nat] ==
    LET dt == my_div(l, BASE)
    IN  <<dt.rem>> \o IF dt.quot > 0 THEN ElementsOf[dt.quot] ELSE <<>>

Decremented(n) == correct([n EXCEPT !.val[1] = @ - (IF n.pos THEN 1 ELSE -1)], TRUE)
Incremented(n) == correct([n EXCEPT !.val[1] = @ + (IF n.pos THEN 1 ELSE -1)], TRUE)

\* -INT_MIN is no int: its neighbour is taken, and one subtracted later.
FromSigned(l, bits) ==
    LET subtractOne == l = MinOf(bits)
        m == IF subtractOne THEN l + 1 ELSE l
        n == [pos |-> m >= 0, val |-> ElementsOf[Abs(m)]]
    IN  IF subtractOne THEN Decremented(n) ELSE n

FromUnsigned(l) == [pos |-> TRUE, val |-> ElementsOf[l]]

Of(l) == FromSigned(l, INT_BITS)

-----------------------------------------------------------------------------
(* Text: a sequence of decimal digits, after a Minus or not                *)

Minus == 10

Decimal[l \in Nat] == IF l < 10 THEN <<l>> ELSE Append(Decimal[l \div 10], l % 10)

atoi(text) ==
    LET digits == IF Head(text) = Minus THEN Tail(text) ELSE text
        n == FoldLeft(LAMBDA a, d : 10 * a + d, 0, digits)
    IN  IF Head(text) = Minus THEN -n ELSE n

\* setfill('0') and setw(DIGIT_COUNT)
Padded(e) == [k \in 1..DIGIT_COUNT |-> (e \div 10^(DIGIT_COUNT - k)) % 10]

\* operator<<
toString(n) ==
    (IF n.pos THEN <<>> ELSE <<Minus>>) \o Decimal[Last(n.val)]
    \o FoldLeft(LAMBDA text, e : text \o Padded(e), <<>>, Tail(Reverse(n.val)))

\* Chunks of DIGIT_COUNT characters from the end; the first one is what is
\* left, and may be a Minus alone.
fromString(text) ==
    LET whole == Len(text) \div DIGIT_COUNT
        rest  == Len(text) % DIGIT_COUNT
        ss    == SubSeq(text, 1, rest)
        chunk(k) == SubSeq(text, Len(text) - k * DIGIT_COUNT + 1, Len(text) - (k - 1) * DIGIT_COUNT)
        val   == [k \in 1..whole |-> atoi(chunk(k))]
                 \o IF rest = 0 \/ ss = <<Minus>> THEN <<>> ELSE <<atoi(ss)>>
        back  == Last(val)
    IN  correctZeros([pos |-> ss # <<Minus>> /\ back >= 0,
                      val |-> Append(Front(val), IF back < 0 THEN -back ELSE back)])

numberOfDigits(n) ==
    (Len(n.val) - 1) * DIGIT_COUNT
    + 1 + Cardinality({k \in 1..DIGIT_COUNT - 1 : Last(n.val) > 10^k - 1})

digitAt(n, i) == (n.val[(i \div DIGIT_COUNT) + 1] \div 10^(i % DIGIT_COUNT)) % 10

-----------------------------------------------------------------------------
(* Relational operations                                                   *)

\* The same sign, length and elements.
Equal(n, m) == n = m

\* The signs decide, then the lengths, then the highest elements that
\* differ: 1, -1, or 0 when nothing does.
Order[n \in Number, m \in Number] ==
    LET greater == IF n.pos THEN 1 ELSE -1
        top == Highest({i \in DOMAIN n.val : n.val[i] # m.val[i]})
    IN  CASE n = m -> 0
          [] n.pos # m.pos -> greater
          [] n.pos = m.pos /\ Len(n.val) # Len(m.val) ->
               IF Len(n.val) > Len(m.val) THEN greater ELSE -greater
          [] OTHER -> IF n.val[top] > m.val[top] THEN greater ELSE -greater

Less(n, m)           == Order[n, m] = -1
LessOrEqual(n, m)    == Order[n, m] # 1
Greater(n, m)        == Order[n, m] = 1
GreaterOrEqual(n, m) == Order[n, m] # -1

-----------------------------------------------------------------------------
(* Arithmetic                                                              *)

Negated(n) == [n EXCEPT !.pos = ~@]
Absolute(n) == IF n.pos THEN n ELSE Negated(n)

Signed(n, i) == IF i > Len(n.val) THEN 0 ELSE IF n.pos THEN n.val[i] ELSE -n.val[i]
Columns(n, m) == 1..Highest({Len(n.val), Len(m.val)})

Plus[n \in Number, m \in Number] ==
    correct([pos |-> TRUE, val |-> [i \in Columns(n, m) |-> ELEM(Signed(n, i) + Signed(m, i))]], FALSE)

Minused[n \in Number, m \in Number] ==
    correct([pos |-> TRUE, val |-> [i \in Columns(n, m) |-> ELEM(Signed(n, i) - Signed(m, i))]], FALSE)

\* The elements of val times factor, and the last carry.
multiplyByDigit(factor, val) ==
    LET from[i \in Nat, carry \in Int] ==
          LET dt == my_div(PRODUCT(val[i] * factor + carry), BASE)
          IN  IF i <= Len(val) THEN <<ELEM(dt.rem)>> \o from[i + 1, ELEM(dt.quot)]
              ELSE IF carry > 0 THEN <<carry>> ELSE <<>>
    IN  from[1, 0]

Scaled[n \in Number, rhs \in Int] ==
    WithSign(correct([n EXCEPT !.val = multiplyByDigit(Abs(rhs), @)], FALSE), n.pos = (rhs >= 0))

\* Column digit of a long multiplication: its element, and the carry.
Column(n, m, digit, carry) ==
    LET last == Lowest({digit, Len(n.val)})
        add[i \in Nat, elem \in Int, c \in Int] ==
          LET dt == my_div(PRODUCT(elem + n.val[i] * m.val[digit - i + 1]), BASE)
          IN  IF i > last THEN <<elem, c>> ELSE add[i + 1, ELEM(dt.rem), PRODUCT(c + dt.quot)]
        dt0 == my_div(carry, BASE)
    IN  add[Highest({1, digit - Len(m.val) + 1}), ELEM(dt0.rem), dt0.quot]

\* The carry of the last column is 0: the loop after the columns has nothing
\* to do.
Times[n \in Number, m \in Number] ==
    LET from[digit \in Nat, carry \in Int] ==
          LET c == Column(n, m, digit, carry)
          IN  IF digit > Len(n.val) + Len(m.val) THEN <<>>
              ELSE <<c[1]>> \o from[digit + 1, c[2]]
    IN  WithSign(correct([pos |-> TRUE, val |-> from[1, 0]], FALSE), n.pos = m.pos)

\* How many times D fits into R, by bisection.
dInR[R \in Number, D \in Number] ==
    LET bisect[min \in Nat, max \in Int] ==
          LET avg == my_div(ELEM(max + min) + 1, 2).quot
              order == Order[R, Scaled[D, avg]]
          IN  IF max <= min THEN min
              ELSE IF order = 0 THEN avg
              ELSE IF order = 1 THEN bisect[avg, max] ELSE bisect[min, avg - 1]
    IN  bisect[0, UPPER_BOUND]

\* The loop of the divisions, from the highest element of N down.
LongDivision[N \in Number, D \in Number] ==
    LET from[i \in Nat, R \in Number, val \in Elements] ==
          LET shifted == correctZeros([R EXCEPT !.val = <<N.val[i]>> \o @])
              next[cnt \in Nat] ==
                from[i - 1, Minused[shifted, Scaled[D, cnt]], <<cnt>> \o val]
          IN  IF i = 0 THEN [R |-> R, val |-> val] ELSE next[dInR[shifted, D]]
    IN  from[Len(N.val), Zero, <<>>]

Quotient[n \in Number, m \in Number] ==
    IF Equal(m, Zero) THEN Of(0)
    ELSE WithSign(correct([pos |-> TRUE, val |-> LongDivision[Absolute(n), Absolute(m)].val], FALSE),
                  n.pos = m.pos)

Remainder[n \in Number, m \in Number] ==
    IF Equal(m, Zero) THEN Of(0)
    ELSE WithSign(correct(LongDivision[Absolute(n), Absolute(m)].R, FALSE), n.pos)

-----------------------------------------------------------------------------
(* intSqrt                                                                 *)

\* The upper bound, from the lower one.
SqrtTop_slip(hdn) == Scaled[hdn, 10]
SqrtTop(hdn) == Scaled[hdn, 100]

optimizeSqrtSearchBounds(n, lo, hi) ==
    LET hdn == FoldLeft(LAMBDA h, i : Scaled[h, 10], Of(1),
                        [i \in 1 .. (numberOfDigits(n) \div 2) - 1 |-> i])
    IN  [lo |-> IF Less(lo, hdn) THEN hdn ELSE lo,
         hi |-> IF Greater(hi, SqrtTop(hdn)) THEN SqrtTop(hdn) ELSE hi]

intSqrt(n) ==
    LET b == optimizeSqrtSearchBounds(n, Of(0), Plus[Quotient[n, Of(2)], Of(1)])
        search[lo \in Number, hi \in Number, first \in BOOLEAN] ==
          LET try[mid \in Number] ==
                CASE Order[Times[mid, mid], n] = 0  -> mid
                  [] Order[Times[mid, mid], n] = -1 -> search[mid, hi, FALSE]
                  [] Order[Times[mid, mid], n] = 1  -> search[lo, mid, FALSE]
          IN  IF first \/ Less(lo, Minused[hi, Of(1)])
              THEN try[Quotient[Plus[hi, lo], Of(2)]] ELSE lo
    IN  IF LessOrEqual(n, Of(0)) THEN Of(0) ELSE search[b.lo, b.hi, TRUE]

-----------------------------------------------------------------------------
(* Conversions, which print an error out of bounds but go on               *)

ToSigned(n, bits) ==
    LET result == FoldRight(LAMBDA e, a : Wrap(a * BASE + e, bits), n.val, 0)
    IN  Wrap(IF n.pos THEN result ELSE -result, bits)

ToUnsigned(n, bits) == FoldRight(LAMBDA e, a : (a * BASE + e) % 2^bits, n.val, 0)

-----------------------------------------------------------------------------
VARIABLES x,      \* an InfInt
          ref     \* the integer it stands for

vars == <<x, ref>>

Bits == {INT_BITS, LONG_BITS}

Init == x = Zero /\ ref = 0

Text(s, zeros) ==
    (IF s < 0 THEN <<Minus>> ELSE <<>>) \o [k \in 1..zeros |-> 0]
    \o Decimal[Abs(s)]

\* operator= for the integer types of C.
AssignSigned(s) ==
    \E bits \in Bits : s \in MinOf(bits)..MaxOf(bits) /\ x' = FromSigned(s, bits) /\ ref' = s

AssignUnsigned(s) ==
    \E bits \in Bits : s \in 0..2^bits - 1 /\ x' = FromUnsigned(s) /\ ref' = s

\* operator= for text: the decimal digits of s, after zeros or not.  Zeros
\* after a minus are left out: when they fill the first chunk, it is no
\* longer below 0 and the minus is lost.  toString never writes them.
AssignText(s) ==
    \E zeros \in IF s < 0 THEN {0} ELSE 0..DIGIT_COUNT : x' = fromString(Text(s, zeros)) /\ ref' = s

Increment == x' = Incremented(x) /\ ref' = ref + 1
Decrement == x' = Decremented(x) /\ ref' = ref - 1

Operand(s) == fromString(Text(s, 0))

Fits(a, b) == b # 0 => Abs(a) <= Limit \div Abs(b)

\* Division as C defines it, rounded towards zero.
Ratio(a, b) == IF (a < 0) = (b < 0) THEN Abs(a) \div Abs(b) ELSE -(Abs(a) \div Abs(b))

Add(s) == x' = Plus[x, Operand(s)] /\ ref' = ref + s
Sub(s) == x' = Minused[x, Operand(s)] /\ ref' = ref - s
Mul(s) == Fits(ref, s) /\ x' = Times[x, Operand(s)] /\ ref' = ref * s

MulElem(s) ==
    /\ Fits(ref, s) /\ s \in -MaxOf(INT_BITS)..MaxOf(INT_BITS)
    /\ x' = Scaled[x, s] /\ ref' = ref * s

\* operator/= leaves its object alone when the divisor is 0.
Div(s) ==
    \/ Equal(Operand(s), Of(0)) /\ UNCHANGED vars
    \/ /\ ~Equal(Operand(s), Of(0))
       /\ x' = Quotient[x, Operand(s)] /\ ref' = Ratio(ref, s)

\* operator%= takes the 0 that operator% returns for the divisor 0.
Mod(s) ==
    /\ x' = Remainder[x, Operand(s)]
    /\ ref' = IF s = 0 THEN 0 ELSE ref - s * Ratio(ref, s)

Next ==
    /\ ref \in Samples
    /\ \/ Increment \/ Decrement
       \/ \E s \in Samples :
            \/ AssignSigned(s) \/ AssignUnsigned(s) \/ AssignText(s)
            \/ Add(s) \/ Sub(s) \/ Mul(s) \/ MulElem(s) \/ Div(s) \/ Mod(s)

Spec == Init /\ [][Next]_vars

-----------------------------------------------------------------------------
(* Properties                                                              *)

Value[val \in Elements] == IF val = <<>> THEN 0 ELSE Head(val) + BASE * Value[Tail(val)]

\* After every operator, whatever carries and borrows it makes, x stands for
\* the integer, in its only form: elements below BASE, none in front that is
\* 0, and 0 without a minus.
Exact ==
    /\ \A i \in DOMAIN x.val : x.val[i] \in 0..UPPER_BOUND
    /\ Top(x.val) = Len(x.val) \/ x = Zero
    /\ (IF x.pos THEN Value[x.val] ELSE -Value[x.val]) = ref

\* The text of a number is read back as the same number, and numberOfDigits
\* tells its length without the minus: the process teams send a number as
\* its count of digits and that much text.
TextExact ==
    /\ toString(x) = Text(ref, 0)
    /\ fromString(toString(x)) = x
    /\ numberOfDigits(x) = Len(Text(Abs(ref), 0))
    /\ \A i \in 0..numberOfDigits(x) - 1 : digitAt(x, i) = (Abs(ref) \div 10^i) % 10

\* What is asked of x is answered as of the integer: its text, comparisons with
\* any other number, conversions to a type it fits in, the square root.
AnswersExact ==
    /\ TextExact
    /\ \A s \in Samples :
         LET n == Operand(s)
         IN  /\ Equal(x, n) = (ref = s)
             /\ Less(x, n) = (ref < s) /\ LessOrEqual(x, n) = (ref <= s)
             /\ Greater(x, n) = (ref > s) /\ GreaterOrEqual(x, n) = (ref >= s)
    /\ \A bits \in Bits :
         /\ ref \in MinOf(bits)..MaxOf(bits) => ToSigned(x, bits) = ref
         /\ ref \in 0..2^bits - 1 => ToUnsigned(x, bits) = ref
    /\ ref > 0 =>
         \E root \in {Value[intSqrt(x).val]} : root * root <= ref /\ ref - root * root <= 2 * root
=============================================================================
