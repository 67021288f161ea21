------------------------------- MODULE BigNum -------------------------------
(***************************************************************************)
(* The arithmetic of the GlobalPlatform internal API                       *)
(* (lib/user/otz_tee_arith_api.c).  A TEE_BigInt is an array of words, the *)
(* most significant first; TEE_BigIntSizeInU32 makes it two words longer   *)
(* than its value.  Every loop over words is a function over their         *)
(* positions here, its carry a recursive function; TEE_BigIntMult, and     *)
(* TEE_BigIntDivide, whose loop need not end, are followed round by round. *)
(***************************************************************************)
EXTENDS Integers, FiniteSetsExt

CONSTANTS
    Words,     \* TEE_BigIntSizeInU32(TEE_BigIntNumberOfBits)
    WordBits,  \* bits of a word (32)
    Sample     \* the numbers calls are made with

ASSUME BigNumAssumption ==
    /\ Words \in Nat \ (0 .. 2) /\ WordBits \in Nat \ (0 .. 1)
    /\ Sample \subseteq 0 .. 2 ^ (WordBits * (Words - 2)) - 1

Base == 2 ^ WordBits

\* What an array of n words stands for, and the array for a number.
Value(x, n) == MapThenSumSet(LAMBDA i : x[i] * Base ^ (n - 1 - i), 0 .. n - 1)
Array(v, n) == [i \in 0 .. n - 1 |-> (v \div Base ^ (n - 1 - i)) % Base]

VARIABLES
    call,    \* the last call: its operation, its operands and its result
    mult,    \* the multiplication under way, or the last one
    divide   \* the division under way, or the last one

bigvars == <<call, mult, divide>>

----------------------------------------------------------------------------
(* Adding and subtracting.                                                 *)

\* TEE_BigIntAdd, and TEE_BigIntAddMult for twice as many words: the carry is
\* recognised by the sum being smaller than an operand.
AddWords(x, y, n) ==
    LET carry[i \in 0 .. n] ==
            IF i = n THEN 0
            ELSE LET sum == (x[i] + y[i] + carry[i + 1]) % Base
                 IN IF sum < x[i] \/ sum < y[i] THEN 1 ELSE 0
    IN [i \in 0 .. n - 1 |-> (x[i] + y[i] + carry[i + 1]) % Base]

TEE_BigIntAdd(x, y) == AddWords(x, y, Words)
TEE_BigIntAddMult(x, y) == AddWords(x, y, 2 * Words)

\* The borrow is recognised by the difference being larger than the first operand.
TEE_BigIntSub(x, y) ==
    LET borrow[i \in 0 .. Words] ==
            IF i = Words THEN 0
            ELSE IF (x[i] - borrow[i + 1] - y[i]) % Base > x[i] THEN 1 ELSE 0
    IN [i \in 0 .. Words - 1 |-> (x[i] - borrow[i + 1] - y[i]) % Base]

incrementBigInt(x) ==
    LET carry[i \in 0 .. Words] ==
            IF i = Words THEN 1
            ELSE IF carry[i + 1] = 1 /\ (x[i] + 1) % Base < x[i] THEN 1 ELSE 0
    IN [i \in 0 .. Words - 1 |-> (x[i] + carry[i + 1]) % Base]

----------------------------------------------------------------------------
(* Bits, comparisons and shifts.                                           *)

Bit(w, j) == (w \div 2 ^ j) % 2

\* The highest bit that is set, 0 for zero too.
MaxBitPos(x) ==
    LET set == {p \in (0 .. Words - 1) \X (0 .. WordBits - 1) : Bit(x[p[1]], p[2]) = 1}
    IN IF set = {} THEN 0
       ELSE LET i == Min({p[1] : p \in set})
            IN (Words - i - 1) * WordBits + Max({p[2] : p \in {q \in set : q[1] = i}})

TEE_BigIntGetBit(x, k) == Bit(x[Words - 1 - k \div WordBits], k % WordBits)

Sign(a, b) == IF a < b THEN -1 ELSE IF a > b THEN 1 ELSE 0

\* Numbers whose first words differ are not compared: "&" binds weaker than
\* "!=", and what is tested is the lowest bit of the first word.
TEE_BigIntCmp(x, y) ==
    LET diff == {i \in 0 .. Words - 1 : x[i] # y[i]}
    IN IF x[0] = y[0]
       THEN IF diff = {} THEN 0 ELSE Sign(x[Min(diff)], y[Min(diff)])
       ELSE IF x[0] % 2 = 1 THEN -1 ELSE 1

\* The loop leaves the last but one word out, and the last decides in the end.
TEE_BigIntCmpS32(x, v) ==
    LET last == Sign(x[Words - 1], v)
    IN IF last # 0 THEN last
       ELSE IF \E i \in 0 .. Words - 3 : x[i] # 0 THEN 1 ELSE 0

\* TEE_BigIntConvertFromS32 of a positive number.
TEE_BigIntConvertFromS32(v) == [i \in 0 .. Words - 1 |-> IF i = Words - 1 THEN v ELSE 0]

\* Whole words are moved first, in the source itself; then the upper bits of
\* each word go to the one before it.
TEE_BigIntLeftShift(x, bits) ==
    LET w == bits \div WordBits
        k == bits % WordBits
        moved == [i \in 0 .. Words |-> IF i + w < Words THEN x[i + w] ELSE 0]
    IN [i \in 0 .. Words - 1 |->
            ((moved[i] * 2 ^ k) % Base) + (moved[i + 1] \div 2 ^ (WordBits - k))]

----------------------------------------------------------------------------
\* One call of each operation with operands of the sample.
Compute(op, x, y) ==
    LET a == Array(x, Words)
        b == Array(y, Words)
    IN call' = [op |-> op, x |-> x, y |-> y,
                res |-> CASE op = "add" -> Value(TEE_BigIntAdd(a, b), Words)
                          [] op = "sub" -> Value(TEE_BigIntSub(a, b), Words)
                          [] op = "inc" -> Value(incrementBigInt(a), Words)
                          [] op = "cmp" -> TEE_BigIntCmp(a, b)
                          [] op = "cmps32" -> TEE_BigIntCmpS32(a, y % Base)
                          [] op = "from" -> Value(TEE_BigIntConvertFromS32(y % Base), Words)
                          [] op = "max" -> MaxBitPos(a)
                          [] op = "shift" -> Value(TEE_BigIntLeftShift(a, y % (Words * WordBits)), Words)]

Operation == {"add", "sub", "inc", "cmp", "cmps32", "from", "max", "shift"}

----------------------------------------------------------------------------
(* TEE_BigIntMult: op1 is doubled for every bit of op2, and added to the    *)
(* destination for those that are set.                                      *)

Digit(v, k) == (v \div Base ^ k) % Base

\* A carry is lost in v + w: a word of both is all ones, and takes a carry.
\* (The carry out of the first of n words is dropped by design.)
LosesCarry(v, w, n) ==
    \E k \in 0 .. n - 2 :
        /\ Digit(v, k) = Base - 1 /\ Digit(w, k) = Base - 1
        /\ (v % Base ^ k) + (w % Base ^ k) >= Base ^ k

\* The product is added to d, what the destination holds.
TEE_BigIntMult(d, x, y) ==
    mult' = [pc |-> "loop", d |-> d, x |-> x, y |-> y, k |-> 0, lost |-> FALSE,
             temp |-> [i \in 0 .. 2 * Words - 1 |->
                          IF i < Words THEN 0 ELSE Array(x, Words)[i - Words]],
             dest |-> Array(d, 2 * Words)]

TEE_BigIntSquare(d, x) == TEE_BigIntMult(d, x, x)

\* The round for bit k; history: whether a sum lost a carry.
MultRound ==
    LET m == mult
        Val(a) == Value(a, 2 * Words)
        temp == IF m.k = 0 THEN m.temp ELSE TEE_BigIntAddMult(m.temp, m.temp)
        add == TEE_BigIntGetBit(Array(m.y, Words), m.k) = 1
    IN /\ m.pc = "loop"
       /\ mult' = [m EXCEPT
             !.temp = temp, !.dest = IF add THEN TEE_BigIntAddMult(@, temp) ELSE @,
             !.k = @ + 1, !.pc = IF m.k = MaxBitPos(Array(m.y, Words)) THEN "done" ELSE @,
             !.lost = \/ @
                      \/ m.k > 0 /\ LosesCarry(Val(m.temp), Val(m.temp), 2 * Words)
                      \/ add /\ LosesCarry(Val(m.dest), Val(temp), 2 * Words)]
       /\ UNCHANGED <<call, divide>>

----------------------------------------------------------------------------
(* TEE_BigIntDivide: the remainder is reduced by the divisor shifted to the  *)
(* left, the quotient is added to what dest_q holds.                         *)

\* x power y of ints; a negative power ends as 0 once y has wrapped round.
XPowerY(x, y) == IF y < 0 THEN 0 ELSE x ^ y

\* An adder with its one word set; a word before the array is not in it.
Adder(i, v) == [j \in 0 .. Words - 1 |-> IF j = i THEN v ELSE 0]

\* dest_q is 0, or the dividend itself in the reductions modulo a number.
TEE_BigIntDivide(q, x, y) ==
    /\ divide.pc # "loop"
    /\ divide' = [pc |-> "loop", x |-> x, y |-> y, start |-> q, q |-> Array(q, Words),
                  tmp |-> Array(x, Words), slip |-> FALSE]
    /\ UNCHANGED <<call, mult>>

\* TEE_BigIntAddMod and TEE_BigIntSubMod, up to the division.
TEE_BigIntAddMod(x, y, n) ==
    LET s == Value(TEE_BigIntAdd(Array(x, Words), Array(y, Words)), Words)
    IN TEE_BigIntDivide(s, s, n)
TEE_BigIntSubMod(x, y, n) ==
    LET s == Value(TEE_BigIntSub(Array(x, Words), Array(y, Words)), Words)
    IN TEE_BigIntDivide(s, s, n)
TEE_BigIntReduceMod(x, n) == TEE_BigIntDivide(0, x, n)

Divisor == Array(divide.y, Words)
DiffBit == MaxBitPos(divide.tmp) - MaxBitPos(Divisor)
Shifted == TEE_BigIntLeftShift(Divisor, DiffBit)

\* A borrow is lost in x - y: a word of y is all ones and has to lend one more.
LendsAllOnes(x, y) ==
    \E i \in 1 .. Words - 1 :
        y[i] = Base - 1 /\ Value(x, Words) % Base ^ (Words - 1 - i) < Value(y, Words) % Base ^ (Words - 1 - i)

\* A round's new quotient and remainder; slip: this is not the way division is
\* done (the shifted divisor is shifted again), or a borrow is lost.
Round(q, s, slip) ==
    divide' = [divide EXCEPT !.q = q, !.tmp = TEE_BigIntSub(divide.tmp, s),
                             !.slip = @ \/ slip \/ LendsAllOnes(divide.tmp, s)]

Enters == divide.pc = "loop" /\ ~ divide.slip /\ TEE_BigIntCmp(divide.tmp, Divisor) >= 0

\* Defect: the word of the quotient's bit is found with one bit less a word.
DivideShifted_bit ==
    /\ Enters /\ DiffBit # 0 /\ TEE_BigIntCmp(divide.tmp, Shifted) >= 0
    /\ Round(TEE_BigIntAdd(divide.q, Adder(Words - 1 - DiffBit \div (WordBits - 1),
                                           XPowerY(2, DiffBit % (WordBits - 1)))), Shifted, FALSE)
    /\ UNCHANGED <<call, mult>>

\* Bound: a division that slipped is not followed any further.
DivideShifted ==
    /\ Enters /\ DiffBit # 0 /\ TEE_BigIntCmp(divide.tmp, Shifted) >= 0
    /\ Round(TEE_BigIntAdd(divide.q, Adder(Words - 1 - DiffBit \div WordBits,
                                           XPowerY(2, DiffBit % WordBits))), Shifted, FALSE)
    /\ UNCHANGED <<call, mult>>

DivideReshifted ==
    /\ Enters /\ DiffBit > 1 /\ TEE_BigIntCmp(divide.tmp, Shifted) < 0
    /\ Round(TEE_BigIntAdd(divide.q, Adder(Words - 1 - DiffBit \div (WordBits - 1),
                                           XPowerY(2, (DiffBit % (WordBits - 1)) - 1))),
             TEE_BigIntLeftShift(Shifted, DiffBit - 1), TRUE)
    /\ UNCHANGED <<call, mult>>

DivideOnce ==
    /\ Enters
    /\ DiffBit = 0 \/ (DiffBit = 1 /\ TEE_BigIntCmp(divide.tmp, Shifted) < 0)
    /\ Round(incrementBigInt(divide.q), Divisor, FALSE)
    /\ UNCHANGED <<call, mult>>

\* The remainder is copied; or there was no memory for an adder, and it is not.
DivideEnds ==
    /\ divide.pc = "loop" /\ ~ divide.slip
    /\ \/ TEE_BigIntCmp(divide.tmp, Divisor) < 0 /\ divide' = [divide EXCEPT !.pc = "done"]
       \/ Enters /\ DiffBit # 0 /\ divide' = [divide EXCEPT !.pc = "failed"]
    /\ UNCHANGED <<call, mult>>

BigInit ==
    /\ call = [op |-> "none", x |-> 0, y |-> 0, res |-> 0]
    /\ mult = [pc |-> "idle", d |-> 0, x |-> 0, y |-> 0, k |-> 0, lost |-> FALSE,
               temp |-> Array(0, 2 * Words), dest |-> Array(0, 2 * Words)]
    /\ divide = [pc |-> "idle", x |-> 0, y |-> 0, start |-> 0, q |-> Array(0, Words),
                 tmp |-> Array(0, Words), slip |-> FALSE]

BigNext ==
    \/ /\ call.op = "none" /\ mult.pc = "idle" /\ divide.pc = "idle"
       /\ \/ \E op \in Operation, x, y \in Sample : Compute(op, x, y) /\ UNCHANGED <<mult, divide>>
          \/ /\ \E x, y \in Sample : \E d \in {0, y} :
                   TEE_BigIntMult(d, x, y) \/ TEE_BigIntSquare(d, x)
             /\ UNCHANGED <<call, divide>>
          \/ \E x, y, n \in Sample : TEE_BigIntAddMod(x, y, n) \/ TEE_BigIntSubMod(x, y, n)
          \/ \E x, n \in Sample : TEE_BigIntReduceMod(x, n)
    \/ MultRound \/ DivideShifted \/ DivideReshifted \/ DivideOnce \/ DivideEnds

BigSpec == BigInit /\ [][BigNext]_bigvars
----------------------------------------------------------------------------
Modulus(n) == Base ^ n

\* The operations on arrays of words compute the operations on numbers: sums
\* and differences exactly unless two words of all ones meet a carry (for a
\* difference, the subtrahend's a borrow), which the comparison that stands
\* for the carry does not see.
ArithmeticExact ==
    LET x == call.x
        y == call.y
        res == call.res
        M == Modulus(Words)
    IN /\ call.op = "add" => (res = (x + y) % M <=> ~ LosesCarry(x, y, Words))
       /\ call.op = "sub" =>
             (res = (x - y) % M <=> ~ LendsAllOnes(Array(x, Words), Array(y, Words)))
       /\ call.op = "inc" => res = (x + 1) % M
       /\ call.op = "cmp" => res = Sign(x, y)
       /\ call.op = "cmps32" /\ x < Base => res = Sign(x, y % Base)
       /\ call.op = "from" => res = y % Base
       /\ call.op = "max" => IF x = 0 THEN res = 0 ELSE 2 ^ res <= x /\ x < 2 ^ (res + 1)
       /\ call.op = "shift" => res = (x * 2 ^ (y % (Words * WordBits))) % M

\* Through every round of a multiplication that lost no carry, the destination
\* has gained the product with the bits of op2 that were looked at.
ProductExact ==
    ~ mult.lost /\ mult.pc # "idle" =>
        /\ Value(mult.dest, 2 * Words) = mult.d + mult.x * (mult.y % 2 ^ mult.k)
        /\ mult.pc = "done" => mult.y < 2 ^ mult.k

\* Through every round of a division that has not slipped, what is left is the
\* dividend less a multiple of the divisor, which dest_q counts if it was 0;
\* at the end it is smaller than the divisor, unless the dividend was a
\* difference below zero.
DivisionExact ==
    LET left == Value(divide.tmp, Words)
    IN ~ divide.slip /\ divide.pc # "idle" =>
          /\ divide.y # 0 => left <= divide.x /\ (divide.x - left) % divide.y = 0
          /\ divide.start = 0 /\ divide.y # 0 =>
                Value(divide.q, Words) * divide.y + left = divide.x
          /\ divide.pc = "done" /\ divide.x < Modulus(Words - 1) => left < divide.y

\* Together: what the calls, the multiplications and the divisions compute.
BigNumExact == ArithmeticExact /\ ProductExact /\ DivisionExact
=============================================================================
