------------------------------- MODULE Bitset -------------------------------
(***************************************************************************)
(* BitsetLite and StrongBitset: flags kept in an array of words.  A word   *)
(* is the set of its bits.  The last word has bits from BitCount on, which *)
(* set() and ~ set like any other.                                         *)
(***************************************************************************)
EXTENDS Integers

CONSTANTS
    BitCount,       \* the flags a bitset has
    WordBits,       \* bits of a word: 64 in the program
    Names           \* the bitsets that are combined with one another

ASSUME BitsetAssumption ==
    /\ BitCount \in Nat
    /\ WordBits \in Nat \ {0}

VARIABLE bits       \* by name: array_

WordCount == IF BitCount = 0 THEN 0 ELSE (BitCount - 1) \div WordBits + 1
WordIndexes == 0..(WordCount - 1)
LastWord == WordCount - 1

\* all_ones_word and all_zeros_word
AllOnes == 0..(WordBits - 1)
AllZeros == {}
Words == [WordIndexes -> SUBSET AllOnes]

\* last_word_mask: all of a last word that is fully used.
LastWordBits == BitCount % WordBits
LastWordMask == IF LastWordBits = 0 THEN AllOnes ELSE 0..(LastWordBits - 1)

BitsetTypeOK == bits \in [Names -> Words]

\* The default constructor.
Cleared == [i \in WordIndexes |-> AllZeros]
BitsetInit == bits = [n \in Names |-> Cleared]

-----------------------------------------------------------------------------
(* Single bits *)

GetBit(b, pos) == (pos % WordBits) \in b[pos \div WordBits]

SetNothrow(b, pos, value) ==
    [b EXCEPT ![pos \div WordBits] = IF value THEN @ \cup {pos % WordBits} ELSE @ \ {pos % WordBits}]

\* set(pos, value), reset(pos), a bit reference, and StrongBitset's constructor from a bit:
\* a position from BitCount on throws std::out_of_range and changes nothing.
SetPosition(n, pos, value) ==
    /\ pos < BitCount
    /\ bits' = [bits EXCEPT ![n] = SetNothrow(@, pos, value)]

Test(b, pos) == IF pos >= BitCount THEN "out_of_range" ELSE IF GetBit(b, pos) THEN "set" ELSE "clear"

\* make_bit()
MakeBit(pos) == SetNothrow(Cleared, pos, TRUE)

-----------------------------------------------------------------------------
(* Whole words *)

\* set() and reset() without a position.
SetAll(n) == bits' = [bits EXCEPT ![n] = [i \in WordIndexes |-> AllOnes]]
ResetAll(n) == bits' = [bits EXCEPT ![n] = Cleared]

\* Variant: the last word is left out, as in the loops of all() and any().
OrWordsAllButLast(left, right) ==
    [i \in WordIndexes |-> IF i = LastWord THEN left[i] ELSE left[i] \cup right[i]]

\* std::transform over the words of two bitsets.
OrWords(left, right) == [i \in WordIndexes |-> left[i] \cup right[i]]
AndWords(left, right) == [i \in WordIndexes |-> left[i] \cap right[i]]
XorWords(left, right) == [i \in WordIndexes |-> (left[i] \ right[i]) \cup (right[i] \ left[i])]

\* |=, &= and ^=; the operators that return a new bitset do the same to a copy.
Or(n, m) == bits' = [bits EXCEPT ![n] = OrWords(@, bits[m])]
And(n, m) == bits' = [bits EXCEPT ![n] = AndWords(@, bits[m])]
Xor(n, m) == bits' = [bits EXCEPT ![n] = XorWords(@, bits[m])]

\* n = ~m, which sets the bits nobody uses.
Not(n, m) == bits' = [bits EXCEPT ![n] = [i \in WordIndexes |-> AllOnes \ bits[m][i]]]

\* The constructor from a word: only the first word, masked if it is the last one as well.
FromWord(word) ==
    [i \in WordIndexes |->
        IF i > 0 THEN AllZeros ELSE IF BitCount <= WordBits THEN word \cap LastWordMask ELSE word]

BitsetNext ==
    \E n \in Names :
        \/ \E pos \in 0..BitCount, value \in BOOLEAN : SetPosition(n, pos, value)
        \/ SetAll(n) \/ ResetAll(n)
        \/ \E m \in Names : Or(n, m) \/ And(n, m) \/ Xor(n, m) \/ Not(n, m)

BitsetSpec == BitsetInit /\ [][BitsetNext]_bits

-----------------------------------------------------------------------------
(* Observers *)

\* Variant: the first bits of every word are compared with the mask of the last one.
AllMasked(b) == \A i \in WordIndexes : LastWordMask \subseteq b[i]

\* all(), any() and none(): whole words, and the last one through its mask.
All(b) ==
    \/ BitCount = 0
    \/ /\ \A i \in WordIndexes \ {LastWord} : b[i] = AllOnes
       /\ LastWordMask \subseteq b[LastWord]

AnyBit(b) ==
    /\ BitCount # 0
    /\ \/ \E i \in WordIndexes \ {LastWord} : b[i] # AllZeros
       \/ b[LastWord] \cap LastWordMask # {}

None(b) == ~AnyBit(b)

\* operator==: whole words.
Equal(b, c) == \A i \in WordIndexes : b[i] = c[i]

\* StrongBitset::has()
Has(b, c) == Equal(AndWords(b, c), c)

\* to_ulong() and to_ullong(): the first word, masked if it is the only one.
ToULong(b) ==
    IF BitCount = 0 THEN {} ELSE IF BitCount <= WordBits THEN b[0] \cap LastWordMask ELSE b[0]

-----------------------------------------------------------------------------
(* Properties *)

Positions == 0..(BitCount - 1)

\* The flags of a bitset.
Members(b) == {pos \in Positions : GetBit(b, pos)}

Sets == INSTANCE FlagSet WITH flags <- [n \in Names |-> Members(bits[n])]

\* Bit by bit, a bitset is a set of positions ("just like STL std::bitset", BitsetLite.hpp:14):
\* whatever was done to it and with it, words that share a bit, a last word that is not
\* full or none at all change nothing about that.
ImplementsFlagSet == Sets!Spec

\* Two bitsets compare equal, and one includes the other, exactly if their sets do.
ComparesAsSets ==
    \A n, m \in Names :
        /\ Equal(bits[n], bits[m]) <=> Members(bits[n]) = Members(bits[m])
        /\ Has(bits[n], bits[m]) <=> Members(bits[m]) \subseteq Members(bits[n])

\* What is seen of the bitsets is a function of those sets: a bit is set if it is in one and
\* none are behind the last, they are full or empty exactly if their sets are, and the number made of one counts its flags alone, which are
\* those of the number it was made from, though there are bits in the last word that nobody
\* uses.  == and has() see those as well, so they need a last word that is fully used, as
\* the library's flags, which are 64, have.
ObserversAgree ==
    /\ LastWordBits = 0 => ComparesAsSets
    /\ \A n \in Names :
          /\ All(bits[n]) <=> Members(bits[n]) = Positions
          /\ AnyBit(bits[n]) <=> Members(bits[n]) # {}
          /\ ToULong(bits[n]) = {pos \in Members(bits[n]) : pos < WordBits}
          /\ \A pos \in 0..BitCount :
                /\ Test(bits[n], pos) = "set" <=> pos \in Members(bits[n])
                /\ Test(bits[n], pos) = "out_of_range" <=> pos \notin Positions
    /\ \A pos \in Positions : Members(MakeBit(pos)) = {pos}
    /\ \A word \in SUBSET AllOnes : Members(FromWord(word)) = {pos \in word : pos < BitCount}

=============================================================================
