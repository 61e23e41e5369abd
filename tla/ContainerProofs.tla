-------------------------- MODULE ContainerProofs --------------------------
(***************************************************************************)
(* What the containers keep: the bits of a Bitset, the cells of a          *)
(* ResourceCache, and the views and sets of a SelectorSourceHolder.        *)
(***************************************************************************)
EXTENDS Bitset, ResourceCache, SourceHolder, FiniteSetTheorems, SequenceTheorems, TLAPS

-----------------------------------------------------------------------------
(***************************************************************************)
(* For any number of flags and any width of a word, a bitset is a set of   *)
(* positions.  The argument is the arithmetic of positions: a position is  *)
(* a word and a bit of it, and of the last word LastWordMask are used.     *)
(***************************************************************************)

\* Division with remainder, of a number and back again.
LEMMA DivMod ==
    ASSUME NEW w \in Nat \ {0}, NEW p \in Nat
    PROVE  /\ p \div w \in Nat /\ p % w \in 0..(w - 1)
           /\ p = w * (p \div w) + (p % w)
  OBVIOUS

\* The quotient and the remainder of a sum made from them.
LEMMA Quotient ==
    ASSUME NEW w \in Nat \ {0}, NEW i \in Nat, NEW j \in 0..(w - 1)
    PROVE  (w * i + j) \div w = i /\ (w * i + j) % w = j
  OBVIOUS

\* A smaller number has no greater quotient.
LEMMA DivMonotone ==
    ASSUME NEW w \in Nat \ {0}, NEW p \in Nat, NEW q \in Nat, p <= q
    PROVE  p \div w <= q \div w
  BY DivMod

\* A product of numbers is a number.
LEMMA ProductIsNat ==
    ASSUME NEW w \in Nat, NEW i \in Nat
    PROVE  w * i \in Nat
  OBVIOUS

\* Of two numbers with the same multiple of a word, the smaller has the smaller rest.
LEMMA SmallerRemainder ==
    ASSUME NEW m \in Nat, NEW r \in Nat, NEW s \in Nat, NEW p \in Nat, NEW q \in Nat,
           p = m + r, q = m + s, p <= q - 1
    PROVE  r < s
  OBVIOUS

\* A position is determined by its word and its bit.
LEMMA PositionIsItsBit ==
    ASSUME NEW w \in Nat \ {0}, NEW p \in Nat, NEW q \in Nat,
           p \div w = q \div w, p % w = q % w
    PROVE  p = q
  BY DivMod

\* The last word ends where the flags do.
LEMMA LastWordEnds ==
    ASSUME BitCount # 0
    PROVE  /\ LastWord \in Nat
           /\ LastWordBits \in 0..(WordBits - 1)
           /\ LastWordBits = 0 => BitCount = WordBits * LastWord + WordBits
           /\ LastWordBits # 0 => BitCount = WordBits * LastWord + LastWordBits
<1> DEFINE r == (BitCount - 1) % WordBits
<1>1. BitCount - 1 \in Nat /\ WordBits \in Nat \ {0} /\ LastWord = (BitCount - 1) \div WordBits
  <2>1. LastWord = (((BitCount - 1) \div WordBits) + 1) - 1
    BY DEF LastWord, WordCount
  <2>2. BitCount - 1 \in Nat /\ WordBits \in Nat \ {0}
    BY BitsetAssumption
  <2>3. (BitCount - 1) \div WordBits \in Nat
    BY <2>2, DivMod
  <2> QED BY <2>1, <2>2, <2>3
<1>2. LastWord \in Nat /\ r \in 0..(WordBits - 1) /\ BitCount = (WordBits * LastWord + r) + 1
  <2>1. BitCount - 1 = WordBits * LastWord + r /\ LastWord \in Nat /\ r \in 0..(WordBits - 1)
    BY <1>1, DivMod
  <2> QED BY <2>1, BitsetAssumption
<1> HIDE DEF r
<1>3. CASE r + 1 < WordBits
  <2>1. BitCount = WordBits * LastWord + (r + 1) /\ r + 1 \in 0..(WordBits - 1)
    BY <1>1, <1>2, <1>3
  <2>2. LastWordBits = r + 1
    <3>1. (WordBits * LastWord + (r + 1)) % WordBits = r + 1
      BY <1>1, <1>2, <2>1, Quotient
    <3> QED BY <2>1, <3>1 DEF LastWordBits
  <2> QED BY <1>1, <1>2, <1>3, <2>1, <2>2
<1>4. CASE r + 1 = WordBits
  <2>1. BitCount = WordBits * LastWord + WordBits
    BY <1>1, <1>2, <1>4
  <2>2. BitCount = WordBits * (LastWord + 1) + 0 /\ LastWord + 1 \in Nat /\ 0 \in 0..(WordBits - 1)
    BY <1>1, <1>2, <2>1
  <2>3. LastWordBits = 0
    BY <1>1, <2>2, Quotient DEF LastWordBits
  <2> QED BY <1>1, <1>2, <2>1, <2>3
<1> QED BY <1>1, <1>2, <1>3, <1>4

\* The bits of the words that are used: all of the words before the last, the mask of that.
Used(i) == IF i = LastWord THEN LastWordMask ELSE AllOnes

\* A position is a used bit of a word.
LEMMA PositionIsUsed ==
    ASSUME NEW pos \in Positions
    PROVE  /\ pos \in Nat /\ BitCount # 0
           /\ pos \div WordBits \in WordIndexes
           /\ pos % WordBits \in Used(pos \div WordBits)
           /\ pos % WordBits \in AllOnes
<1>1. /\ pos \in Nat /\ BitCount # 0 /\ pos <= BitCount - 1
      /\ BitCount - 1 \in Nat /\ WordBits \in Nat \ {0}
  BY BitsetAssumption DEF Positions
<1>2. /\ pos \div WordBits \in Nat /\ pos % WordBits \in 0..(WordBits - 1)
      /\ pos = WordBits * (pos \div WordBits) + (pos % WordBits)
  BY <1>1, DivMod
<1>3. pos \div WordBits \in WordIndexes
  <2>1. pos \div WordBits <= (BitCount - 1) \div WordBits
    BY <1>1, DivMonotone
  <2>2. (BitCount - 1) \div WordBits \in Nat
    BY <1>1, DivMod
  <2>3. WordIndexes = 0..((BitCount - 1) \div WordBits)
    BY <1>1, <2>2 DEF WordIndexes, WordCount
  <2> QED BY <1>2, <2>1, <2>2, <2>3
<1>4. ASSUME pos \div WordBits = LastWord PROVE pos % WordBits \in LastWordMask
  <2>1. CASE LastWordBits = 0
    BY <1>2, <2>1 DEF LastWordMask, AllOnes
  <2>2. CASE LastWordBits # 0
    <3>1. LastWord \in Nat /\ LastWordBits \in 0..(WordBits - 1)
          /\ BitCount = WordBits * LastWord + LastWordBits
      BY <1>1, <2>2, LastWordEnds
    <3>2. WordBits * LastWord \in Nat
      BY <1>1, <3>1, ProductIsNat
    <3>3. pos % WordBits < LastWordBits
      BY <1>1, <1>2, <1>4, <3>1, <3>2, SmallerRemainder
    <3> QED BY <1>1, <1>2, <2>2, <3>1, <3>3 DEF LastWordMask
  <2> QED BY <2>1, <2>2
<1> QED BY <1>1, <1>2, <1>3, <1>4 DEF Used, AllOnes

\* A used bit of a word is a position.
LEMMA UsedIsPosition ==
    ASSUME NEW i \in WordIndexes, NEW j \in Used(i)
    PROVE  /\ j \in AllOnes
           /\ WordBits * i + j \in Positions
           /\ (WordBits * i + j) \div WordBits = i
           /\ (WordBits * i + j) % WordBits = j
<1>1. BitCount # 0 /\ i \in Nat /\ i <= LastWord
  BY BitsetAssumption DEF WordIndexes, LastWord, WordCount
<1>2. /\ LastWord \in Nat
      /\ LastWordBits \in 0..(WordBits - 1)
      /\ LastWordBits = 0 => BitCount = WordBits * LastWord + WordBits
      /\ LastWordBits # 0 => BitCount = WordBits * LastWord + LastWordBits
  BY <1>1, LastWordEnds
<1>3. j \in AllOnes
  BY <1>2, BitsetAssumption DEF Used, LastWordMask, AllOnes
<1>4. WordBits * i + j < BitCount
  <2>1. CASE i = LastWord
    BY <2>1, <1>2, BitsetAssumption DEF Used, LastWordMask, AllOnes
  <2>2. CASE i # LastWord
    <3>1. i + 1 <= LastWord
      BY <1>1, <1>2, <2>2
    <3>2. WordBits * (i + 1) <= WordBits * LastWord
      BY <3>1, <1>1, <1>2, BitsetAssumption
    <3>3. WordBits * i + j < WordBits * (i + 1)
      BY <1>1, <1>3, BitsetAssumption DEF AllOnes
    <3>4. WordBits * LastWord <= BitCount
      BY <1>2, BitsetAssumption
    <3> QED BY <1>1, <1>2, <1>3, <3>2, <3>3, <3>4, BitsetAssumption DEF AllOnes
  <2> QED BY <2>1, <2>2
<1>5. WordBits * i + j \in Nat
  BY <1>1, <1>3, BitsetAssumption DEF AllOnes
<1> QED BY <1>1, <1>3, <1>4, <1>5, BitsetAssumption, Quotient DEF Positions, AllOnes

\* The flags of a bitset by word and bit: a position is a member if its bit is set.
LEMMA MembersByBit ==
    ASSUME NEW b, NEW i \in WordIndexes, NEW j \in Used(i)
    PROVE  WordBits * i + j \in Members(b) <=> j \in b[i]
  BY UsedIsPosition DEF Members, GetBit

\* Setting a bit adds its position, or takes it out.
LEMMA SetNothrowIsAnElement ==
    ASSUME NEW b \in Words, NEW pos \in Positions, NEW value \in BOOLEAN
    PROVE  /\ SetNothrow(b, pos, value) \in Words
           /\ Members(SetNothrow(b, pos, value)) =
                IF value THEN Members(b) \cup {pos} ELSE Members(b) \ {pos}
<1>1. pos \div WordBits \in WordIndexes /\ pos % WordBits \in AllOnes
  BY PositionIsUsed
<1>2. ASSUME NEW p \in Positions
      PROVE  GetBit(SetNothrow(b, pos, value), p) <=> IF p = pos THEN value ELSE GetBit(b, p)
  <2>1. /\ p \in Nat /\ pos \in Nat /\ WordBits \in Nat \ {0}
        /\ p \div WordBits \in WordIndexes
    BY PositionIsUsed, BitsetAssumption
  <2>2. p \div WordBits = pos \div WordBits /\ p % WordBits = pos % WordBits => p = pos
    BY <2>1, PositionIsItsBit
  <2> QED BY <1>1, <2>1, <2>2 DEF GetBit, SetNothrow, Words
<1>3. SetNothrow(b, pos, value) \in Words
  BY <1>1 DEF SetNothrow, Words
<1> QED BY <1>2, <1>3 DEF Members

\* Whole words: what is done to each of them is done to the sets.
LEMMA WholeWordsAreSets ==
    ASSUME NEW b \in Words, NEW c \in Words
    PROVE  /\ Members(Cleared) = {}
           /\ Members([i \in WordIndexes |-> AllOnes]) = Positions
           /\ Members(OrWords(b, c)) = Members(b) \cup Members(c)
           /\ Members(AndWords(b, c)) = Members(b) \cap Members(c)
           /\ Members(XorWords(b, c))
                = (Members(b) \ Members(c)) \cup (Members(c) \ Members(b))
           /\ Members([i \in WordIndexes |-> AllOnes \ c[i]]) = Positions \ Members(c)
<1>1. \A p \in Positions : p \div WordBits \in WordIndexes /\ p % WordBits \in AllOnes
  BY PositionIsUsed
<1>2. Members(Cleared) = {} /\ Members([i \in WordIndexes |-> AllOnes]) = Positions
  BY <1>1 DEF Members, GetBit, Cleared, AllZeros
<1>3. Members(OrWords(b, c)) = Members(b) \cup Members(c)
  BY <1>1 DEF Members, GetBit, OrWords, AndWords, XorWords
<1>4. Members(AndWords(b, c)) = Members(b) \cap Members(c)
  BY <1>1 DEF Members, GetBit, OrWords, AndWords, XorWords
<1>5. Members(XorWords(b, c))
        = (Members(b) \ Members(c)) \cup (Members(c) \ Members(b))
  BY <1>1 DEF Members, GetBit, OrWords, AndWords, XorWords
<1>6. Members([i \in WordIndexes |-> AllOnes \ c[i]]) = Positions \ Members(c)
  BY <1>1 DEF Members, GetBit
<1> QED BY <1>2, <1>3, <1>4, <1>5, <1>6

\* Every word stays a word, of the bitset changed and of every other one.
THEOREM BitsetTyping == BitsetSpec => []BitsetTypeOK
<1>1. BitsetInit => BitsetTypeOK
  BY DEF BitsetInit, BitsetTypeOK, Cleared, Words, AllZeros
<1>2. BitsetTypeOK /\ [BitsetNext]_bits => BitsetTypeOK'
  <2> SUFFICES ASSUME BitsetTypeOK, [BitsetNext]_bits PROVE BitsetTypeOK'
    OBVIOUS
  <2>1. ASSUME NEW n \in Names, NEW b \in Words, bits' = [bits EXCEPT ![n] = b] PROVE BitsetTypeOK'
    BY <2>1 DEF BitsetTypeOK
  <2>2. ASSUME NEW n \in Names, NEW pos \in 0..BitCount, NEW value \in BOOLEAN, SetPosition(n, pos, value)
        PROVE  BitsetTypeOK'
    <3>1. pos \in Positions
      BY <2>2, BitsetAssumption DEF SetPosition, Positions
    <3>2. bits[n] \in Words
      BY DEF BitsetTypeOK
    <3> QED BY <2>1, <2>2, <3>1, <3>2, SetNothrowIsAnElement DEF SetPosition
  <2>3. ASSUME NEW n \in Names, SetAll(n) \/ ResetAll(n) PROVE BitsetTypeOK'
    <3>1. [i \in WordIndexes |-> AllOnes] \in Words /\ Cleared \in Words
      BY DEF Words, Cleared, AllZeros
    <3> QED BY <2>1, <2>3, <3>1 DEF SetAll, ResetAll
  <2>4. ASSUME NEW n \in Names, NEW m \in Names, Or(n, m) \/ And(n, m) \/ Xor(n, m) \/ Not(n, m)
        PROVE  BitsetTypeOK'
    <3>1. bits[n] \in Words /\ bits[m] \in Words
      BY DEF BitsetTypeOK
    <3>2. /\ OrWords(bits[n], bits[m]) \in Words
          /\ AndWords(bits[n], bits[m]) \in Words
          /\ XorWords(bits[n], bits[m]) \in Words
          /\ [i \in WordIndexes |-> AllOnes \ bits[m][i]] \in Words
      BY <3>1 DEF Words, OrWords, AndWords, XorWords
    <3> QED BY <2>1, <2>4, <3>2 DEF Or, And, Xor, Not
  <2>5. CASE UNCHANGED bits
    BY <2>5 DEF BitsetTypeOK
  <2> QED BY <2>2, <2>3, <2>4, <2>5 DEF BitsetNext
<1> QED BY <1>1, <1>2, PTL DEF BitsetSpec

-----------------------------------------------------------------------------

\* What holds of every position holds of every used bit.
LEMMA EveryPosition ==
    ASSUME NEW S \in SUBSET Positions, NEW b,
           \A pos \in Positions : pos \in S <=> pos % WordBits \in b[pos \div WordBits]
    PROVE  /\ S = Positions <=> \A i \in WordIndexes : Used(i) \subseteq b[i]
           /\ S = {} <=> \A i \in WordIndexes : b[i] \cap Used(i) = {}
<1>1. ASSUME NEW i \in WordIndexes, NEW j \in Used(i)
      PROVE  /\ WordBits * i + j \in Positions
             /\ WordBits * i + j \in S <=> j \in b[i]
  BY UsedIsPosition
<1>2. ASSUME NEW pos \in Positions
      PROVE  pos \div WordBits \in WordIndexes /\ pos % WordBits \in Used(pos \div WordBits)
  BY PositionIsUsed
<1>3. S = Positions <=> \A i \in WordIndexes : Used(i) \subseteq b[i]
  <2>1. ASSUME S = Positions, NEW i \in WordIndexes PROVE Used(i) \subseteq b[i]
    BY <1>1, <2>1
  <2>2. ASSUME \A i \in WordIndexes : Used(i) \subseteq b[i] PROVE S = Positions
    BY <1>2, <2>2
  <2> QED BY <2>1, <2>2
<1>4. S = {} <=> \A i \in WordIndexes : b[i] \cap Used(i) = {}
  <2>1. ASSUME S = {}, NEW i \in WordIndexes PROVE b[i] \cap Used(i) = {}
    BY <1>1, <2>1
  <2>2. ASSUME \A i \in WordIndexes : b[i] \cap Used(i) = {}, NEW pos \in S PROVE FALSE
    BY <1>2, <2>2
  <2> QED BY <2>1, <2>2
<1> QED BY <1>3, <1>4

\* Where there are flags, there is a last word.
LEMMA LastWordIsAWord ==
    /\ BitCount # 0 => LastWord \in WordIndexes
    /\ BitCount = 0 => WordIndexes = {} /\ Positions = {}
<1>1. BitCount # 0 => LastWord \in WordIndexes
  BY LastWordEnds DEF WordIndexes, LastWord
<1>2. BitCount = 0 => WordIndexes = {} /\ Positions = {}
  BY DEF WordIndexes, WordCount, Positions
<1> QED BY <1>1, <1>2

\* all() and any() see the used bits.
LEMMA AllAndAny ==
    ASSUME NEW b \in Words
    PROVE  /\ All(b) <=> Members(b) = Positions
           /\ AnyBit(b) <=> Members(b) # {}
<1>1. /\ Members(b) = Positions <=> \A i \in WordIndexes : Used(i) \subseteq b[i]
      /\ Members(b) = {} <=> \A i \in WordIndexes : b[i] \cap Used(i) = {}
  BY EveryPosition DEF Members, GetBit
<1>2. \A i \in WordIndexes : b[i] \subseteq AllOnes
  BY DEF Words
<1>3. CASE BitCount = 0
  BY <1>1, <1>3, LastWordIsAWord DEF All, AnyBit
<1>4. CASE BitCount # 0
  <2>1. LastWord \in WordIndexes
    BY <1>4, LastWordIsAWord
  <2>2. All(b) <=> \A i \in WordIndexes : Used(i) \subseteq b[i]
    BY <1>2, <1>4, <2>1 DEF All, Used
  <2>3. AnyBit(b) <=> \E i \in WordIndexes : b[i] \cap Used(i) # {}
    BY <1>2, <1>4, <2>1 DEF AnyBit, Used, AllZeros
  <2> QED BY <1>1, <2>2, <2>3
<1> QED BY <1>3, <1>4

\* Where every bit of the last word is used, words compare as sets do.
LEMMA WordsCompareAsSets ==
    ASSUME NEW b \in Words, NEW c \in Words, LastWordBits = 0
    PROVE  /\ Equal(b, c) <=> Members(b) = Members(c)
           /\ Has(b, c) <=> Members(c) \subseteq Members(b)
<1>1. ASSUME NEW d \in Words, NEW e \in Words
      PROVE  Equal(d, e) <=> Members(d) = Members(e)
  <2>1. ASSUME NEW i \in WordIndexes, NEW j \in AllOnes
        PROVE  /\ WordBits * i + j \in Members(d) <=> j \in d[i]
               /\ WordBits * i + j \in Members(e) <=> j \in e[i]
    BY MembersByBit DEF Used, LastWordMask
  <2>2. ASSUME Members(d) = Members(e), NEW i \in WordIndexes PROVE d[i] = e[i]
    <3>1. d[i] \subseteq AllOnes /\ e[i] \subseteq AllOnes
      BY DEF Words
    <3> QED BY <2>1, <2>2, <3>1
  <2>3. ASSUME Equal(d, e) PROVE Members(d) = Members(e)
    BY <2>3, PositionIsUsed DEF Equal, Members, GetBit
  <2> QED BY <2>2, <2>3 DEF Equal
<1> DEFINE both == AndWords(b, c)
<1>2. both \in Words
  BY DEF Words, OrWords, AndWords, XorWords
<1>3. Members(both) = Members(b) \cap Members(c)
  BY WholeWordsAreSets
<1>4. Has(b, c) <=> Members(both) = Members(c)
  BY <1>1, <1>2 DEF Has
<1> HIDE DEF both
<1> QED BY <1>1, <1>3, <1>4

\* The first word is the number, going in and coming out.
LEMMA NumbersAreFirstWords ==
    /\ \A b \in Words : ToULong(b) = {pos \in Members(b) : pos < WordBits}
    /\ \A word \in SUBSET AllOnes : Members(FromWord(word)) = {pos \in word : pos < BitCount}
<1>1. ASSUME NEW pos \in Nat, pos < WordBits
      PROVE  pos \div WordBits = 0 /\ pos % WordBits = pos
  BY <1>1, BitsetAssumption, Quotient
<1>2. ASSUME NEW pos \in Positions
      PROVE  pos \in Nat /\ (pos \div WordBits = 0 <=> pos < WordBits)
  BY <1>1, PositionIsUsed, DivMod, BitsetAssumption
<1>3. BitCount # 0 => 0 \in WordIndexes
  BY LastWordEnds DEF WordIndexes, LastWord
<1>4. BitCount # 0 /\ BitCount <= WordBits => LastWordMask = Positions
  <2>1. CASE BitCount = WordBits
    <3>1. (WordBits * 1 + 0) % WordBits = 0
      BY BitsetAssumption, Quotient
    <3>2. LastWordBits = 0
      BY <2>1, <3>1, BitsetAssumption DEF LastWordBits
    <3> QED BY <2>1, <3>2 DEF LastWordMask, AllOnes, Positions
  <2>2. CASE BitCount # 0 /\ BitCount < WordBits
    <3>1. (WordBits * 0 + BitCount) % WordBits = BitCount
      BY <2>2, BitsetAssumption, Quotient
    <3>2. LastWordBits = BitCount
      BY <3>1, BitsetAssumption DEF LastWordBits
    <3> QED BY <2>2, <3>2 DEF LastWordMask, Positions
  <2> QED BY <2>1, <2>2, BitsetAssumption
<1>5. ASSUME NEW b \in Words PROVE ToULong(b) = {pos \in Members(b) : pos < WordBits}
  <2>1. CASE BitCount = 0
    BY <2>1, LastWordIsAWord DEF ToULong, Members
  <2>2. CASE BitCount # 0
    <3>1. b[0] \subseteq AllOnes
      BY <1>3, <2>2 DEF Words
    <3>2. {pos \in Members(b) : pos < WordBits} = {pos \in Positions : pos < WordBits /\ pos \in b[0]}
      BY <1>1, <1>2 DEF Members, GetBit
    <3>3. CASE BitCount <= WordBits
      BY <1>4, <2>2, <3>1, <3>2, <3>3, BitsetAssumption DEF ToULong, Positions
    <3>4. CASE ~(BitCount <= WordBits)
      <4>1. \A pos \in AllOnes : pos \in Positions /\ pos < WordBits
        BY <3>4, BitsetAssumption DEF AllOnes, Positions
      <4> QED BY <2>2, <3>1, <3>2, <3>4, <4>1 DEF ToULong
    <3> QED BY <3>3, <3>4
  <2> QED BY <2>1, <2>2
<1>6. ASSUME NEW word \in SUBSET AllOnes
      PROVE  Members(FromWord(word)) = {pos \in word : pos < BitCount}
  <2>1. ASSUME NEW pos \in Positions
        PROVE  GetBit(FromWord(word), pos) <=> pos \in word
    <3>1. pos \div WordBits \in WordIndexes /\ pos \div WordBits \in Nat /\ BitCount # 0
      BY PositionIsUsed DEF WordIndexes
    <3>2. CASE pos < WordBits
      BY <1>1, <1>2, <1>4, <3>1, <3>2 DEF GetBit, FromWord
    <3>3. CASE ~(pos < WordBits)
      BY <1>2, <3>1, <3>3, BitsetAssumption DEF GetBit, FromWord, AllOnes, AllZeros
    <3> QED BY <3>2, <3>3
  <2>2. \A pos \in word : pos < BitCount <=> pos \in Positions
    BY BitsetAssumption DEF AllOnes, Positions
  <2> QED BY <2>1, <2>2 DEF Members
<1> QED BY <1>5, <1>6

\* What is seen of bitsets as a whole is a function of their sets.
THEOREM BitsetObservers == BitsetSpec => []ObserversAgree
<1>1. BitsetTypeOK => ObserversAgree
  <2> SUFFICES ASSUME BitsetTypeOK PROVE ObserversAgree
    OBVIOUS
  <2>1. \A n \in Names : bits[n] \in Words
    BY DEF BitsetTypeOK
  <2>2. LastWordBits = 0 => ComparesAsSets
    BY <2>1, WordsCompareAsSets DEF ComparesAsSets
  <2>3. \A n \in Names, pos \in 0..BitCount :
           /\ Test(bits[n], pos) = "set" <=> pos \in Members(bits[n])
           /\ Test(bits[n], pos) = "out_of_range" <=> pos \notin Positions
    BY BitsetAssumption DEF Test, Members, Positions
  <2>4. \A pos \in Positions : Members(MakeBit(pos)) = {pos}
    <3>1. Cleared \in Words
      BY DEF Cleared, Words, AllZeros
    <3>2. Members(Cleared) = {}
      BY <3>1, WholeWordsAreSets
    <3> TAKE pos \in Positions
    <3>3. Members(SetNothrow(Cleared, pos, TRUE)) = Members(Cleared) \cup {pos}
      BY <3>1, SetNothrowIsAnElement, Zenon
    <3>4. Members(MakeBit(pos)) = Members(SetNothrow(Cleared, pos, TRUE))
      BY DEF MakeBit
    <3> QED BY <3>2, <3>3, <3>4
  <2> QED BY <2>1, <2>2, <2>3, <2>4, AllAndAny, NumbersAreFirstWords DEF ObserversAgree
<1> QED BY <1>1, BitsetTyping, PTL

\* Bit by bit, whatever is done to a bitset is done to a set of positions.
THEOREM BitsetRefines == BitsetSpec => ImplementsFlagSet
<1> DEFINE members == [n \in Names |-> Members(bits[n])]
<1>1. BitsetInit => Sets!Init
  <2>1. Cleared \in Words
    BY DEF Cleared, Words, AllZeros
  <2>2. Members(Cleared) = {}
    BY <2>1, WholeWordsAreSets
  <2>3. BitsetInit => \A n \in Names : bits[n] = Cleared
    BY DEF BitsetInit
  <2> QED BY <2>2, <2>3 DEF Sets!Init
<1>2. BitsetTypeOK /\ [BitsetNext]_bits => [Sets!Next]_members
  <2> SUFFICES ASSUME BitsetTypeOK, [BitsetNext]_bits PROVE [Sets!Next]_members
    OBVIOUS
  <2>1. ASSUME NEW n \in Names, NEW b \in Words, bits' = [bits EXCEPT ![n] = b]
        PROVE  Sets!Become(n, Members(b))
    BY <2>1 DEF BitsetTypeOK, Sets!Become
  <2>2. ASSUME NEW n \in Names, NEW pos \in 0..BitCount, NEW value \in BOOLEAN, SetPosition(n, pos, value)
        PROVE  Sets!Next
    <3>1. pos \in Positions /\ pos \in Sets!Positions
      BY <2>2, BitsetAssumption DEF SetPosition, Positions, Sets!Positions
    <3>2. bits[n] \in Words
      BY DEF BitsetTypeOK
    <3>3. Sets!Become(n, Members(SetNothrow(bits[n], pos, value)))
      BY <2>1, <2>2, <3>1, <3>2, SetNothrowIsAnElement DEF SetPosition
    <3>4. Members(SetNothrow(bits[n], pos, value)) =
            IF value THEN members[n] \cup {pos} ELSE members[n] \ {pos}
      BY <3>1, <3>2, SetNothrowIsAnElement
    <3>5. Sets!Become(n, members[n] \cup {pos}) \/ Sets!Become(n, members[n] \ {pos})
      BY <3>3, <3>4
    <3> QED BY <3>1, <3>5 DEF Sets!Next
  <2>3. ASSUME NEW n \in Names, SetAll(n) \/ ResetAll(n) PROVE Sets!Next
    <3>1. [i \in WordIndexes |-> AllOnes] \in Words /\ Cleared \in Words
      BY DEF Words, Cleared, AllZeros
    <3>2. Members(Cleared) = {} /\ Members([i \in WordIndexes |-> AllOnes]) = Sets!Positions
      BY <3>1, WholeWordsAreSets DEF Positions, Sets!Positions
    <3>3. Sets!Become(n, {}) \/ Sets!Become(n, Sets!Positions)
      BY <2>1, <2>3, <3>1, <3>2 DEF SetAll, ResetAll
    <3> QED BY <3>3 DEF Sets!Next
  <2>4. ASSUME NEW n \in Names, NEW m \in Names, Or(n, m) \/ And(n, m) \/ Xor(n, m) \/ Not(n, m)
        PROVE  Sets!Next
    <3> DEFINE or == OrWords(bits[n], bits[m])
               and == AndWords(bits[n], bits[m])
               xor == XorWords(bits[n], bits[m])
               not == [i \in WordIndexes |-> AllOnes \ bits[m][i]]
    <3>1. bits[n] \in Words /\ bits[m] \in Words
      BY DEF BitsetTypeOK
    <3>2. or \in Words /\ and \in Words /\ xor \in Words /\ not \in Words
      BY <3>1 DEF Words, OrWords, AndWords, XorWords
    <3>3. /\ Members(or) = members[n] \cup members[m] /\ Members(and) = members[n] \cap members[m]
          /\ Members(xor) = (members[n] \ members[m]) \cup (members[m] \ members[n])
          /\ Members(not) = Sets!Positions \ members[m]
      BY <3>1, WholeWordsAreSets DEF Positions, Sets!Positions
    <3>4. \/ Sets!Become(n, Members(or)) \/ Sets!Become(n, Members(and))
          \/ Sets!Become(n, Members(xor)) \/ Sets!Become(n, Members(not))
      BY <2>1, <2>4, <3>2 DEF Or, And, Xor, Not
    <3> HIDE DEF or, and, xor, not
    <3>5. \/ Sets!Become(n, members[n] \cup members[m]) \/ Sets!Become(n, members[n] \cap members[m])
          \/ Sets!Become(n, (members[n] \ members[m]) \cup (members[m] \ members[n]))
          \/ Sets!Become(n, Sets!Positions \ members[m])
      BY <3>3, <3>4
    <3> QED BY <3>5 DEF Sets!Next
  <2>5. CASE UNCHANGED bits
    BY <2>5
  <2> QED BY <2>2, <2>3, <2>4, <2>5 DEF BitsetNext
<1> QED BY <1>1, <1>2, BitsetTyping, PTL DEF BitsetSpec, ImplementsFlagSet, Sets!Spec

-----------------------------------------------------------------------------
(***************************************************************************)
(* For any callers, keys and bounds: cells are shared until their key is   *)
(* evicted, a call that begins warm does not fetch, answers are usable.    *)
(* All rest on what holds while a call is under way: the evictions it      *)
(* remembers are not more than there were, and as long as there were no    *)
(* others the stored cell is its cell and, if it was warm, still warm.     *)
(***************************************************************************)

\* The inductive invariant, for one caller.
CallInv(c) ==
    /\ call[c].since <= evicted[call[c].key]
    /\ call[c].warm <= evicted[call[c].key]
    /\ call[c].step = "insert" => call[c].cell # NoCell
    /\ Holds(c) =>
          /\ call[c].cell # NoCell
          /\ call[c].since >= 0
          /\ call[c].since = evicted[call[c].key] => resources[call[c].key] = call[c].cell
          /\ call[c].since = call[c].warm => content[call[c].cell] # Cold
    /\ call[c].step \in {"fetch", "wait"} => call[c].since # call[c].warm
    /\ call[c].step = "wait" => call[c].fetch # Cold
    /\ call[c].step \in {"find", "build", "insert"} /\ call[c].warm = evicted[call[c].key] =>
          IsWarm(call[c].key)

Inv == CacheTypeOK /\ \A c \in Callers : CallInv(c)

\* A caller goes on to a state of a call.
LEMMA GoingIsTyped ==
    ASSUME CacheTypeOK, NEW c \in Callers, NEW to \in Calls, Goes(c, to)
    PROVE  call' \in [Callers -> Calls]
  BY DEF CacheTypeOK, Goes

\* Types: of the values every action writes.
LEMMA TypingStep == Inv /\ [CacheNext]_cacheVars => CacheTypeOK'
<1> SUFFICES ASSUME Inv, CacheTypeOK, [CacheNext]_cacheVars PROVE CacheTypeOK'
  BY DEF Inv
<1>0. /\ MaxCells \in Nat /\ MaxFetches \in Nat /\ MaxEvictions \in Nat
      /\ \A c \in Callers : call[c] \in Calls
  BY CacheAssumption DEF CacheTypeOK
<1>1. ASSUME NEW c \in Callers, NEW k \in Keys, NEW seeded \in BOOLEAN, Begin(c, k, seeded) PROVE CacheTypeOK'
  <2>1. evicted[k] \in -1..MaxEvictions /\ -1 \in -1..MaxEvictions
    BY <1>0 DEF CacheTypeOK
  <2>2. [step |-> "find", key |-> k, seeded |-> seeded, cell |-> NoCell, fetch |-> Cold,
         answer |-> NoAnswer, since |-> -1, warm |-> IF IsWarm(k) THEN evicted[k] ELSE -1] \in Calls
    BY <1>0, <2>1 DEF Calls, Steps, Answers, Contents, Cold
  <2> QED BY <1>1, <2>2, GoingIsTyped DEF CacheTypeOK, Begin
<1>2. ASSUME NEW c \in Callers, Find(c) PROVE CacheTypeOK'
  <2> DEFINE k == call[c].key
  <2>1. k \in Keys /\ evicted[k] \in -1..MaxEvictions /\ -1 \in -1..MaxEvictions
    BY <1>0 DEF CacheTypeOK, Calls
  <2>2. [call[c] EXCEPT !.cell = resources[k],
                        !.step = IF resources[k] = NoCell THEN "build" ELSE "check",
                        !.since = IF resources[k] = NoCell THEN -1 ELSE evicted[k]] \in Calls
    <3>1. call[c] \in Calls
      BY <1>0 DEF CacheTypeOK
    <3>2. resources[k] \in {NoCell} \cup Cells
      BY <1>0, <2>1 DEF CacheTypeOK
    <3> DEFINE step == IF resources[k] = NoCell THEN "build" ELSE "check"
               since == IF resources[k] = NoCell THEN -1 ELSE evicted[k]
    <3>3. step \in Steps /\ since \in -1..MaxEvictions
      BY <2>1 DEF Steps
    <3> HIDE DEF step, since, k
    <3>4. [call[c] EXCEPT !.cell = resources[k], !.step = step, !.since = since] \in Calls
      BY <3>1, <3>2, <3>3 DEF Calls
    <3> QED BY <3>4 DEF step, since
  <2> QED BY <1>2, <2>2, GoingIsTyped DEF CacheTypeOK, Find
<1>3. ASSUME NEW c \in Callers, Build(c) PROVE CacheTypeOK'
  <2>1. made' \in 0..MaxCells /\ made' \in Cells
    BY <1>0, <1>3 DEF CacheTypeOK, Build, Cells
  <2>2. [call[c] EXCEPT !.cell = made', !.step = "insert"] \in Calls
    BY <1>0, <2>1 DEF Calls, Steps
  <2> QED BY <1>3, <2>1, <2>2, GoingIsTyped DEF CacheTypeOK, Build
<1>4. ASSUME NEW c \in Callers, Insert(c) PROVE CacheTypeOK'
  <2> DEFINE k == call[c].key
             stored == IF resources[k] = NoCell THEN call[c].cell ELSE resources[k]
  <2>1. k \in Keys /\ evicted[k] \in -1..MaxEvictions /\ stored \in {NoCell} \cup Cells
    BY <1>0 DEF CacheTypeOK, Calls
  <2>2. [call[c] EXCEPT !.cell = stored, !.step = "check", !.since = evicted[k]] \in Calls
    BY <1>0, <2>1 DEF Calls, Steps
  <2> QED BY <1>4, <2>1, <2>2, GoingIsTyped DEF CacheTypeOK, Insert
<1>5. ASSUME NEW S \in SUBSET Keys, Evict(S) PROVE CacheTypeOK'
  <2>1. evicted' \in [Keys -> 0..MaxEvictions] /\ resources' \in [Keys -> {NoCell} \cup Cells]
    BY <1>0, <1>5 DEF CacheTypeOK, Evict
  <2> QED BY <1>5, <2>1 DEF CacheTypeOK, Evict
<1>6. ASSUME NEW c \in Callers, Check(c) PROVE CacheTypeOK'
  <2>1. [call[c] EXCEPT !.step = IF content[call[c].cell] = Cold THEN "fetch" ELSE "snapshot"] \in Calls
    BY <1>0 DEF Calls, Steps
  <2> QED BY <1>6, <2>1, GoingIsTyped DEF CacheTypeOK, Check
<1>7. ASSUME NEW c \in Callers, NEW answer \in Answers PROVE [call[c] EXCEPT !.step = "idle", !.answer = answer] \in Calls
  BY <1>0 DEF Calls, Steps
<1>8. ASSUME NEW c \in Callers, Holds(c), call[c].cell # NoCell,
             ReturnSnapshot(c) \/ Fail(c) \/ Publish(c)
      PROVE  CacheTypeOK'
  <2>1. call[c].cell \in Cells /\ call[c].fetch \in Contents
    BY <1>0, <1>8 DEF Calls
  <2>2. /\ Snapshot(call[c].cell) \in Answers /\ Failed \in Answers
        /\ call[c].fetch \in Answers
        /\ (IF call[c].seeded THEN Snapshot(call[c].cell) ELSE Failed) \in Answers
    BY <2>1 DEF Snapshot, Answers, CacheTypeOK
  <2>3. content' \in [Cells -> Contents]
    BY <1>8, <2>1 DEF ReturnSnapshot, Fail, Publish, CacheTypeOK
  <2> QED BY <1>7, <1>8, <2>2, <2>3, GoingIsTyped DEF CacheTypeOK, ReturnSnapshot, Fail, Publish, Answered
<1>9. ASSUME NEW c \in Callers, Fetch(c) PROVE CacheTypeOK'
  <2>1. fetches' \in 0..MaxFetches
    BY <1>0, <1>9 DEF CacheTypeOK, Fetch
  <2>2. [call[c] EXCEPT !.step = "wait", !.fetch = fetches'] \in Calls
    BY <1>0, <2>1 DEF Calls, Steps, Contents
  <2> QED BY <1>9, <2>1, <2>2, GoingIsTyped DEF CacheTypeOK, Fetch
<1>10. CASE UNCHANGED cacheVars
  BY <1>10 DEF CacheTypeOK, cacheVars
<1>11. ASSUME NEW c \in Callers, ReturnSnapshot(c) \/ Fail(c) \/ Publish(c) PROVE CacheTypeOK'
  <2>1. Holds(c)
    BY <1>11 DEF Holds, ReturnSnapshot, Fail, Publish
  <2> QED BY <1>8, <1>11, <2>1 DEF Inv, CallInv
<1> QED BY <1>1, <1>2, <1>3, <1>4, <1>5, <1>6, <1>9, <1>10, <1>11 DEF CacheNext, Step

\* What one caller does leaves the others' calls alone; cells stay warm and counts do not fall.
LEMMA Frame ==
    ASSUME Inv, CacheTypeOK', NEW c \in Callers, NEW d \in Callers,
           call'[d] = call[d],
           evicted' = evicted,
           \A k \in Keys : resources[k] # NoCell => resources'[k] = resources[k],
           \A cell \in Cells : content[cell] # Cold => content'[cell] # Cold
    PROVE  CallInv(d)'
<1>1. call[d] \in Calls /\ CallInv(d)
  BY DEF Inv, CacheTypeOK
<1>2. \A k \in Keys : IsWarm(k) => IsWarm(k)'
  BY DEF IsWarm, CacheTypeOK, Inv
<1>3. call[d].key \in Keys /\ (call[d].cell # NoCell => call[d].cell \in Cells)
  BY <1>1 DEF Calls
<1> QED BY <1>1, <1>2, <1>3 DEF CallInv, Holds

\* Every action keeps the invariant of every caller.
LEMMA CallInvStep == Inv /\ [CacheNext]_cacheVars => \A d \in Callers : CallInv(d)'
<1> SUFFICES ASSUME Inv, [CacheNext]_cacheVars, NEW d \in Callers PROVE CallInv(d)'
  OBVIOUS
<1>0. /\ CacheTypeOK /\ CacheTypeOK' /\ CallInv(d)
      /\ call[d] \in Calls /\ call[d].key \in Keys
      /\ MaxEvictions \in Nat
      /\ \A k \in Keys : evicted[k] \in 0..MaxEvictions
  BY TypingStep, CacheAssumption DEF Inv, CacheTypeOK, Calls
<1>1. ASSUME NEW c \in Callers, NEW k \in Keys, NEW seeded \in BOOLEAN, Begin(c, k, seeded) PROVE CallInv(d)'
  <2>1. CASE c = d
    <3>1. call'[d] = [step |-> "find", key |-> k, seeded |-> seeded, cell |-> NoCell, fetch |-> Cold,
                      answer |-> NoAnswer, since |-> -1, warm |-> IF IsWarm(k) THEN evicted[k] ELSE -1]
      BY <1>0, <1>1, <2>1 DEF Begin, Goes, CacheTypeOK
    <3>2. evicted' = evicted /\ resources' = resources /\ content' = content /\ evicted[k] >= 0
      BY <1>0, <1>1 DEF Begin
    <3> QED BY <3>1, <3>2, <1>0 DEF CallInv, Holds, IsWarm
  <2>2. CASE c # d
    BY <1>0, <1>1, <2>2, Frame DEF Begin, Goes, CacheTypeOK
  <2> QED BY <2>1, <2>2
<1>2. ASSUME NEW c \in Callers, Find(c) PROVE CallInv(d)'
  <2>1. CASE c = d
    <3> DEFINE k == call[d].key
    <3>1. call'[d] = [call[d] EXCEPT !.cell = resources[k],
                        !.step = IF resources[k] = NoCell THEN "build" ELSE "check",
                        !.since = IF resources[k] = NoCell THEN -1 ELSE evicted[k]]
      BY <1>0, <1>2, <2>1 DEF Find, Goes, CacheTypeOK
    <3>2. evicted' = evicted /\ resources' = resources /\ content' = content /\ evicted[k] >= 0
      BY <1>0, <1>2 DEF Find
    <3>3. call[d].step = "find"
      BY <1>2, <2>1 DEF Find
    <3> QED BY <3>1, <3>2, <3>3, <1>0 DEF CallInv, Holds, IsWarm, Calls
  <2>2. CASE c # d
    BY <1>0, <1>2, <2>2, Frame DEF Find, Goes, CacheTypeOK
  <2> QED BY <2>1, <2>2
<1>3. ASSUME NEW c \in Callers, Build(c) PROVE CallInv(d)'
  <2>1. CASE c = d
    <3>1. call'[d] = [call[d] EXCEPT !.cell = made', !.step = "insert"] /\ call[d].step = "build"
      BY <1>0, <1>3, <2>1 DEF Build, Goes, CacheTypeOK
    <3>2. made' # NoCell /\ evicted' = evicted /\ resources' = resources /\ content' = content
      BY <1>0, <1>3 DEF Build, CacheTypeOK, NoCell
    <3> QED BY <3>1, <3>2, <1>0 DEF CallInv, Holds, IsWarm, Calls
  <2>2. CASE c # d
    BY <1>0, <1>3, <2>2, Frame DEF Build, Goes, CacheTypeOK
  <2> QED BY <2>1, <2>2
<1>4. ASSUME NEW c \in Callers, Insert(c) PROVE CallInv(d)'
  <2>1. CASE c = d
    <3> DEFINE k == call[d].key
               stored == IF resources[k] = NoCell THEN call[d].cell ELSE resources[k]
    <3>1. /\ call'[d] = [call[d] EXCEPT !.cell = stored, !.step = "check", !.since = evicted[k]]
          /\ call[d].step = "insert"
      BY <1>0, <1>4, <2>1 DEF Insert, Goes, CacheTypeOK
    <3>2. /\ evicted' = evicted /\ content' = content
          /\ resources'[k] = stored /\ stored # NoCell /\ evicted[k] >= 0
      BY <1>0, <1>4, <2>1, <3>1 DEF Insert, CallInv, CacheTypeOK
    <3>3. call[d].warm = evicted[k] => content[stored] # Cold
      BY <1>0, <3>1 DEF CallInv, IsWarm
    <3> HIDE DEF stored
    <3> QED BY <3>1, <3>2, <3>3, <1>0 DEF CallInv, Holds, IsWarm, Calls
  <2>2. CASE c # d
    BY <1>0, <1>4, <2>2, Frame DEF Insert, Goes, CacheTypeOK
  <2> QED BY <2>1, <2>2
<1>5. ASSUME NEW S \in SUBSET Keys, Evict(S) PROVE CallInv(d)'
  <2> DEFINE k == call[d].key
  <2>1. /\ call' = call /\ content' = content
        /\ evicted'[k] = IF k \in S THEN evicted[k] + 1 ELSE evicted[k]
        /\ k \notin S => resources'[k] = resources[k]
    BY <1>0, <1>5 DEF Evict
  <2>2. /\ call[d].since \in -1..MaxEvictions /\ call[d].warm \in -1..MaxEvictions
        /\ evicted[k] \in 0..MaxEvictions
    BY <1>0 DEF Calls
  <2>3. CASE k \in S
    <3>1. evicted'[k] > evicted[k] /\ call[d].since # evicted'[k] /\ call[d].warm # evicted'[k]
      BY <1>0, <2>1, <2>2, <2>3 DEF CallInv
    <3>2. call[d].since <= evicted'[k] /\ call[d].warm <= evicted'[k]
      BY <1>0, <2>1, <2>2, <2>3 DEF CallInv
    <3> QED BY <1>0, <2>1, <3>1, <3>2 DEF CallInv, Holds, IsWarm
  <2>4. CASE k \notin S
    BY <1>0, <2>1, <2>4 DEF CallInv, Holds, IsWarm
  <2> QED BY <2>3, <2>4
<1>6. ASSUME NEW c \in Callers, Check(c) PROVE CallInv(d)'
  <2>1. CASE c = d
    <3>1. /\ call'[d] = [call[d] EXCEPT !.step = IF content[call[d].cell] = Cold THEN "fetch" ELSE "snapshot"]
          /\ call[d].step = "check" /\ Holds(d)
      BY <1>0, <1>6, <2>1 DEF Check, Goes, CacheTypeOK, Holds
    <3>2. evicted' = evicted /\ resources' = resources /\ content' = content
      BY <1>6 DEF Check
    <3> QED BY <3>1, <3>2, <1>0 DEF CallInv, Holds, IsWarm, Calls
  <2>2. CASE c # d
    BY <1>0, <1>6, <2>2, Frame DEF Check, Goes, CacheTypeOK
  <2> QED BY <2>1, <2>2
<1>7. ASSUME NEW c \in Callers, NEW answer, Answered(c, answer),
             evicted' = evicted, resources' = resources,
             \A cell \in Cells : content[cell] # Cold => content'[cell] # Cold
      PROVE  CallInv(d)'
  <2>1. CASE c = d
    <3>1. call'[d] = [call[d] EXCEPT !.step = "idle", !.answer = answer]
      BY <1>0, <1>7, <2>1 DEF Answered, Goes, CacheTypeOK
    <3> QED BY <3>1, <1>0, <1>7 DEF CallInv, Holds, Calls
  <2>2. CASE c # d
    BY <1>0, <1>7, <2>2, Frame DEF Answered, Goes, CacheTypeOK
  <2> QED BY <2>1, <2>2
<1>8. ASSUME NEW c \in Callers, ReturnSnapshot(c) \/ Fail(c) PROVE CallInv(d)'
  BY <1>7, <1>8 DEF ReturnSnapshot, Fail
<1>9. ASSUME NEW c \in Callers, Publish(c) PROVE CallInv(d)'
  <2>1. /\ call[c].fetch # Cold
        /\ content' = [content EXCEPT ![call[c].cell] = call[c].fetch]
        /\ Answered(c, call[c].fetch) /\ evicted' = evicted /\ resources' = resources
    BY <1>9 DEF Publish, Inv, CallInv
  <2>2. \A cell \in Cells : content[cell] # Cold => content'[cell] # Cold
    BY <1>0, <2>1 DEF CacheTypeOK
  <2> QED BY <1>7, <2>1, <2>2
<1>10. ASSUME NEW c \in Callers, Fetch(c) PROVE CallInv(d)'
  <2>1. CASE c = d
    <3>1. call'[d] = [call[d] EXCEPT !.step = "wait", !.fetch = fetches'] /\ call[d].step = "fetch" /\ Holds(d)
      BY <1>0, <1>10, <2>1 DEF Fetch, Goes, CacheTypeOK, Holds
    <3>2. fetches' # Cold /\ evicted' = evicted /\ resources' = resources /\ content' = content
      BY <1>0, <1>10 DEF Fetch, CacheTypeOK, Cold
    <3> QED BY <3>1, <3>2, <1>0 DEF CallInv, Holds, IsWarm, Calls
  <2>2. CASE c # d
    BY <1>0, <1>10, <2>2, Frame DEF Fetch, Goes, CacheTypeOK
  <2> QED BY <2>1, <2>2
<1>11. CASE UNCHANGED cacheVars
  BY <1>0, <1>11 DEF cacheVars, CallInv, Holds, IsWarm
<1> QED BY <1>1, <1>2, <1>3, <1>4, <1>5, <1>6, <1>8, <1>9, <1>10, <1>11 DEF CacheNext, Step

\* The invariant, and what it says about the properties.
THEOREM CacheInvariant == CacheSpec => []Inv
<1>1. CacheInit => Inv
  <2> SUFFICES ASSUME CacheInit PROVE Inv
    OBVIOUS
  <2> DEFINE idle == [step : {"idle"}, key : Keys, seeded : {FALSE}, cell : {NoCell},
                     fetch : {Cold}, answer : {NoAnswer}, since : {-1}, warm : {-1}]
  <2>a. MaxCells \in Nat /\ MaxFetches \in Nat /\ MaxEvictions \in Nat
    BY CacheAssumption
  <2>b. -1 \in -1..MaxEvictions
    BY <2>a
  <2>0. call \in [Callers -> idle]
    BY DEF CacheInit
  <2>1. CacheTypeOK
    <3>1. idle \subseteq Calls
      <4>1. {-1} \subseteq -1..MaxEvictions
        BY <2>a
      <4>2. {Cold} \subseteq Contents /\ {NoAnswer} \subseteq Answers
        BY <2>a DEF Answers, Contents, Cold
      <4>3. {"idle"} \subseteq Steps /\ {FALSE} \subseteq BOOLEAN
        BY DEF Steps
      <4>4. {NoCell} \subseteq {NoCell} \cup Cells
        OBVIOUS
      <4>5. ASSUME NEW A1, NEW A2, NEW A3, NEW A4, NEW A5, NEW A6, NEW A7,
                   NEW B1, NEW B2, NEW B3, NEW B4, NEW B5, NEW B6, NEW B7,
                   A1 \subseteq B1, A2 \subseteq B2, A3 \subseteq B3, A4 \subseteq B4,
                   A5 \subseteq B5, A6 \subseteq B6, A7 \subseteq B7
            PROVE  [step : A1, key : Keys, seeded : A2, cell : A3,
                    fetch : A4, answer : A5, since : A6, warm : A7]
                     \subseteq
                   [step : B1, key : Keys, seeded : B2, cell : B3,
                    fetch : B4, answer : B5, since : B6, warm : B7]
        BY <4>5
      <4> QED BY ONLY <4>1, <4>2, <4>3, <4>4, <4>5 DEF Calls
    <3>2. call \in [Callers -> Calls]
      BY <2>0, <3>1
    <3> QED BY <2>a, <3>2 DEF CacheInit, CacheTypeOK, Contents, Cold
  <2>2. ASSUME NEW c \in Callers PROVE CallInv(c)
    <3>1. /\ call[c].step = "idle" /\ call[c].key \in Keys
          /\ call[c].since = -1 /\ call[c].warm = -1
      BY <2>0
    <3>2. evicted[call[c].key] = 0
      BY <3>1 DEF CacheInit
    <3> QED BY <3>1, <3>2 DEF CallInv, Holds
  <2> QED BY <2>1, <2>2 DEF Inv
<1>2. Inv /\ [CacheNext]_cacheVars => Inv'
  BY TypingStep, CallInvStep DEF Inv
<1> QED BY <1>1, <1>2, PTL DEF CacheSpec

\* A call holds a cell of the cache, a caller a fetch that was started.
THEOREM CacheTyping == CacheSpec => []CacheTypeOK
<1>1. Inv => CacheTypeOK
  BY DEF Inv
<1> QED BY <1>1, CacheInvariant, PTL

\* Callers share the stored cell until its key is evicted.
THEOREM SharedCells == CacheSpec => []SharedUntilEvicted
<1>1. Inv => SharedUntilEvicted
  BY DEF Inv, CallInv, SharedUntilEvicted
<1> QED BY <1>1, CacheInvariant, PTL

\* A call that begins warm does not fetch, unless its key is evicted before the lookup is over.
THEOREM WarmCalls == CacheSpec => []WarmCallsDoNotFetch
<1>1. Inv => WarmCallsDoNotFetch
  BY DEF Inv, CallInv, WarmCallsDoNotFetch
<1> QED BY <1>1, CacheInvariant, PTL

-----------------------------------------------------------------------------
(* Answers *)

\* What a caller may have been answered, and what it is about to be.
UsableFor(c) ==
    /\ call[c].seeded => call[c].answer # Failed
    /\ ~call[c].seeded => call[c].answer # Seed
    /\ call[c].answer # Cold
    /\ call[c].step = "snapshot" => content[call[c].cell] # Cold

Usable == \A c \in Callers : UsableFor(c)

\* A published cell is never cold again, so that a caller about to read one stays so.
LEMMA CellsStayWarm ==
    ASSUME Inv, [CacheNext]_cacheVars, NEW cell \in Cells, content[cell] # Cold
    PROVE  content'[cell] # Cold
<1>1. ASSUME NEW c \in Callers, Publish(c) PROVE content'[cell] # Cold
  <2>1. call[c].fetch # Cold
    BY <1>1 DEF Inv, CallInv, Publish
  <2> QED BY <1>1, <2>1 DEF Publish, Inv, CacheTypeOK
<1>2. ASSUME ~ \E c \in Callers : Publish(c) PROVE content' = content
  BY <1>2 DEF CacheNext, Step, Begin, Find, Build, Insert, Evict, Check, ReturnSnapshot, Fetch, Fail, cacheVars
<1> QED BY <1>1, <1>2

\* Callers keep usable answers, and get them.
LEMMA UsableStep == Inv /\ Usable /\ [CacheNext]_cacheVars => Usable'
<1> SUFFICES ASSUME Inv, Usable, [CacheNext]_cacheVars, NEW d \in Callers PROVE UsableFor(d)'
  BY DEF Usable
<1>0. /\ call \in [Callers -> Calls] /\ call[d] \in Calls /\ UsableFor(d)
      /\ Holds(d) => call[d].cell \in Cells
      /\ \A c \in Callers : Goes(c, call'[c]) /\ c # d => call'[d] = call[d]
  BY DEF Inv, CacheTypeOK, CallInv, Usable, Calls, Goes
<1>1. ASSUME call'[d] = call[d] PROVE UsableFor(d)'
  BY <1>0, <1>1, CellsStayWarm DEF UsableFor, Holds
<1>2. ASSUME NEW k \in Keys, NEW seeded \in BOOLEAN, Begin(d, k, seeded) PROVE UsableFor(d)'
  <2>1. call'[d].answer = NoAnswer /\ call'[d].step = "find"
    BY <1>0, <1>2 DEF Begin, Goes
  <2> QED BY <2>1 DEF UsableFor, Failed, Seed, Cold, NoAnswer
<1>3. ASSUME Find(d) \/ Build(d) \/ Insert(d) \/ Check(d) \/ Fetch(d) PROVE UsableFor(d)'
  <2>1. PICK to \in Calls : /\ call' = [call EXCEPT ![d] = to]
                            /\ to.seeded = call[d].seeded /\ to.answer = call[d].answer
                            /\ to.step = "snapshot" => content'[to.cell] # Cold
    <3>1. call'[d] \in Calls /\ call' = [call EXCEPT ![d] = call'[d]]
      BY <1>0, <1>3, TypingStep DEF CacheTypeOK, Find, Build, Insert, Check, Fetch, Goes
    <3>2. CASE Find(d)
      BY <1>0, <3>1, <3>2 DEF Find, Goes, Calls
    <3>3. CASE Build(d)
      BY <1>0, <3>1, <3>3 DEF Build, Goes, Calls
    <3>4. CASE Insert(d)
      BY <1>0, <3>1, <3>4 DEF Insert, Goes, Calls
    <3>5. CASE Check(d)
      BY <1>0, <3>1, <3>5 DEF Check, Goes, Calls
    <3>6. CASE Fetch(d)
      BY <1>0, <3>1, <3>6 DEF Fetch, Goes, Calls
    <3> QED BY <1>3, <3>2, <3>3, <3>4, <3>5, <3>6
  <2> QED BY <1>0, <2>1 DEF UsableFor
<1>4. ASSUME ReturnSnapshot(d) PROVE UsableFor(d)'
  <2>1. /\ call'[d].seeded = call[d].seeded /\ call'[d].step = "idle"
        /\ call'[d].answer = Snapshot(call[d].cell) /\ call[d].step = "snapshot"
    BY <1>0, <1>4 DEF ReturnSnapshot, Answered, Goes, Calls
  <2>2. call'[d].answer \in Contents /\ call'[d].answer # Cold
    BY <1>0, <2>1 DEF UsableFor, Snapshot, Holds, Inv, CacheTypeOK
  <2> QED BY <2>1, <2>2, CacheAssumption DEF UsableFor, Failed, Seed, Cold, Contents
<1>5. ASSUME Publish(d) PROVE UsableFor(d)'
  <2>1. /\ call'[d].step = "idle" /\ call'[d].answer = call[d].fetch
        /\ call[d].fetch # Cold /\ call[d].fetch \in Contents
    BY <1>0, <1>5 DEF Publish, Answered, Goes, Calls, Inv, CallInv
  <2> QED BY <2>1, CacheAssumption DEF UsableFor, Failed, Seed, Cold, Contents
<1>6. ASSUME Fail(d) PROVE UsableFor(d)'
  <2>1. /\ call'[d].seeded = call[d].seeded /\ call'[d].step = "idle"
        /\ call'[d].answer = IF call[d].seeded THEN Snapshot(call[d].cell) ELSE Failed
        /\ Holds(d)
    BY <1>0, <1>6 DEF Fail, Answered, Goes, Calls, Holds
  <2>2. Snapshot(call[d].cell) \in {Seed} \cup (Contents \ {Cold})
    BY <1>0, <2>1 DEF Snapshot, Inv, CacheTypeOK
  <2> QED BY <2>1, <2>2, CacheAssumption DEF UsableFor, Failed, Seed, Cold, Contents
<1>7. ASSUME NEW c \in Callers, c # d, (\E k \in Keys, seeded \in BOOLEAN : Begin(c, k, seeded)) \/ Step(c)
      PROVE  call'[d] = call[d]
  BY <1>0, <1>7 DEF Step, Begin, Find, Build, Insert, Check, ReturnSnapshot, Answered, Fetch, Publish, Fail, Goes
<1>8. ASSUME NEW S \in SUBSET Keys, Evict(S) PROVE call'[d] = call[d]
  BY <1>8 DEF Evict
<1>9. CASE UNCHANGED cacheVars
  BY <1>1, <1>9 DEF cacheVars
<1>10. ASSUME NEW c \in Callers, (\E k \in Keys, seeded \in BOOLEAN : Begin(c, k, seeded)) \/ Step(c)
       PROVE  UsableFor(d)'
  <2>1. CASE c = d
    BY <1>2, <1>3, <1>4, <1>5, <1>6, <1>10, <2>1 DEF Step
  <2>2. CASE c # d
    BY <1>1, <1>7, <1>10, <2>2
  <2> QED BY <2>1, <2>2
<1>11. ASSUME NEW S \in SUBSET Keys, Evict(S) PROVE UsableFor(d)'
  BY <1>1, <1>8, <1>11
<1>12. Keys \in SUBSET Keys /\ \A k \in Keys : {k} \in SUBSET Keys
  OBVIOUS
<1> QED BY <1>9, <1>10, <1>11, <1>12 DEF CacheNext

\* Nobody is answered with a cold cell; a call with a seed is never answered with an
\* error, and one without never with a seed.
THEOREM UsableAnswers == CacheSpec => []AnswersAreUsable
<1>1. CacheInit => Usable
  <2> SUFFICES ASSUME CacheInit, NEW c \in Callers PROVE UsableFor(c)
    BY DEF Usable
  <2>1. call[c].answer = NoAnswer /\ call[c].step = "idle"
    BY DEF CacheInit
  <2> QED BY <2>1 DEF UsableFor, Failed, Seed, Cold, NoAnswer
<1>2. Usable => AnswersAreUsable
  BY DEF Usable, UsableFor, AnswersAreUsable
<1> QED BY <1>1, <1>2, UsableStep, CacheInvariant, PTL DEF CacheSpec

-----------------------------------------------------------------------------
(***************************************************************************)
(* Proofs about SourceHolder, for any number of lookups, set() calls,      *)
(* parsers and set types.                                                  *)
(***************************************************************************)

\* set() returns only for sources that were stored.
SettledIsStored ==
    /\ settled <= source.rev
    /\ \A s \in Setters : storing[s] # NoRev => storing[s] <= source.rev

\* What a call knows of the sources at each point: what it loaded itself is no
\* older than what was settled when it began, and so is what it found unless it
\* was tainted.
CallsAreFresh ==
    \A r \in Readers :
        /\ floor[r] <= settled
        /\ pc[r] \in {"findView", "insertView"} => floor[r] <= loaded[r]
        /\ pc[r] \in {"insertSet", "done"} /\ r \notin tainted => floor[r] <= view[r]

\* Only calls with a set type touch the compiled sets.
CallShape == \A r \in Readers : pc[r] \in {"findSet", "insertSet"} => type[r] \in Types

IInv ==
    /\ TypeOK
    /\ CallShape
    /\ SettledIsStored
    /\ CallsAreFresh
    /\ CachesFollowSource

\* "No entry" is not the number of a source.
LEMMA NoneIsNoRev == NoRev \notin Rev /\ 0 \in Rev /\ Rev \subseteq Nat
BY SourceHolderAssumption DEF NoRev, Rev

-----------------------------------------------------------------------------

\* set() stores a newer source, and clears both caches before it returns.
LEMMA SetterStep ==
    ASSUME IInv, NEW s \in Setters, SetterNext(s)
    PROVE  IInv'
<1> USE SourceHolderAssumption, NoneIsNoRev DEF IInv, readerVars
<1>1. CASE StoreSource(s)
  <2> PICK scope \in SUBSET Ids : source' = [rev |-> source.rev + 1, scope |-> scope]
    BY <1>1 DEF StoreSource
  <2>0. source.rev \in Rev /\ source.rev + 1 \in Rev /\ source'.rev = source.rev + 1
    BY <1>1 DEF StoreSource, TypeOK, Sources, Rev
  <2>1. TypeOK'
    BY <1>1, <2>0 DEF StoreSource, TypeOK, Sources, caches
  <2>2. SettledIsStored'
    BY <1>1, <2>0 DEF StoreSource, SettledIsStored, TypeOK, Rev, NoRev
  <2>3. CallsAreFresh'
    BY <1>1 DEF StoreSource, CallsAreFresh
  <2>4. CachesFollowSource'
    BY <1>1 DEF StoreSource, CachesFollowSource, caches
  <2>5. CallShape'
    BY <1>1 DEF StoreSource, CallShape
  <2> QED BY <2>1, <2>2, <2>3, <2>4, <2>5
<1>2. CASE ClearCaches(s)
  <2>0. storing[s] \in Rev /\ settled' \in Rev /\ settled <= settled' /\ settled' <= source.rev
    BY <1>2 DEF ClearCaches, TypeOK, SettledIsStored, Rev, Sources
  <2>1. TypeOK'
    BY <1>2, <2>0 DEF ClearCaches, TypeOK
  <2>2. SettledIsStored'
    BY <1>2, <2>0 DEF ClearCaches, SettledIsStored, TypeOK
  <2>3. CallsAreFresh'
    BY <1>2, <2>0 DEF ClearCaches, CallsAreFresh, TypeOK, Rev
  <2>4. CachesFollowSource'
    BY <1>2 DEF ClearCaches, CachesFollowSource
  <2>5. CallShape'
    BY <1>2 DEF ClearCaches, CallShape
  <2> QED BY <2>1, <2>2, <2>3, <2>4, <2>5
<1> QED BY <1>1, <1>2 DEF SetterNext

\* A lookup keeps the types, and only carries what its place allows.
LEMMA ReaderTypes ==
    ASSUME TypeOK, CallShape, NEW r \in Readers, ReaderNext(r)
    PROVE  TypeOK' /\ CallShape'
<1> USE SourceHolderAssumption, NoneIsNoRev DEF TypeOK, CallShape, Goto, HasView, Points
<1>0. id[r] \in Ids /\ (type[r] \in Types => <<id[r], type[r]>> \in TypedKeys)
  BY DEF TypedKeys
<1>1. ASSUME NEW i \in Ids, NEW t \in Types \cup {NoType}, Call(r, i, t) PROVE TypeOK' /\ CallShape'
  BY <1>1 DEF Call, caches
<1>2. CASE FindSet(r)
  BY <1>2, <1>0 DEF FindSet, caches, Taint
<1>3. CASE LoadSource(r)
  BY <1>3 DEF LoadSource, caches, Sources
<1>4. CASE FindView(r)
  BY <1>4 DEF FindView, caches, Taint
<1>5. CASE InsertView(r)
  BY <1>5 DEF InsertView, Taint, Late
<1>6. CASE InsertSet(r)
  <2>1. sets[<<id[r], type[r]>>] # NoRev => sets[<<id[r], type[r]>>] \in Rev
    BY <1>6, <1>0 DEF InsertSet
  <2>2. sets' \in [TypedKeys -> Rev \cup {NoRev}] /\ view' \in [Readers -> Rev]
    BY <1>6, <1>0, <2>1 DEF InsertSet
  <2>3. late' \in SUBSET (Ids \cup TypedKeys) /\ tainted' \in SUBSET Readers
    BY <1>6, <1>0 DEF InsertSet, Taint, Late
  <2> QED BY <1>6, <2>2, <2>3 DEF InsertSet
<1>7. CASE Return(r)
  BY <1>7 DEF Return, caches
<1> QED BY <1>1, <1>2, <1>3, <1>4, <1>5, <1>6, <1>7 DEF ReaderNext

\* A lookup stores nothing older than the set() calls that had ended when it read.
LEMMA ReaderStep ==
    ASSUME IInv, NEW r \in Readers, ReaderNext(r)
    PROVE  IInv'
<1> USE SourceHolderAssumption, NoneIsNoRev DEF IInv
<1>0. TypeOK' /\ CallShape'
  BY ReaderTypes
<1>1. SettledIsStored' /\ settled' = settled
  BY DEF ReaderNext, Call, FindSet, LoadSource, FindView, InsertView, InsertSet, Return,
         SettledIsStored
<1>2. CachesFollowSource'
  <2>1. CASE InsertView(r)
    BY <2>1 DEF InsertView, CachesFollowSource, Late, TypeOK, Rev
  <2>2. CASE InsertSet(r)
    BY <2>2 DEF InsertSet, CachesFollowSource, Late, TypeOK, Rev
  <2>3. CASE UNCHANGED caches
    BY <2>3, <1>1 DEF CachesFollowSource, caches
  <2> QED BY <2>1, <2>2, <2>3 DEF ReaderNext, Call, FindSet, LoadSource, FindView, Return
<1>3. CallsAreFresh'
  <2> USE DEF CallsAreFresh, TypeOK, Goto, HasView
  <2>1. ASSUME NEW i \in Ids, NEW t \in Types \cup {NoType}, Call(r, i, t) PROVE CallsAreFresh'
    BY <2>1 DEF Call, Rev
  <2>2. CASE FindSet(r)
    BY <2>2 DEF FindSet, CallShape, CachesFollowSource, Taint, TypedKeys, Rev
  <2>3. CASE LoadSource(r)
    BY <2>3 DEF LoadSource, SettledIsStored, Sources, Rev
  <2>4. CASE FindView(r)
    BY <2>4 DEF FindView, CachesFollowSource, Taint, Rev
  <2>5. CASE InsertView(r)
    BY <2>5 DEF InsertView, CachesFollowSource, Taint, Rev
  <2>6. CASE InsertSet(r)
    BY <2>6 DEF InsertSet, CallShape, CachesFollowSource, Taint, TypedKeys, Rev
  <2>7. CASE Return(r)
    BY <2>7 DEF Return, Rev
  <2> QED BY <2>1, <2>2, <2>3, <2>4, <2>5, <2>6, <2>7 DEF ReaderNext
<1> QED BY <1>0, <1>1, <1>2, <1>3

\* The invariant the results below are taken from.
THEOREM Invariance == Spec => []IInv
<1>1. Init => IInv
  BY SourceHolderAssumption, NoneIsNoRev
  DEF Init, IInv, TypeOK, CallShape, Points, Sources, SettledIsStored, CallsAreFresh,
      CachesFollowSource
<1>2. IInv /\ [Next]_vars => IInv'
  <2>1. ASSUME IInv, UNCHANGED vars PROVE IInv'
    BY <2>1 DEF IInv, TypeOK, CallShape, SettledIsStored, CallsAreFresh, CachesFollowSource,
                vars, caches, readerVars
  <2> QED BY <2>1, SetterStep, ReaderStep DEF Next
<1> QED BY <1>1, <1>2, PTL DEF Spec

\* Every variable keeps its type.
THEOREM TypeCorrect == Spec => []TypeOK
BY Invariance, PTL DEF IInv

\* Everything cached is as new as the newest settled source, or was put there by a
\* lookup that set() had outrun.
THEOREM CachesFollow == Spec => []CachesFollowSource
BY Invariance, PTL DEF IInv

\* A call that meets no late key is answered from a source that was current at some
\* moment of the call.
THEOREM StaleOnlyThroughLate == Spec => []StaleOnlyThroughLateKeys
<1>1. IInv => StaleOnlyThroughLateKeys
  BY DEF IInv, CallsAreFresh, StaleOnlyThroughLateKeys, TypeOK, Rev
<1> QED BY <1>1, Invariance, PTL

\* A stored set is dropped with all others or not at all, whoever races to build it.
THEOREM OneCopy == Spec => OneCopyUntilCleared
<1> DEFINE Stays ==
      \A k \in TypedKeys : sets[k] # NoRev => sets'[k] = sets[k] \/ \A j \in TypedKeys : sets'[j] = NoRev
<1>1. IInv /\ [Next]_vars => [Stays]_vars
  <2> SUFFICES ASSUME IInv, Next PROVE Stays
    BY DEF vars, caches
  <2>1. ASSUME NEW s \in Setters, SetterNext(s) PROVE Stays
    BY <2>1 DEF SetterNext, StoreSource, ClearCaches, caches
  <2>2. ASSUME NEW r \in Readers, ReaderNext(r) PROVE Stays
    <3>1. CASE InsertSet(r)
      BY <3>1 DEF InsertSet, IInv, TypeOK
    <3>2. CASE UNCHANGED sets
      BY <3>2
    <3> QED BY <2>2, <3>1, <3>2 DEF ReaderNext, Call, FindSet, LoadSource, FindView,
                                    InsertView, Return, caches
  <2> QED BY <2>1, <2>2 DEF Next
<1> QED BY <1>1, Invariance, PTL DEF Spec, OneCopyUntilCleared

=============================================================================
