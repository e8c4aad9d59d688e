------------------------- MODULE RecoveryKeyProofs --------------------------
(***************************************************************************)
(* Proofs about RecoveryKey, for keys and groups of any length and any     *)
(* separators and odd characters.                                          *)
(***************************************************************************)
EXTENDS RecoveryKey, FiniteSetTheorems, SequenceTheorems, TLAPS

Chars == HexDigits \cup {"-"} \cup Separators \cup OddCharacters

(* Where a text has hex digits: what parse_recovery_key keeps.             *)
HexPlaces(s) == {p \in 1 .. Len(s) : s[p] \in HexDigits}

(* The value of the i-th hex digit of key k.                               *)
Nibble(k, i) ==
    LET byte == k[(i + 1) \div 2]
    IN  IF i % 2 = 1 THEN byte \div 16 ELSE byte % 16

(* at leads from the digits of k to the places of s that show them: all    *)
(* hex digits of s, in the order of k, in either case.                     *)
Shown(s, k, at) ==
    /\ at \in [1 .. 2 * KeyBytes -> HexPlaces(s)]
    /\ \A i, j \in 1 .. 2 * KeyBytes : i < j => at[i] < at[j]
    /\ \A p \in HexPlaces(s) : \E i \in 1 .. 2 * KeyBytes : p = at[i]
    /\ \A i \in 1 .. 2 * KeyBytes : Digit(s[at[i]]) = Nibble(k, i)

(* Every key a text could show, one a person was given or not.             *)
ByteKeys == [1 .. KeyBytes -> 0 .. 255]

Shows(s, k) == \E at \in [1 .. 2 * KeyBytes -> HexPlaces(s)] : Shown(s, k, at)

-----------------------------------------------------------------------------
(* Hex digits                                                              *)

(* The sixteen digits of a case are different, and so are a digit of one   *)
(* case and a digit of the other that stands elsewhere.                    *)
LEMMA DigitsDiffer ==
    ASSUME NEW i \in 1 .. 16, NEW j \in 1 .. 16, i # j
    PROVE  /\ UpperHex[i] # UpperHex[j]
           /\ LowerHex[i] # LowerHex[j]
           /\ UpperHex[i] # LowerHex[j]
  BY DEF UpperHex, LowerHex

LEMMA HexDigitForms ==
    ASSUME NEW c
    PROVE  c \in HexDigits <=> \E i \in 1 .. 16 : c \in {UpperHex[i], LowerHex[i]}
  BY DEF HexDigits, Range, UpperHex, LowerHex

(* Digit is the position of the digit in either case.                      *)
LEMMA DigitOfForm ==
    ASSUME NEW i \in 1 .. 16, NEW c \in {UpperHex[i], LowerHex[i]}
    PROVE  Digit(c) = i - 1
<1>1. \A j \in 1 .. 16 : c \in {UpperHex[j], LowerHex[j]} <=> j = i
  BY DigitsDiffer
<1> QED
  BY <1>1 DEF Digit

LEMMA DigitRange ==
    ASSUME NEW c \in HexDigits
    PROVE  /\ Digit(c) \in 0 .. 15
           /\ c \in {UpperHex[Digit(c) + 1], LowerHex[Digit(c) + 1]}
<1>1. PICK i \in 1 .. 16 : c \in {UpperHex[i], LowerHex[i]}
  BY HexDigitForms
<1>2. Digit(c) = i - 1
  BY <1>1, DigitOfForm
<1> QED
  BY <1>1, <1>2

(* The other case of a digit is a digit of the same value (Recase).        *)
LEMMA FormsKeepDigit ==
    ASSUME NEW c \in HexDigits, NEW d \in Forms(c)
    PROVE  d \in HexDigits /\ Digit(d) = Digit(c)
<1> DEFINE i == Digit(c) + 1
<1>1. i \in 1 .. 16 /\ d \in {UpperHex[i], LowerHex[i]}
  BY DigitRange DEF Forms
<1>2. Digit(d) = i - 1
  BY <1>1, DigitOfForm
<1> QED
  BY <1>1, <1>2, HexDigitForms, DigitRange

(* The signs that are no digits.                                           *)
LEMMA NoDigits ==
    /\ "-" \notin HexDigits /\ "+" \notin HexDigits
    /\ \A c \in Separators \cup OddCharacters : c \notin HexDigits
<1>1. "-" \notin HexDigits /\ "+" \notin HexDigits
  BY DEF HexDigits, Range, UpperHex, LowerHex
<1> QED
  BY <1>1, CharactersAssumption DEF is_ascii_hexdigit

-----------------------------------------------------------------------------
(* Division                                                                *)

LEMMA DivUnique ==
    ASSUME NEW g \in Nat \ {0}, NEW a \in Nat, NEW r \in 0 .. g - 1, NEW n \in Nat,
           n = g * a + r
    PROVE  n \div g = a /\ n % g = r
  OBVIOUS

LEMMA DivMod ==
    ASSUME NEW g \in Nat \ {0}, NEW n \in Nat
    PROVE  n \div g \in Nat /\ n % g \in 0 .. g - 1 /\ n = g * (n \div g) + (n % g)
  OBVIOUS

-----------------------------------------------------------------------------
(* What parse_recovery_key counts and returns                              *)

LEMMA KeyBytesPositive == 2 * KeyBytes \in Nat
  BY GroupAssumption

LEMMA HexPlacesFinite ==
    ASSUME NEW s \in Seq(Chars)
    PROVE  /\ HexPlaces(s) \subseteq 1 .. Len(s)
           /\ IsFiniteSet(HexPlaces(s))
           /\ Cardinality(HexPlaces(s)) \in Nat
<1>1. Len(s) \in Nat
  BY LenProperties
<1>2. IsFiniteSet(1 .. Len(s))
  BY <1>1, FS_Interval
<1>3. HexPlaces(s) \in SUBSET (1 .. Len(s))
  BY DEF HexPlaces
<1>4. IsFiniteSet(HexPlaces(s))
  BY <1>2, <1>3, FS_Subset
<1> QED
  BY <1>3, <1>4, FS_CardinalityType

LEMMA OneToOne ==
    ASSUME NEW S, NEW T, NEW f \in [S -> T],
           \A a, b \in S : f[a] = f[b] => a = b,
           \A t \in T : \E a \in S : f[a] = t
    PROVE  ExistsBijection(S, T)
<1>1. f \in Injection(S, T) /\ f \in Surjection(S, T)
  BY DEF Injection, IsInjective, Surjection
<1> QED
  BY <1>1 DEF ExistsBijection, Bijection

(* The i-th place that shows a key is the i-th hex digit of the text.      *)
LEMMA ShownRank ==
    ASSUME NEW s \in Seq(Chars), NEW k, NEW at, Shown(s, k, at),
           NEW i \in 1 .. 2 * KeyBytes
    PROVE  Cardinality({q \in HexPlaces(s) : q <= at[i]}) = i
<1> DEFINE Below == {q \in HexPlaces(s) : q <= at[i]}
           rank == [j \in 1 .. i |-> at[j]]
<1>1. HexPlaces(s) \subseteq Int
  BY HexPlacesFinite
<1>2. 2 * KeyBytes \in Nat /\ i \in Nat /\ 1 .. i \subseteq 1 .. 2 * KeyBytes
  BY KeyBytesPositive
<1>3. \A j, l \in 1 .. 2 * KeyBytes : at[j] <= at[l] <=> j <= l
  <2>1. \A j \in 1 .. 2 * KeyBytes : at[j] \in Int
    BY <1>1 DEF Shown
  <2>2. \A j, l \in 1 .. 2 * KeyBytes : j < l => at[j] < at[l]
    BY DEF Shown
  <2> QED
    BY <2>1, <2>2, <1>2
<1>4. rank \in [1 .. i -> Below]
  BY <1>2, <1>3 DEF Shown
<1>5. \A j, l \in 1 .. i : rank[j] = rank[l] => j = l
  <2>1. SUFFICES ASSUME NEW j \in 1 .. i, NEW l \in 1 .. i, at[j] = at[l]
                 PROVE  j = l
    OBVIOUS
  <2>2. at[j] \in Int /\ at[l] \in Int
    BY <1>1, <1>2 DEF Shown
  <2>3. at[j] <= at[l] /\ at[l] <= at[j]
    BY <2>1, <2>2
  <2> QED
    BY <2>3, <1>2, <1>3
<1>6. \A p \in Below : \E j \in 1 .. i : rank[j] = p
  <2>1. SUFFICES ASSUME NEW p \in Below
                 PROVE  \E j \in 1 .. i : rank[j] = p
    OBVIOUS
  <2>2. PICK j \in 1 .. 2 * KeyBytes : p = at[j]
    BY DEF Shown
  <2>3. j <= i
    BY <1>3, <2>2
  <2> QED
    BY <2>2, <2>3, <1>2
<1> HIDE DEF Below, rank
<1>7. ExistsBijection(1 .. i, Below)
  BY <1>4, <1>5, <1>6, OneToOne
<1>8. Cardinality(Below) = i
  BY <1>2, <1>7, FS_CountingElements
<1> QED
  BY <1>8 DEF Below

LEMMA ShownCount ==
    ASSUME NEW s \in Seq(Chars), NEW k, NEW at, Shown(s, k, at)
    PROVE  Cardinality(HexPlaces(s)) = 2 * KeyBytes
<1> DEFINE n == 2 * KeyBytes
<1>1. n \in 1 .. n
  BY GroupAssumption
<1>2. \A p \in HexPlaces(s) : p <= at[n]
  <2>1. SUFFICES ASSUME NEW p \in HexPlaces(s)
                 PROVE  p <= at[n]
    OBVIOUS
  <2>2. PICK j \in 1 .. n : p = at[j]
    BY DEF Shown
  <2>3. j = n \/ at[j] < at[n]
    BY <1>1, KeyBytesPositive DEF Shown
  <2>4. p \in Int /\ at[n] \in Int
    BY <1>1, HexPlacesFinite DEF Shown
  <2> QED
    BY <2>2, <2>3, <2>4
<1>3. {q \in HexPlaces(s) : q <= at[n]} = HexPlaces(s)
  BY <1>2
<1> QED
  BY <1>1, <1>3, ShownRank

(* The filter of parse_recovery_key, with its parts named.                 *)
NthHex(s, i) == CHOOSE p \in HexPlaces(s) : Cardinality({q \in HexPlaces(s) : q <= p}) = i

LEMMA OnlyHex ==
    ASSUME NEW s
    PROVE  only(HexDigits, s) = [i \in 1 .. Cardinality(HexPlaces(s)) |-> s[NthHex(s, i)]]
  BY DEF only, HexPlaces, NthHex

(* The kept characters of a text that shows a key.                         *)
LEMMA ShownClean ==
    ASSUME NEW s \in Seq(Chars), NEW k, NEW at, Shown(s, k, at)
    PROVE  only(HexDigits, s) = [i \in 1 .. 2 * KeyBytes |-> s[at[i]]]
<1>1. ASSUME NEW i \in 1 .. 2 * KeyBytes
      PROVE  NthHex(s, i) = at[i]
  <2>1. Cardinality({q \in HexPlaces(s) : q <= at[i]}) = i
    BY ShownRank
  <2>2. ASSUME NEW p \in HexPlaces(s), Cardinality({q \in HexPlaces(s) : q <= p}) = i
        PROVE  p = at[i]
    <3>1. PICK j \in 1 .. 2 * KeyBytes : p = at[j]
      BY DEF Shown
    <3>2. Cardinality({q \in HexPlaces(s) : q <= at[j]}) = j
      BY ShownRank
    <3> QED
      BY <2>2, <3>1, <3>2
  <2>3. at[i] \in HexPlaces(s)
    BY DEF Shown
  <2> QED
    BY <2>1, <2>2, <2>3 DEF NthHex
<1> QED
  BY <1>1, ShownCount, OnlyHex

LEMMA NibblePair ==
    ASSUME NEW k, NEW i \in 1 .. KeyBytes
    PROVE  /\ 2 * i - 1 \in 1 .. 2 * KeyBytes /\ 2 * i \in 1 .. 2 * KeyBytes
           /\ Nibble(k, 2 * i - 1) = k[i] \div 16
           /\ Nibble(k, 2 * i) = k[i] % 16
<1>1. KeyBytes \in Nat
  BY GroupAssumption
<1>2. ((2 * i - 1) + 1) \div 2 = i /\ (2 * i - 1) % 2 = 1
  OBVIOUS
<1>3. (2 * i + 1) \div 2 = i /\ (2 * i) % 2 = 0
  OBVIOUS
<1> QED
  BY <1>1, <1>2, <1>3 DEF Nibble

(* u8::from_str_radix puts the two digits of a byte together again.        *)
LEMMA BytesReadBack ==
    ASSUME NEW b \in 0 .. 255, NEW hi \in HexDigits, NEW lo \in HexDigits,
           Digit(hi) = b \div 16, Digit(lo) = b % 16
    PROVE  from_str_radix(hi, lo) = Ok(b)
<1>1. hi # "+"
  BY NoDigits
<1>2. b = 16 * (b \div 16) + (b % 16)
  OBVIOUS
<1> QED
  BY <1>1, <1>2 DEF from_str_radix, is_ascii_hexdigit

(* A text that shows a key parses to it (parse_recovery_key).              *)
LEMMA ShownParses ==
    ASSUME NEW s \in Seq(Chars), NEW k \in ByteKeys, Shows(s, k)
    PROVE  parse_recovery_key(s) = Ok(k)
<1> DEFINE n == 2 * KeyBytes
           clean == only(HexDigits, s)
           byte(i) == from_str_radix(clean[2 * i - 1], clean[2 * i])
           bytes == [i \in 1 .. KeyBytes |-> byte(i)]
<1>1. PICK at \in [1 .. n -> HexPlaces(s)] : Shown(s, k, at)
  BY DEF Shows
<1>2. clean = [i \in 1 .. n |-> s[at[i]]]
  BY <1>1, ShownClean
<1>3. Len(clean) = n
  BY <1>2, KeyBytesPositive
<1>4. \A i \in 1 .. n : clean[i] \in HexDigits /\ Digit(clean[i]) = Nibble(k, i)
  <2>1. SUFFICES ASSUME NEW i \in 1 .. n
                 PROVE  clean[i] \in HexDigits /\ Digit(clean[i]) = Nibble(k, i)
    OBVIOUS
  <2>2. clean[i] = s[at[i]]
    BY <1>2
  <2>3. s[at[i]] \in HexDigits
    BY DEF HexPlaces
  <2> QED
    BY <1>1, <2>2, <2>3 DEF Shown
<1> HIDE DEF clean
<1>5. k \in [1 .. KeyBytes -> 0 .. 255]
  BY DEF ByteKeys
<1>6. ASSUME NEW i \in 1 .. KeyBytes
      PROVE  byte(i) = Ok(k[i])
  <2>1. /\ clean[2 * i - 1] \in HexDigits /\ Digit(clean[2 * i - 1]) = k[i] \div 16
        /\ clean[2 * i] \in HexDigits /\ Digit(clean[2 * i]) = k[i] % 16
    BY <1>4, NibblePair
  <2>2. k[i] \in 0 .. 255
    BY <1>5
  <2> QED
    BY <2>1, <2>2, BytesReadBack
<1> HIDE DEF byte
<1>7. bytes = [i \in 1 .. KeyBytes |-> Ok(k[i])]
  BY <1>6
<1>8. [i \in 1 .. KeyBytes |-> bytes[i].val] = k /\ \A i \in 1 .. KeyBytes : bytes[i].ok
  BY <1>5, <1>7 DEF Ok
<1>9. parse_digits(clean) = Ok([i \in 1 .. KeyBytes |-> bytes[i].val])
  BY <1>3, <1>8 DEF parse_digits, byte
<1> QED
  BY <1>8, <1>9 DEF parse_recovery_key, clean

LEMMA ErrIsNotOk ==
    ASSUME NEW e
    PROVE  Err(e).ok = FALSE
  BY DEF Err

(* A text with more or fewer digits than a key is refused.                 *)
LEMMA MiscountedIsRefused ==
    ASSUME NEW s \in Seq(Chars), Cardinality(HexPlaces(s)) # 2 * KeyBytes
    PROVE  parse_recovery_key(s).ok = FALSE
<1> DEFINE clean == only(HexDigits, s)
<1>1. Len(clean) = Cardinality(HexPlaces(s))
  BY OnlyHex, HexPlacesFinite
<1> HIDE DEF clean
<1>2. parse_digits(clean) = Err("Invalid recovery key: expected 64 hex chars")
  BY <1>1 DEF parse_digits
<1>3. parse_recovery_key(s) = Err("Invalid recovery key: expected 64 hex chars")
  BY <1>2 DEF parse_recovery_key, clean
<1> QED
  BY <1>3, ErrIsNotOk

-----------------------------------------------------------------------------
(* One character more or less                                              *)

(* t is s without what stands at place p.                                  *)
Drops(s, p, t) ==
    /\ s \in Seq(Chars) /\ p \in 1 .. Len(s) /\ t \in Seq(Chars)
    /\ Len(t) = Len(s) - 1
    /\ \A q \in 1 .. Len(t) : t[q] = IF q < p THEN s[q] ELSE s[q + 1]

LEMMA Removed ==
    ASSUME NEW s \in Seq(Chars), NEW p \in 1 .. Len(s)
    PROVE  Drops(s, p, RemoveAt(s, p))
<1> DEFINE a == SubSeq(s, 1, p - 1)
           b == SubSeq(s, p + 1, Len(s))
<1>1. Len(s) \in Nat /\ \A q \in 1 .. Len(s) : s[q] \in Chars
  BY LenProperties, ElementOfSeq
<1>2. /\ a \in Seq(Chars) /\ Len(a) = p - 1
      /\ \A q \in 1 .. p - 1 : a[q] = s[q]
  <2>1. \A q \in 1 .. p - 1 : s[q] \in Chars
    BY <1>1
  <2>2. /\ a \in Seq(Chars) /\ Len(a) = IF 1 <= p - 1 THEN (p - 1) - 1 + 1 ELSE 0
        /\ \A q \in 1 .. (p - 1) - 1 + 1 : a[q] = s[1 + q - 1]
    BY <2>1, SubSeqProperties
  <2> QED
    BY <2>2
<1>3. /\ b \in Seq(Chars) /\ Len(b) = Len(s) - p
      /\ \A q \in 1 .. Len(s) - p : b[q] = s[p + q]
  <2>1. \A q \in p + 1 .. Len(s) : s[q] \in Chars
    BY <1>1
  <2>2. /\ b \in Seq(Chars) /\ Len(b) = IF p + 1 <= Len(s) THEN Len(s) - (p + 1) + 1 ELSE 0
        /\ \A q \in 1 .. Len(s) - (p + 1) + 1 : b[q] = s[(p + 1) + q - 1]
    BY <1>1, <2>1, SubSeqProperties
  <2> QED
    BY <1>1, <2>2
<1> HIDE DEF a, b
<1>4. /\ a \o b \in Seq(Chars) /\ Len(a \o b) = Len(s) - 1
      /\ \A q \in 1 .. Len(s) - 1 : (a \o b)[q] = IF q <= p - 1 THEN a[q] ELSE b[q - (p - 1)]
  <2>1. Len(a) + Len(b) = Len(s) - 1
    BY <1>1, <1>2, <1>3
  <2>2. /\ a \o b \in Seq(Chars) /\ Len(a \o b) = Len(a) + Len(b)
        /\ \A q \in 1 .. Len(a) + Len(b) :
               (a \o b)[q] = IF q <= Len(a) THEN a[q] ELSE b[q - Len(a)]
    BY <1>2, <1>3, ConcatProperties
  <2>3. Len(a) = p - 1
    BY <1>2
  <2> QED
    BY <2>1, <2>2, <2>3
<1>5. ASSUME NEW q \in 1 .. Len(s) - 1
      PROVE  (a \o b)[q] = IF q < p THEN s[q] ELSE s[q + 1]
  <2>1. CASE q < p
    <3>1. q \in 1 .. p - 1 /\ q <= p - 1
      BY <1>1, <2>1
    <3> QED
      BY <1>2, <1>4, <2>1, <3>1
  <2>2. CASE q >= p
    <3>1. q - (p - 1) \in 1 .. Len(s) - p /\ ~(q <= p - 1) /\ p + (q - (p - 1)) = q + 1
      BY <1>1, <2>2
    <3> QED
      BY <1>3, <1>4, <2>2, <3>1
  <2>3. q < p \/ q >= p
    BY <1>1
  <2> QED
    BY <2>1, <2>2, <2>3
<1>6. RemoveAt(s, p) = a \o b
  BY DEF RemoveAt, a, b
<1> QED
  BY <1>4, <1>5, <1>6 DEF Drops

LEMMA Inserted ==
    ASSUME NEW s \in Seq(Chars), NEW p \in 1 .. Len(s) + 1, NEW c \in Chars
    PROVE  Drops(InsertAt(s, p, c), p, s) /\ InsertAt(s, p, c)[p] = c
<1> DEFINE a == SubSeq(s, 1, p - 1)
           b == SubSeq(s, p, Len(s))
           ac == a \o <<c>>
           t == ac \o b
<1>1. Len(s) \in Nat /\ \A q \in 1 .. Len(s) : s[q] \in Chars
  BY LenProperties, ElementOfSeq
<1>2. /\ a \in Seq(Chars) /\ Len(a) = p - 1
      /\ \A q \in 1 .. p - 1 : a[q] = s[q]
  <2>1. \A q \in 1 .. p - 1 : s[q] \in Chars
    BY <1>1
  <2>2. /\ a \in Seq(Chars) /\ Len(a) = IF 1 <= p - 1 THEN (p - 1) - 1 + 1 ELSE 0
        /\ \A q \in 1 .. (p - 1) - 1 + 1 : a[q] = s[1 + q - 1]
    BY <1>1, <2>1, SubSeqProperties
  <2> QED
    BY <1>1, <2>2
<1>3. /\ b \in Seq(Chars) /\ Len(b) = Len(s) - p + 1
      /\ \A q \in 1 .. Len(s) - p + 1 : b[q] = s[p + q - 1]
  <2>1. \A q \in p .. Len(s) : s[q] \in Chars
    BY <1>1
  <2>2. /\ b \in Seq(Chars) /\ Len(b) = IF p <= Len(s) THEN Len(s) - p + 1 ELSE 0
        /\ \A q \in 1 .. Len(s) - p + 1 : b[q] = s[p + q - 1]
    BY <1>1, <2>1, SubSeqProperties
  <2> QED
    BY <1>1, <2>2
<1> HIDE DEF a, b
<1>4. /\ ac \in Seq(Chars) /\ Len(ac) = p
      /\ \A q \in 1 .. p : ac[q] = IF q < p THEN s[q] ELSE c
  <2>1. <<c>> \in Seq(Chars) /\ Len(<<c>>) = 1 /\ <<c>>[1] = c
    OBVIOUS
  <2>2. Len(a) + Len(<<c>>) = p
    BY <1>1, <1>2, <2>1
  <2>3. /\ ac \in Seq(Chars) /\ Len(ac) = p
        /\ \A q \in 1 .. p : ac[q] = IF q <= p - 1 THEN a[q] ELSE <<c>>[q - (p - 1)]
    BY <1>2, <2>1, <2>2, ConcatProperties
  <2> QED
    BY <1>1, <1>2, <2>1, <2>3
<1> HIDE DEF ac
<1>5. /\ t \in Seq(Chars) /\ Len(t) = Len(s) + 1
      /\ \A q \in 1 .. Len(s) + 1 : t[q] = IF q <= p THEN ac[q] ELSE b[q - p]
  <2>1. Len(ac) + Len(b) = Len(s) + 1
    BY <1>1, <1>3, <1>4
  <2> QED
    BY <1>3, <1>4, <2>1, ConcatProperties
<1> HIDE DEF t
<1>6. t[p] = c
  BY <1>1, <1>4, <1>5
<1>7. ASSUME NEW q \in 1 .. Len(s)
      PROVE  s[q] = IF q < p THEN t[q] ELSE t[q + 1]
  <2>1. CASE q < p
    <3>1. q \in 1 .. p /\ q \in 1 .. Len(s) + 1 /\ q <= p
      BY <1>1, <2>1
    <3> QED
      BY <1>4, <1>5, <2>1, <3>1
  <2>2. CASE q >= p
    <3>1. /\ q + 1 \in 1 .. Len(s) + 1 /\ ~(q + 1 <= p) /\ ~(q < p)
          /\ (q + 1) - p \in 1 .. Len(s) - p + 1 /\ p + ((q + 1) - p) - 1 = q
      BY <1>1, <2>2
    <3> QED
      BY <1>3, <1>5, <3>1
  <2> QED
    BY <1>1, <2>1, <2>2
<1>8. InsertAt(s, p, c) = t
  BY DEF InsertAt, a, b, ac, t
<1>9. p \in 1 .. Len(t) /\ Len(s) = Len(t) - 1
  BY <1>1, <1>5
<1> QED
  BY <1>5, <1>6, <1>7, <1>8, <1>9 DEF Drops

(* The place in s of the character at place q of t, and back.              *)
Up(p, q) == IF q < p THEN q ELSE q + 1
Down(p, q) == IF q < p THEN q ELSE q - 1

LEMMA UpAndDown ==
    ASSUME NEW s, NEW p, NEW t, Drops(s, p, t)
    PROVE  /\ \A q \in 1 .. Len(t) : /\ Up(p, q) \in (1 .. Len(s)) \ {p}
                                     /\ t[q] = s[Up(p, q)]
                                     /\ Down(p, Up(p, q)) = q
           /\ \A q \in (1 .. Len(s)) \ {p} : /\ Down(p, q) \in 1 .. Len(t)
                                             /\ t[Down(p, q)] = s[q]
                                             /\ Up(p, Down(p, q)) = q
           /\ \A q, r \in 1 .. Len(t) : q < r => Up(p, q) < Up(p, r)
           /\ \A q, r \in (1 .. Len(s)) \ {p} : q < r => Down(p, q) < Down(p, r)
<1>1. Len(s) \in Nat /\ p \in 1 .. Len(s) /\ Len(t) = Len(s) - 1
  BY LenProperties DEF Drops
<1>2. ASSUME NEW q \in 1 .. Len(t)
      PROVE  /\ Up(p, q) \in (1 .. Len(s)) \ {p}
             /\ t[q] = s[Up(p, q)]
             /\ Down(p, Up(p, q)) = q
  <2>1. Up(p, q) \in (1 .. Len(s)) \ {p} /\ Down(p, Up(p, q)) = q
    BY <1>1 DEF Up, Down
  <2>2. t[q] = s[Up(p, q)]
    BY DEF Drops, Up
  <2> QED
    BY <2>1, <2>2
<1>3. ASSUME NEW q \in (1 .. Len(s)) \ {p}
      PROVE  /\ Down(p, q) \in 1 .. Len(t)
             /\ t[Down(p, q)] = s[q]
             /\ Up(p, Down(p, q)) = q
  <2>1. Down(p, q) \in 1 .. Len(t) /\ Up(p, Down(p, q)) = q
    BY <1>1 DEF Up, Down
  <2> QED
    BY <1>2, <2>1
<1>4. \A q, r \in 1 .. Len(t) : q < r => Up(p, q) < Up(p, r)
  BY <1>1 DEF Up
<1>5. \A q, r \in (1 .. Len(s)) \ {p} : q < r => Down(p, q) < Down(p, r)
  BY <1>1 DEF Down
<1> QED
  BY <1>2, <1>3, <1>4, <1>5

(* The hex digits of t are those of s but for the one at p.                *)
LEMMA DroppedPlaces ==
    ASSUME NEW s, NEW p, NEW t, Drops(s, p, t)
    PROVE  /\ \A q \in HexPlaces(t) : Up(p, q) \in HexPlaces(s) \ {p}
           /\ \A q \in HexPlaces(s) \ {p} : Down(p, q) \in HexPlaces(t)
  BY UpAndDown DEF HexPlaces

LEMMA DroppedCount ==
    ASSUME NEW s, NEW p, NEW t, Drops(s, p, t)
    PROVE  Cardinality(HexPlaces(t)) = Cardinality(HexPlaces(s))
                                          - (IF s[p] \in HexDigits THEN 1 ELSE 0)
<1> DEFINE down == [q \in HexPlaces(s) \ {p} |-> Down(p, q)]
<1>1. /\ IsFiniteSet(HexPlaces(s)) /\ Cardinality(HexPlaces(s)) \in Nat
      /\ p \in 1 .. Len(s) /\ HexPlaces(s) \subseteq 1 .. Len(s)
      /\ HexPlaces(t) \subseteq 1 .. Len(t)
  BY HexPlacesFinite DEF Drops
<1>2. down \in [HexPlaces(s) \ {p} -> HexPlaces(t)]
  BY DroppedPlaces
<1>3. \A a, b \in HexPlaces(s) \ {p} : down[a] = down[b] => a = b
  <2>1. SUFFICES ASSUME NEW a \in HexPlaces(s) \ {p}, NEW b \in HexPlaces(s) \ {p},
                        Down(p, a) = Down(p, b)
                 PROVE  a = b
    OBVIOUS
  <2>2. Up(p, Down(p, a)) = a /\ Up(p, Down(p, b)) = b
    BY <1>1, UpAndDown
  <2> QED
    BY <2>1, <2>2
<1>4. \A r \in HexPlaces(t) : \E a \in HexPlaces(s) \ {p} : down[a] = r
  <2>1. SUFFICES ASSUME NEW r \in HexPlaces(t)
                 PROVE  \E a \in HexPlaces(s) \ {p} : down[a] = r
    OBVIOUS
  <2>2. Up(p, r) \in HexPlaces(s) \ {p} /\ Down(p, Up(p, r)) = r
    BY <1>1, DroppedPlaces, UpAndDown
  <2> QED
    BY <2>2
<1> HIDE DEF down
<1>5. ExistsBijection(HexPlaces(s) \ {p}, HexPlaces(t))
  BY <1>2, <1>3, <1>4, OneToOne
<1>6. /\ IsFiniteSet(HexPlaces(s) \ {p})
      /\ Cardinality(HexPlaces(s) \ {p}) = Cardinality(HexPlaces(s))
                                            - (IF p \in HexPlaces(s) THEN 1 ELSE 0)
  <2>1. /\ IsFiniteSet(HexPlaces(s) \ {p})
        /\ Cardinality(HexPlaces(s) \ {p}) = IF p \in HexPlaces(s)
                                             THEN Cardinality(HexPlaces(s)) - 1
                                             ELSE Cardinality(HexPlaces(s))
    BY <1>1, FS_RemoveElement
  <2> QED
    BY <1>1, <2>1
<1>7. Cardinality(HexPlaces(t)) = Cardinality(HexPlaces(s) \ {p})
  BY <1>5, <1>6, FS_Bijection
<1>8. p \in HexPlaces(s) <=> s[p] \in HexDigits
  BY <1>1 DEF HexPlaces
<1> QED
  BY <1>6, <1>7, <1>8

(* A character that is no digit may come or go (Separate, Join).           *)
LEMMA DroppedShows ==
    ASSUME NEW s, NEW p, NEW t, Drops(s, p, t), s[p] \notin HexDigits, NEW k
    PROVE  Shows(s, k) <=> Shows(t, k)
<1> DEFINE n == 2 * KeyBytes
<1>1. /\ HexPlaces(s) \subseteq (1 .. Len(s)) \ {p}
      /\ HexPlaces(t) \subseteq 1 .. Len(t)
  BY DEF HexPlaces
<1>2. /\ \A q \in HexPlaces(t) : Up(p, q) \in HexPlaces(s)
      /\ \A q \in HexPlaces(s) : Down(p, q) \in HexPlaces(t)
  BY <1>1, DroppedPlaces
<1>3. ASSUME Shows(s, k)
      PROVE  Shows(t, k)
  <2>1. PICK at \in [1 .. n -> HexPlaces(s)] : Shown(s, k, at)
    BY <1>3 DEF Shows
  <2> DEFINE att == [i \in 1 .. n |-> Down(p, at[i])]
  <2>2. att \in [1 .. n -> HexPlaces(t)]
    BY <1>2
  <2>3. ASSUME NEW i \in 1 .. n, NEW j \in 1 .. n, i < j
        PROVE  att[i] < att[j]
    <3>1. at[i] < at[j] /\ at[i] \in (1 .. Len(s)) \ {p} /\ at[j] \in (1 .. Len(s)) \ {p}
      BY <1>1, <2>1, <2>3 DEF Shown
    <3> QED
      BY <3>1, UpAndDown
  <2>4. ASSUME NEW q \in HexPlaces(t)
        PROVE  \E i \in 1 .. n : q = att[i]
    <3>1. Up(p, q) \in HexPlaces(s) /\ Down(p, Up(p, q)) = q
      BY <1>1, <1>2, UpAndDown
    <3>2. PICK i \in 1 .. n : Up(p, q) = at[i]
      BY <2>1, <3>1 DEF Shown
    <3> QED
      BY <3>1, <3>2
  <2>5. ASSUME NEW i \in 1 .. n
        PROVE  Digit(t[att[i]]) = Nibble(k, i)
    <3>1. t[Down(p, at[i])] = s[at[i]]
      BY <1>1, UpAndDown
    <3> QED
      BY <2>1, <3>1 DEF Shown
  <2> HIDE DEF att
  <2>6. Shown(t, k, att)
    BY <2>2, <2>3, <2>4, <2>5 DEF Shown
  <2> QED
    BY <2>2, <2>6 DEF Shows
<1>4. ASSUME Shows(t, k)
      PROVE  Shows(s, k)
  <2>1. PICK at \in [1 .. n -> HexPlaces(t)] : Shown(t, k, at)
    BY <1>4 DEF Shows
  <2> DEFINE ats == [i \in 1 .. n |-> Up(p, at[i])]
  <2>2. ats \in [1 .. n -> HexPlaces(s)]
    BY <1>2
  <2>3. ASSUME NEW i \in 1 .. n, NEW j \in 1 .. n, i < j
        PROVE  ats[i] < ats[j]
    <3>1. at[i] < at[j] /\ at[i] \in 1 .. Len(t) /\ at[j] \in 1 .. Len(t)
      BY <1>1, <2>1, <2>3 DEF Shown
    <3> QED
      BY <3>1, UpAndDown
  <2>4. ASSUME NEW q \in HexPlaces(s)
        PROVE  \E i \in 1 .. n : q = ats[i]
    <3>1. Down(p, q) \in HexPlaces(t) /\ Up(p, Down(p, q)) = q
      BY <1>1, <1>2, UpAndDown
    <3>2. PICK i \in 1 .. n : Down(p, q) = at[i]
      BY <2>1, <3>1 DEF Shown
    <3> QED
      BY <3>1, <3>2
  <2>5. ASSUME NEW i \in 1 .. n
        PROVE  Digit(s[ats[i]]) = Nibble(k, i)
    <3>1. t[at[i]] = s[Up(p, at[i])]
      BY <1>1, UpAndDown
    <3> QED
      BY <2>1, <3>1 DEF Shown
  <2> HIDE DEF ats
  <2>6. Shown(s, k, ats)
    BY <2>2, <2>3, <2>4, <2>5 DEF Shown
  <2> QED
    BY <2>2, <2>6 DEF Shows
<1> QED
  BY <1>3, <1>4

-----------------------------------------------------------------------------
(* One character for another                                               *)

LEMMA Replaced ==
    ASSUME NEW s \in Seq(Chars), NEW p \in 1 .. Len(s), NEW c \in Chars
    PROVE  /\ ReplaceAt(s, p, c) \in Seq(Chars)
           /\ Len(ReplaceAt(s, p, c)) = Len(s)
           /\ \A q \in 1 .. Len(s) : ReplaceAt(s, p, c)[q] = IF q = p THEN c ELSE s[q]
  BY ExceptSeq DEF ReplaceAt

(* Digit for digit of the same value, or none for none (Recase).           *)
LEMMA ReplacedAlike ==
    ASSUME NEW s \in Seq(Chars), NEW p \in 1 .. Len(s), NEW c \in Chars, NEW k,
           s[p] \in HexDigits <=> c \in HexDigits,
           c \in HexDigits => Digit(c) = Digit(s[p])
    PROVE  /\ HexPlaces(ReplaceAt(s, p, c)) = HexPlaces(s)
           /\ Shows(s, k) => Shows(ReplaceAt(s, p, c), k)
<1> DEFINE t == ReplaceAt(s, p, c)
<1>1. Len(t) = Len(s) /\ \A q \in 1 .. Len(s) : t[q] = IF q = p THEN c ELSE s[q]
  BY Replaced
<1> HIDE DEF t
<1>2. HexPlaces(t) = HexPlaces(s)
  BY <1>1 DEF HexPlaces
<1>3. \A q \in HexPlaces(s) : Digit(t[q]) = Digit(s[q])
  BY <1>1 DEF HexPlaces
<1>4. ASSUME Shows(s, k)
      PROVE  Shows(t, k)
  <2>1. PICK at \in [1 .. 2 * KeyBytes -> HexPlaces(s)] : Shown(s, k, at)
    BY <1>4 DEF Shows
  <2>2. \A i \in 1 .. 2 * KeyBytes : Digit(t[at[i]]) = Nibble(k, i)
    BY <1>3, <2>1 DEF Shown
  <2>3. Shown(t, k, at)
    BY <1>2, <2>1, <2>2 DEF Shown
  <2> QED
    BY <1>2, <2>3 DEF Shows
<1> QED
  BY <1>2, <1>4 DEF t

(* A digit lost, or one gained (Mistype).                                  *)
LEMMA ReplacedCount ==
    ASSUME NEW s \in Seq(Chars), NEW p \in 1 .. Len(s), NEW c \in Chars,
           ~(s[p] \in HexDigits <=> c \in HexDigits)
    PROVE  Cardinality(HexPlaces(ReplaceAt(s, p, c)))
              = Cardinality(HexPlaces(s)) + (IF c \in HexDigits THEN 1 ELSE 0 - 1)
<1> DEFINE t == ReplaceAt(s, p, c)
<1>1. Len(t) = Len(s) /\ \A q \in 1 .. Len(s) : t[q] = IF q = p THEN c ELSE s[q]
  BY Replaced
<1>2. IsFiniteSet(HexPlaces(s)) /\ Cardinality(HexPlaces(s)) \in Nat
  BY HexPlacesFinite
<1> HIDE DEF t
<1>3. CASE c \in HexDigits
  <2>1. p \notin HexPlaces(s) /\ HexPlaces(t) = HexPlaces(s) \cup {p}
    BY <1>1, <1>3 DEF HexPlaces
  <2>2. Cardinality(HexPlaces(t)) = Cardinality(HexPlaces(s)) + 1
    BY <1>2, <2>1, FS_AddElement
  <2> QED
    BY <1>3, <2>2 DEF t
<1>4. CASE c \notin HexDigits
  <2>1. p \in HexPlaces(s) /\ HexPlaces(t) = HexPlaces(s) \ {p}
    BY <1>1, <1>4 DEF HexPlaces
  <2>2. Cardinality(HexPlaces(t)) = Cardinality(HexPlaces(s)) - 1
    BY <1>2, <2>1, FS_RemoveElement
  <2>3. Cardinality(HexPlaces(s)) - 1 = Cardinality(HexPlaces(s)) + (0 - 1)
    BY <1>2
  <2> QED
    BY <1>4, <2>2, <2>3 DEF t
<1> QED
  BY <1>3, <1>4

(* Key k with its i-th hex digit changed to v.                             *)
SetNibble(k, i, v) ==
    [k EXCEPT ![(i + 1) \div 2] = IF i % 2 = 1 THEN 16 * v + (@ % 16) ELSE 16 * (@ \div 16) + v]

LEMMA BytePair ==
    ASSUME NEW hi \in 0 .. 15, NEW lo \in 0 .. 15
    PROVE  /\ 16 * hi + lo \in 0 .. 255
           /\ (16 * hi + lo) \div 16 = hi /\ (16 * hi + lo) % 16 = lo
  OBVIOUS

LEMMA NibbleSet ==
    ASSUME NEW k \in ByteKeys, NEW i \in 1 .. 2 * KeyBytes, NEW v \in 0 .. 15
    PROVE  /\ SetNibble(k, i, v) \in ByteKeys
           /\ \A j \in 1 .. 2 * KeyBytes :
                 Nibble(SetNibble(k, i, v), j) = IF j = i THEN v ELSE Nibble(k, j)
<1> DEFINE m == (i + 1) \div 2
           old == k[m]
           b == IF i % 2 = 1 THEN 16 * v + (old % 16) ELSE 16 * (old \div 16) + v
           new == SetNibble(k, i, v)
<1>1. m \in 1 .. KeyBytes
  BY GroupAssumption
<1>2. old \in 0 .. 255
  BY <1>1 DEF ByteKeys
<1>3. /\ old \div 16 \in 0 .. 15 /\ old % 16 \in 0 .. 15
      /\ old = 16 * (old \div 16) + (old % 16)
  BY <1>2
<1> HIDE DEF old
<1>4. /\ b \in 0 .. 255
      /\ IF i % 2 = 1 THEN b \div 16 = v /\ b % 16 = old % 16
                      ELSE b \div 16 = old \div 16 /\ b % 16 = v
  <2>1. CASE i % 2 = 1
    BY <1>3, <2>1, BytePair
  <2>2. CASE i % 2 # 1
    BY <1>3, <2>2, BytePair
  <2> QED
    BY <2>1, <2>2
<1>5. new = [k EXCEPT ![m] = b]
  BY Zenon DEF SetNibble, old
<1> HIDE DEF b, new
<1>6. new \in ByteKeys /\ \A l \in 1 .. KeyBytes : new[l] = IF l = m THEN b ELSE k[l]
  BY <1>1, <1>4, <1>5 DEF ByteKeys
<1>7. ASSUME NEW j \in 1 .. 2 * KeyBytes
      PROVE  Nibble(new, j) = IF j = i THEN v ELSE Nibble(k, j)
  <2> DEFINE l == (j + 1) \div 2
  <2>1. l \in 1 .. KeyBytes
    BY GroupAssumption
  <2>2. i \in Int /\ j \in Int /\ i % 2 \in 0 .. 1 /\ j % 2 \in 0 .. 1
    BY KeyBytesPositive
  <2>3. CASE l # m
    <3>1. new[l] = k[l] /\ j # i
      BY <1>6, <2>1, <2>3
    <3> QED
      BY <3>1 DEF Nibble
  <2>4. CASE l = m
    <3>1. new[l] = b /\ k[l] = old
      BY <1>6, <2>1, <2>4 DEF old
    <3>2. j = i <=> j % 2 = i % 2
      BY <2>2, <2>4
    <3>3. /\ Nibble(new, j) = IF j % 2 = 1 THEN b \div 16 ELSE b % 16
          /\ Nibble(k, j) = IF j % 2 = 1 THEN old \div 16 ELSE old % 16
      BY <3>1 DEF Nibble
    <3> QED
      BY <1>4, <2>2, <3>2, <3>3
  <2> QED
    BY <2>3, <2>4
<1> QED
  BY <1>6, <1>7 DEF new

(* A digit replaced by another shows the key with that digit changed.      *)
LEMMA ReplacedDigit ==
    ASSUME NEW s \in Seq(Chars), NEW k \in ByteKeys, NEW at, Shown(s, k, at),
           NEW i \in 1 .. 2 * KeyBytes, NEW c \in HexDigits
    PROVE  /\ at[i] \in 1 .. Len(s)
           /\ ReplaceAt(s, at[i], c) \in Seq(Chars)
           /\ Shown(ReplaceAt(s, at[i], c), SetNibble(k, i, Digit(c)), at)
<1> DEFINE p == at[i]
           t == ReplaceAt(s, p, c)
           l == SetNibble(k, i, Digit(c))
<1>1. p \in 1 .. Len(s) /\ s[p] \in HexDigits
  BY DEF Shown, HexPlaces
<1>2. /\ t \in Seq(Chars) /\ Len(t) = Len(s)
      /\ \A q \in 1 .. Len(s) : t[q] = IF q = p THEN c ELSE s[q]
  BY <1>1, Replaced DEF Chars
<1>3. \A j \in 1 .. 2 * KeyBytes : Nibble(l, j) = IF j = i THEN Digit(c) ELSE Nibble(k, j)
  BY DigitRange, NibbleSet
<1> HIDE DEF t, l
<1>4. HexPlaces(t) = HexPlaces(s)
  BY <1>1, <1>2 DEF HexPlaces
<1>5. ASSUME NEW j \in 1 .. 2 * KeyBytes
      PROVE  Digit(t[at[j]]) = Nibble(l, j)
  <2>1. at[j] \in 1 .. Len(s)
    BY DEF Shown, HexPlaces
  <2>2. at[j] = p => j = i
    <3>1. \A a, b \in 1 .. 2 * KeyBytes : a < b => at[a] < at[b]
      BY DEF Shown
    <3>2. i \in Int /\ j \in Int /\ p \in Int /\ (i < j \/ j < i \/ i = j)
      BY <1>1, KeyBytesPositive
    <3> QED
      BY <3>1, <3>2
  <2>3. CASE j = i
    BY <1>2, <1>3, <2>1, <2>3
  <2>4. CASE j # i
    <3>1. t[at[j]] = s[at[j]] /\ Nibble(l, j) = Nibble(k, j)
      BY <1>2, <1>3, <2>1, <2>2, <2>4
    <3> QED
      BY <3>1 DEF Shown
  <2> QED
    BY <2>3, <2>4
<1>6. Shown(t, l, at)
  BY <1>4, <1>5 DEF Shown
<1> QED
  BY <1>1, <1>2, <1>6 DEF t, l

-----------------------------------------------------------------------------
(* The text as it was shown                                                *)

LEMMA TimesMonotone ==
    ASSUME NEW g \in Nat, NEW a \in Nat, NEW b \in Nat, a <= b
    PROVE  g * a <= g * b
  OBVIOUS

LEMMA DivMonotone ==
    ASSUME NEW g \in Nat \ {0}, NEW m \in Nat, NEW n \in Nat, m <= n
    PROVE  m \div g <= n \div g
<1> DEFINE a == m \div g
           b == n \div g
<1>1. /\ a \in Nat /\ m % g \in 0 .. g - 1 /\ m = g * a + (m % g)
      /\ b \in Nat /\ n % g \in 0 .. g - 1 /\ n = g * b + (n % g)
  BY DivMod
<1> HIDE DEF a, b
<1>2. SUFFICES ASSUME b + 1 <= a
               PROVE  FALSE
  BY <1>1 DEF a, b
<1>3. g * (b + 1) <= g * a /\ g * (b + 1) = g * b + g /\ g * a \in Nat /\ g * b \in Nat
  BY <1>1, <1>2, TimesMonotone
<1> QED
  BY <1>1, <1>3

(* Groups of Group digits with a dash between two of them.                 *)
Digits == 2 * KeyBytes
Groups == Digits \div Group
Length == Digits + Groups - 1

(* Where format_recovery_key puts digit i.                                 *)
Place(i) == i + ((i - 1) \div Group)

LEMMA GroupsFit ==
    /\ Digits \in Nat \ {0} /\ Groups \in Nat \ {0} /\ Length \in Nat
    /\ Digits = Group * Groups /\ Length = (Group + 1) * Groups - 1
<1>1. Digits \in Nat \ {0} /\ Group \in Nat \ {0} /\ Digits % Group = 0
  BY GroupAssumption DEF Digits
<1>2. Groups \in Nat /\ Digits = Group * Groups
  BY <1>1, DivMod DEF Groups
<1>3. Groups # 0
  BY <1>1, <1>2
<1>4. (Group + 1) * Groups = Group * Groups + Groups
  BY <1>1, <1>2
<1> QED
  BY <1>1, <1>2, <1>3, <1>4 DEF Length

LEMMA PlaceOfDigit ==
    ASSUME NEW i \in 1 .. Digits
    PROVE  /\ Place(i) \in 1 .. Length
           /\ Place(i) % (Group + 1) # 0
           /\ Place(i) - (Place(i) \div (Group + 1)) = i
<1> DEFINE a == (i - 1) \div Group
           r == (i - 1) % Group
<1>1. Group \in Nat \ {0} /\ i - 1 \in Nat /\ i \in Nat
  BY GroupAssumption, GroupsFit
<1>2. a \in Nat /\ r \in 0 .. Group - 1 /\ i - 1 = Group * a + r
  BY <1>1, DivMod
<1>3. Place(i) = i + a
  BY DEF Place
<1> HIDE DEF a, r
<1>4. Place(i) = (Group + 1) * a + (r + 1)
  <2>1. (Group + 1) * a = Group * a + a /\ Group * a \in Nat
    BY <1>1, <1>2
  <2> QED
    BY <1>1, <1>2, <1>3, <2>1
<1>5. Place(i) \div (Group + 1) = a /\ Place(i) % (Group + 1) = r + 1
  <2> DEFINE g == Group + 1
             q == r + 1
             n == Place(i)
  <2>1. g \in Nat \ {0} /\ a \in Nat /\ q \in 0 .. g - 1 /\ n \in Nat /\ n = g * a + q
    BY <1>1, <1>2, <1>3, <1>4
  <2> HIDE DEF g, q, n
  <2>2. n \div g = a /\ n % g = q
    BY <2>1, DivUnique
  <2> QED
    BY <2>2 DEF g, q, n
<1>6. a <= Groups - 1
  <2>1. SUFFICES ASSUME Groups <= a
                 PROVE  FALSE
    BY <1>2, GroupsFit
  <2>2. Group * Groups <= Group * a
    BY <1>1, <1>2, <2>1, GroupsFit, TimesMonotone
  <2>3. Group * a \in Nat /\ Digits <= Group * a
    BY <1>1, <1>2, <2>2, GroupsFit
  <2> QED
    BY <1>1, <1>2, <2>3, GroupsFit
<1>7. Place(i) \in 1 .. Length
  BY <1>1, <1>2, <1>3, <1>6, GroupsFit DEF Length
<1> QED
  BY <1>1, <1>2, <1>3, <1>5, <1>7

LEMMA DigitAtPlace ==
    ASSUME NEW p \in 1 .. Length, p % (Group + 1) # 0
    PROVE  /\ p - (p \div (Group + 1)) \in 1 .. Digits
           /\ Place(p - (p \div (Group + 1))) = p
<1> DEFINE a == p \div (Group + 1)
           r == p % (Group + 1)
           i == p - a
<1>1. Group \in Nat \ {0} /\ Group + 1 \in Nat \ {0} /\ p \in Nat
  BY GroupAssumption, GroupsFit
<1>2. a \in Nat /\ r \in 1 .. Group /\ p = (Group + 1) * a + r
  <2> DEFINE g == Group + 1
  <2>1. g \in Nat \ {0}
    BY <1>1
  <2> HIDE DEF g
  <2>2. p \div g \in Nat /\ p % g \in 0 .. g - 1 /\ p = g * (p \div g) + (p % g)
    BY <1>1, <2>1, DivMod
  <2> QED
    BY <1>1, <2>2 DEF g
<1> HIDE DEF a, r
<1>3. i = Group * a + r /\ Group * a \in Nat
  <2>1. (Group + 1) * a = Group * a + a /\ Group * a \in Nat
    BY <1>1, <1>2
  <2> QED
    BY <1>1, <1>2, <2>1
<1>4. a <= Groups - 1
  <2>1. SUFFICES ASSUME Groups <= a
                 PROVE  FALSE
    BY <1>2, GroupsFit
  <2>2. (Group + 1) * Groups <= (Group + 1) * a
    BY <1>1, <1>2, <2>1, GroupsFit, TimesMonotone
  <2>3. (Group + 1) * a \in Nat /\ Length + 1 <= (Group + 1) * a
    BY <1>1, <1>2, <2>2, GroupsFit
  <2> QED
    BY <1>1, <1>2, <2>3, GroupsFit
<1>5. i \in 1 .. Digits
  <2>1. Group * a <= Group * (Groups - 1) /\ Group * (Groups - 1) = Digits - Group
    BY <1>1, <1>2, <1>4, GroupsFit, TimesMonotone
  <2> QED
    BY <1>1, <1>2, <1>3, <2>1, GroupsFit
<1>6. (i - 1) \div Group = a
  <2> DEFINE n == i - 1
             q == r - 1
  <2>1. n \in Nat /\ q \in 0 .. Group - 1 /\ n = Group * a + q
    BY <1>1, <1>2, <1>3
  <2> HIDE DEF n, q
  <2>2. n \div Group = a
    BY <1>1, <1>2, <2>1, DivUnique
  <2> QED
    BY <2>2 DEF n
<1>7. Place(i) = p
  BY <1>1, <1>2, <1>6 DEF Place
<1> QED
  BY <1>5, <1>7 DEF a

LEMMA NibbleRange ==
    ASSUME NEW k \in Keys, NEW i \in 1 .. Digits
    PROVE  Nibble(k, i) \in 0 .. 15
<1>1. (i + 1) \div 2 \in 1 .. KeyBytes
  BY GroupAssumption DEF Digits
<1>2. k[(i + 1) \div 2] \in 0 .. 255
  BY <1>1, KeysAssumption
<1>3. \A b \in 0 .. 255 : b \div 16 \in 0 .. 15 /\ b % 16 \in 0 .. 15
  OBVIOUS
<1> QED
  BY <1>2, <1>3 DEF Nibble

(* Where the shown text has dashes and where it has which digit.           *)
LEMMA FormatAt ==
    ASSUME NEW k \in Keys
    PROVE  LET t == format_recovery_key(k)
           IN  /\ t \in Seq(Chars) /\ Len(t) = Length
               /\ \A p \in 1 .. Length :
                      t[p] = IF p % (Group + 1) = 0 THEN "-"
                             ELSE UpperHex[Nibble(k, p - (p \div (Group + 1))) + 1]
<1> DEFINE t == format_recovery_key(k)
           char(p) == IF p % (Group + 1) = 0 THEN "-"
                      ELSE UpperHex[Nibble(k, p - (p \div (Group + 1))) + 1]
<1>1. t = [p \in 1 .. Length |-> char(p)]
  <2>1. ASSUME NEW p \in 1 .. Length, p % (Group + 1) # 0
        PROVE  p - (p \div (Group + 1)) \in 1 .. Digits
    BY <2>1, DigitAtPlace
  <2> DEFINE hex == [i \in 1 .. Digits |-> UpperHex[Nibble(k, i) + 1]]
  <2>2. t = [p \in 1 .. Length |->
                IF p % (Group + 1) = 0 THEN "-" ELSE hex[p - (p \div (Group + 1))]]
    BY Zenon DEF format_recovery_key, Length, Groups, Digits, Nibble
  <2> QED
    BY <2>1, <2>2
<1>2. ASSUME NEW p \in 1 .. Length
      PROVE  char(p) \in Chars
  <2>1. CASE p % (Group + 1) = 0
    BY <2>1 DEF Chars
  <2>2. CASE p % (Group + 1) # 0
    <3> DEFINE i == p - (p \div (Group + 1))
    <3>1. i \in 1 .. Digits
      BY <2>2, DigitAtPlace
    <3>2. Nibble(k, i) + 1 \in 1 .. 16
      BY <3>1, NibbleRange
    <3>3. UpperHex[Nibble(k, i) + 1] \in HexDigits
      BY <3>2, HexDigitForms
    <3> QED
      BY <2>2, <3>3 DEF Chars
  <2> QED
    BY <2>1, <2>2
<1> HIDE DEF char
<1>3. t \in Seq(Chars) /\ Len(t) = Length
  BY <1>1, <1>2, GroupsFit
<1> QED
  BY <1>1, <1>3 DEF char

(* What format_recovery_key writes shows the key.                          *)
LEMMA FormatShows ==
    ASSUME NEW k \in Keys
    PROVE  Shows(format_recovery_key(k), k)
<1> DEFINE t == format_recovery_key(k)
           at == [i \in 1 .. Digits |-> Place(i)]
<1>1. /\ Len(t) = Length
      /\ \A p \in 1 .. Length :
             t[p] = IF p % (Group + 1) = 0 THEN "-"
                    ELSE UpperHex[Nibble(k, p - (p \div (Group + 1))) + 1]
  BY FormatAt
<1> HIDE DEF t
<1>2. ASSUME NEW i \in 1 .. Digits
      PROVE  Place(i) \in HexPlaces(t) /\ Digit(t[Place(i)]) = Nibble(k, i)
  <2>1. Place(i) \in 1 .. Length /\ t[Place(i)] = UpperHex[Nibble(k, i) + 1]
    BY <1>1, PlaceOfDigit
  <2>2. Nibble(k, i) + 1 \in 1 .. 16 /\ Nibble(k, i) \in Int
    BY NibbleRange
  <2>3. t[Place(i)] \in HexDigits
    BY <2>1, <2>2, HexDigitForms
  <2>4. Digit(UpperHex[Nibble(k, i) + 1]) = Nibble(k, i) + 1 - 1
    BY <2>2, DigitOfForm
  <2> QED
    BY <1>1, <2>1, <2>2, <2>3, <2>4 DEF HexPlaces
<1>3. ASSUME NEW i \in 1 .. Digits, NEW j \in 1 .. Digits, i < j
      PROVE  Place(i) < Place(j)
  <2>1. Group \in Nat \ {0} /\ i - 1 \in Nat /\ j - 1 \in Nat /\ i - 1 <= j - 1
    BY <1>3, GroupAssumption, GroupsFit
  <2>2. (i - 1) \div Group <= (j - 1) \div Group
    BY <2>1, DivMonotone
  <2>3. (i - 1) \div Group \in Nat /\ (j - 1) \div Group \in Nat
    BY <2>1
  <2> QED
    BY <1>3, <2>2, <2>3, GroupsFit DEF Place
<1>4. ASSUME NEW p \in HexPlaces(t)
      PROVE  \E i \in 1 .. Digits : p = Place(i)
  <2>1. p \in 1 .. Length /\ p % (Group + 1) # 0
    BY <1>1, NoDigits DEF HexPlaces
  <2> QED
    BY <2>1, DigitAtPlace
<1>5. at \in [1 .. Digits -> HexPlaces(t)]
  BY <1>2
<1>6. /\ \A i, j \in 1 .. Digits : i < j => at[i] < at[j]
      /\ \A p \in HexPlaces(t) : \E i \in 1 .. Digits : p = at[i]
      /\ \A i \in 1 .. Digits : Digit(t[at[i]]) = Nibble(k, i)
  BY <1>2, <1>3, <1>4
<1> HIDE DEF at
<1>7. Shown(t, k, at)
  BY <1>5, <1>6 DEF Shown, Digits
<1> QED
  BY <1>5, <1>7 DEF Shows, Digits, t

-----------------------------------------------------------------------------
(* The copies                                                              *)

(* As long as nothing slipped the text shows the key.  With a character    *)
(* slipped in it still does, or has a digit too many or too few; with a    *)
(* wrong digit it shows another key.  Harmless edits change none of this.  *)
IInv ==
    /\ key \in ByteKeys
    /\ text \in Seq(Chars)
    /\ slip \in {"none", "character", "digit"}
    /\ slip = "none" => Shows(text, key)
    /\ slip = "character" => \/ Shows(text, key)
                             \/ Cardinality(HexPlaces(text)) # 2 * KeyBytes
    /\ slip = "digit" => \E k \in ByteKeys \ {key} : Shows(text, k)

LEMMA InitHolds == Init => IInv
  BY FormatAt, FormatShows, KeysAssumption DEF Init, IInv, ByteKeys

LEMMA ShowsCount ==
    ASSUME NEW s \in Seq(Chars), NEW k, Shows(s, k)
    PROVE  Cardinality(HexPlaces(s)) = 2 * KeyBytes
  BY ShownCount DEF Shows

(* A new text that shows what the old one shows and has as many digits.    *)
Same(new) ==
    /\ new \in Seq(Chars)
    /\ \A k : Shows(text, k) => Shows(new, k)
    /\ Cardinality(HexPlaces(new)) = Cardinality(HexPlaces(text))

(* A new text with one digit more or less.                                 *)
Off(new) ==
    /\ new \in Seq(Chars)
    /\ \/ Cardinality(HexPlaces(new)) = Cardinality(HexPlaces(text)) + 1
       \/ Cardinality(HexPlaces(new)) = Cardinality(HexPlaces(text)) - 1

LEMMA EditHolds ==
    ASSUME IInv, NEW new, Edit(new), Same(new)
    PROVE  IInv'
<1>1. UNCHANGED <<key, slip>> /\ text' = new
  BY DEF Edit
<1>2. /\ new \in Seq(Chars)
      /\ slip = "none" => Shows(new, key)
      /\ slip = "character" => Shows(new, key) \/ Cardinality(HexPlaces(new)) # 2 * KeyBytes
      /\ slip = "digit" => \E k \in ByteKeys \ {key} : Shows(new, k)
  BY DEF IInv, Same
<1> QED
  BY <1>1, <1>2 DEF IInv

LEMMA SlipHolds ==
    ASSUME IInv, NEW new, Slip("character", new), Same(new) \/ Off(new)
    PROVE  IInv'
<1>1. UNCHANGED key /\ text' = new /\ slip = "none" /\ slip' = "character"
  BY DEF Slip
<1>2. Shows(text, key) /\ Cardinality(HexPlaces(text)) = 2 * KeyBytes
  BY <1>1, ShowsCount DEF IInv
<1>3. CASE Same(new)
  BY <1>1, <1>2, <1>3 DEF IInv, Same
<1>4. CASE Off(new)
  <2>1. Cardinality(HexPlaces(new)) # 2 * KeyBytes
    BY <1>2, <1>4, KeyBytesPositive DEF Off
  <2> QED
    BY <1>1, <1>4, <2>1 DEF IInv, Off
<1> QED
  BY <1>3, <1>4

LEMMA DigitSlipHolds ==
    ASSUME IInv, NEW new, Slip("digit", new), new \in Seq(Chars),
           NEW k \in ByteKeys \ {key}, Shows(new, k)
    PROVE  IInv'
<1>1. UNCHANGED key /\ text' = new /\ slip' = "digit"
  BY DEF Slip
<1> QED
  BY <1>1 DEF IInv

LEMMA CharsHere ==
    ASSUME IInv
    PROVE  /\ \A p \in 1 .. Len(text) : text[p] \in Chars
           /\ Len(text) \in Nat
  BY ElementOfSeq, LenProperties DEF IInv

LEMMA RecaseHolds ==
    ASSUME IInv, NEW p \in 1 .. Len(text), Recase(p)
    PROVE  IInv'
<1>1. PICK c \in Forms(text[p]) : Edit(ReplaceAt(text, p, c))
  BY DEF Recase
<1>2. text[p] \in HexDigits
  BY DEF Recase, is_ascii_hexdigit
<1>3. c \in HexDigits /\ c \in Chars /\ Digit(c) = Digit(text[p])
  BY <1>2, FormsKeepDigit DEF Chars
<1>4. /\ HexPlaces(ReplaceAt(text, p, c)) = HexPlaces(text)
      /\ \A k : Shows(text, k) => Shows(ReplaceAt(text, p, c), k)
      /\ ReplaceAt(text, p, c) \in Seq(Chars)
  BY <1>2, <1>3, ReplacedAlike, Replaced DEF IInv
<1> QED
  BY <1>1, <1>4, EditHolds DEF Same

(* What one character more or less does to the text.                       *)
LEMMA RemovedSameOrOff ==
    ASSUME IInv, NEW p \in 1 .. Len(text)
    PROVE  IF text[p] \in HexDigits THEN Off(RemoveAt(text, p)) ELSE Same(RemoveAt(text, p))
<1> DEFINE t == RemoveAt(text, p)
<1>1. Drops(text, p, t) /\ t \in Seq(Chars)
  BY Removed DEF IInv, Drops
<1>2. Cardinality(HexPlaces(text)) \in Nat
  BY HexPlacesFinite DEF IInv
<1> HIDE DEF t
<1>3. Cardinality(HexPlaces(t)) = Cardinality(HexPlaces(text))
                                     - (IF text[p] \in HexDigits THEN 1 ELSE 0)
  BY <1>1, DroppedCount
<1>4. text[p] \notin HexDigits => (\A k : Shows(text, k) <=> Shows(t, k))
  BY <1>1, DroppedShows
<1> QED
  BY <1>1, <1>2, <1>3, <1>4 DEF Same, Off, t

LEMMA InsertedSameOrOff ==
    ASSUME IInv, NEW p \in 1 .. Len(text) + 1, NEW c \in Chars
    PROVE  IF c \in HexDigits THEN Off(InsertAt(text, p, c)) ELSE Same(InsertAt(text, p, c))
<1> DEFINE t == InsertAt(text, p, c)
<1>1. Drops(t, p, text) /\ t[p] = c /\ t \in Seq(Chars)
  BY Inserted DEF IInv, Drops
<1>2. Cardinality(HexPlaces(text)) \in Nat /\ Cardinality(HexPlaces(t)) \in Nat
  BY <1>1, HexPlacesFinite DEF IInv
<1> HIDE DEF t
<1>3. Cardinality(HexPlaces(text)) = Cardinality(HexPlaces(t))
                                        - (IF c \in HexDigits THEN 1 ELSE 0)
  BY <1>1, DroppedCount
<1>4. c \notin HexDigits => (\A k : Shows(t, k) <=> Shows(text, k))
  BY <1>1, DroppedShows
<1> QED
  BY <1>1, <1>2, <1>3, <1>4 DEF Same, Off, t

LEMMA ReplacedSameOrOff ==
    ASSUME IInv, NEW p \in 1 .. Len(text), NEW c \in Chars,
           c \in HexDigits => text[p] \notin HexDigits
    PROVE  Same(ReplaceAt(text, p, c)) \/ Off(ReplaceAt(text, p, c))
<1> DEFINE t == ReplaceAt(text, p, c)
<1>1. t \in Seq(Chars) /\ Cardinality(HexPlaces(text)) \in Nat
  BY Replaced, HexPlacesFinite DEF IInv
<1>2. CASE c \notin HexDigits /\ text[p] \notin HexDigits
  <2>1. HexPlaces(t) = HexPlaces(text) /\ (\A k : Shows(text, k) => Shows(t, k))
    BY <1>2, ReplacedAlike DEF IInv
  <2> QED
    BY <1>1, <2>1 DEF Same
<1>3. CASE ~(text[p] \in HexDigits <=> c \in HexDigits)
  <2>1. Cardinality(HexPlaces(t))
           = Cardinality(HexPlaces(text)) + (IF c \in HexDigits THEN 1 ELSE 0 - 1)
    BY <1>3, ReplacedCount DEF IInv
  <2> HIDE DEF t
  <2>2. \/ Cardinality(HexPlaces(t)) = Cardinality(HexPlaces(text)) + 1
        \/ Cardinality(HexPlaces(t)) = Cardinality(HexPlaces(text)) - 1
    BY <1>1, <2>1
  <2>3. Off(t)
    BY <1>1, <2>2 DEF Off
  <2> QED
    BY <2>3 DEF t
<1> QED
  BY <1>2, <1>3

LEMMA SeparateHolds ==
    ASSUME IInv, NEW p \in 1 .. Len(text) + 1, Separate(p)
    PROVE  IInv'
<1>1. PICK c \in Separators : Edit(InsertAt(text, p, c))
  BY DEF Separate
<1>2. c \notin HexDigits /\ c \in Chars
  BY NoDigits DEF Chars
<1> QED
  BY <1>1, <1>2, InsertedSameOrOff, EditHolds

LEMMA JoinHolds ==
    ASSUME IInv, NEW p \in 1 .. Len(text), Join(p)
    PROVE  IInv'
<1>1. text[p] \notin HexDigits /\ Edit(RemoveAt(text, p))
  BY NoDigits DEF Join
<1> QED
  BY <1>1, RemovedSameOrOff, EditHolds

LEMMA OmitHolds ==
    ASSUME IInv, NEW p \in 1 .. Len(text), Omit(p)
    PROVE  IInv'
  BY RemovedSameOrOff, SlipHolds DEF Omit

LEMMA RepeatHolds ==
    ASSUME IInv, NEW p \in 1 .. Len(text), Repeat(p)
    PROVE  IInv'
<1>1. text[p] \in Chars /\ p \in 1 .. Len(text) + 1
  BY CharsHere
<1> QED
  BY <1>1, InsertedSameOrOff, SlipHolds DEF Repeat

LEMMA MistypeHolds ==
    ASSUME IInv, NEW p \in 1 .. Len(text), Mistype(p)
    PROVE  IInv'
<1>1. CASE \E c \in OddCharacters : Slip("character", ReplaceAt(text, p, c))
  <2>1. PICK c \in OddCharacters : Slip("character", ReplaceAt(text, p, c))
    BY <1>1
  <2>2. c \notin HexDigits /\ c \in Chars
    BY NoDigits DEF Chars
  <2> QED
    BY <2>1, <2>2, ReplacedSameOrOff, SlipHolds
<1>2. CASE /\ text[p] \in Separators
           /\ \E c \in Range(LowerHex) : Slip("character", ReplaceAt(text, p, c))
  <2>1. PICK c \in Range(LowerHex) : Slip("character", ReplaceAt(text, p, c))
    BY <1>2
  <2>2. text[p] \notin HexDigits /\ c \in Chars
    BY <1>2, NoDigits DEF Chars, HexDigits
  <2> QED
    BY <2>1, <2>2, ReplacedSameOrOff, SlipHolds
<1> QED
  BY <1>1, <1>2 DEF Mistype

(* The place of a digit, and which digit of the key it shows.              *)
LEMMA DigitHere ==
    ASSUME NEW at, Shown(text, key, at), NEW p \in HexPlaces(text)
    PROVE  \E i \in 1 .. 2 * KeyBytes : p = at[i] /\ Nibble(key, i) = Digit(text[p])
  BY DEF Shown

LEMMA MisreadHolds ==
    ASSUME IInv, NEW p \in 1 .. Len(text), Misread(p)
    PROVE  IInv'
<1>1. PICK c \in Lookalikes : Digit(c) # Digit(text[p]) /\ Slip("digit", ReplaceAt(text, p, c))
  BY DEF Misread
<1>2. c \in HexDigits /\ text[p] \in HexDigits /\ Digit(c) \in 0 .. 15
  BY CharactersAssumption, DigitRange DEF Misread, is_ascii_hexdigit
<1>3. key \in ByteKeys /\ text \in Seq(Chars) /\ Shows(text, key)
  BY <1>1 DEF IInv, Slip
<1>4. PICK at \in [1 .. 2 * KeyBytes -> HexPlaces(text)] : Shown(text, key, at)
  BY <1>3 DEF Shows
<1>5. PICK i \in 1 .. 2 * KeyBytes : p = at[i] /\ Nibble(key, i) = Digit(text[p])
  <2>1. p \in HexPlaces(text)
    BY <1>2 DEF HexPlaces
  <2> QED
    BY <1>4, <2>1, DigitHere
<1> DEFINE t == ReplaceAt(text, p, c)
           k == SetNibble(key, i, Digit(c))
<1>6. t \in Seq(Chars) /\ Shown(t, k, at)
  BY <1>2, <1>3, <1>4, <1>5, ReplacedDigit
<1>7. k \in ByteKeys /\ Nibble(k, i) = Digit(c)
  BY <1>2, <1>3, NibbleSet
<1> HIDE DEF t, k
<1>8. k # key
  BY <1>1, <1>5, <1>7
<1>9. Shows(t, k)
  BY <1>6 DEF Shows, Shown
<1>10. Slip("digit", t)
  BY <1>1 DEF t
<1> QED
  BY <1>6, <1>7, <1>8, <1>9, <1>10, DigitSlipHolds

LEMMA ExchangeHolds ==
    ASSUME IInv, NEW p \in 1 .. Len(text), NEW q \in 1 .. Len(text), Exchange(p, q)
    PROVE  IInv'
<1> DEFINE a == text[p]
           b == text[q]
           mid == ReplaceAt(text, p, b)
           t == ReplaceAt(mid, q, a)
<1>1. a \in HexDigits /\ b \in HexDigits /\ Digit(a) # Digit(b) /\ Slip("digit", t)
  BY DEF Exchange, is_ascii_hexdigit
<1>2. Digit(a) \in 0 .. 15 /\ Digit(b) \in 0 .. 15
  BY <1>1, DigitRange
<1>3. key \in ByteKeys /\ text \in Seq(Chars) /\ Shows(text, key)
  BY <1>1 DEF IInv, Slip
<1>4. PICK at \in [1 .. 2 * KeyBytes -> HexPlaces(text)] : Shown(text, key, at)
  BY <1>3 DEF Shows
<1>5. PICK i \in 1 .. 2 * KeyBytes : p = at[i] /\ Nibble(key, i) = Digit(a)
  <2>1. p \in HexPlaces(text)
    BY <1>1 DEF HexPlaces
  <2> QED
    BY <1>4, <2>1, DigitHere
<1>6. PICK j \in 1 .. 2 * KeyBytes : q = at[j] /\ Nibble(key, j) = Digit(b)
  <2>1. q \in HexPlaces(text)
    BY <1>1 DEF HexPlaces
  <2> QED
    BY <1>4, <2>1, DigitHere
<1> DEFINE k1 == SetNibble(key, i, Digit(b))
           k2 == SetNibble(k1, j, Digit(a))
<1>7. mid \in Seq(Chars) /\ Shown(mid, k1, at) /\ k1 \in ByteKeys /\ Nibble(k1, i) = Digit(b)
  BY <1>1, <1>2, <1>3, <1>4, <1>5, ReplacedDigit, NibbleSet
<1> HIDE DEF a, b, mid, t, k1
<1>8. t \in Seq(Chars) /\ Shown(t, k2, at)
  BY <1>1, <1>6, <1>7, ReplacedDigit DEF t
<1>9. k2 \in ByteKeys /\ Nibble(k2, j) = Digit(a)
  BY <1>2, <1>7, NibbleSet
<1> HIDE DEF k2
<1>10. k2 # key
  BY <1>1, <1>6, <1>9
<1>11. Shows(t, k2)
  BY <1>8 DEF Shows, Shown
<1> QED
  BY <1>1, <1>8, <1>9, <1>10, <1>11, DigitSlipHolds

LEMMA StepHolds == IInv /\ [Next]_vars => IInv'
<1> SUFFICES ASSUME IInv, [Next]_vars
             PROVE  IInv'
  OBVIOUS
<1>1. CASE UNCHANGED vars
  BY <1>1 DEF vars, IInv
<1>2. ASSUME NEW p \in 1 .. Len(text),
             Recase(p) \/ Join(p) \/ Omit(p) \/ Repeat(p) \/ Mistype(p) \/ Misread(p)
      PROVE  IInv'
  BY <1>2, RecaseHolds, JoinHolds, OmitHolds, RepeatHolds, MistypeHolds,
     MisreadHolds
<1>3. ASSUME NEW p \in 1 .. Len(text) + 1, Separate(p)
      PROVE  IInv'
  BY <1>3, SeparateHolds
<1>4. ASSUME NEW p \in 1 .. Len(text), NEW q \in 1 .. Len(text), Exchange(p, q)
      PROVE  IInv'
  BY <1>4, ExchangeHolds
<1> QED
  BY <1>1, <1>2, <1>3, <1>4 DEF Next

LEMMA Invariance == Spec => []IInv
<1>1. IInv /\ [Next]_vars => IInv'
  BY StepHolds
<1> QED
  BY <1>1, InitHolds, PTL DEF Spec

-----------------------------------------------------------------------------
(* Parsing undoes formatting: whatever the key, parse_recovery_key gives   *)
(* back the bytes format_recovery_key was given.                           *)
THEOREM RoundTrip ==
    \A k \in Keys : parse_recovery_key(format_recovery_key(k)) = Ok(k)
<1>1. Keys \subseteq ByteKeys
  BY KeysAssumption DEF ByteKeys
<1> QED
  BY <1>1, FormatAt, FormatShows, ShownParses

(* A copy in which nothing slipped, however spaced, grouped and cased,     *)
(* parses to the key that was shown.                                       *)
THEOREM CarefulCopies == Spec => []CarefulCopiesParse
<1>1. IInv => CarefulCopiesParse
  BY ShownParses DEF IInv, CarefulCopiesParse
<1> QED
  BY <1>1, Invariance, PTL

(* A copy with a character too many, too few or that is no digit parses to *)
(* the key that was shown or not at all: what the filter drops never makes *)
(* up for a digit too many or too few.                                     *)
THEOREM SlipsAreNoticed == Spec => []OneSlipIsNoticed
<1>1. ASSUME IInv, slip # "digit"
      PROVE  LET r == parse_recovery_key(text) IN r.ok => r.val = key
  <2>1. CASE Shows(text, key)
    <3>1. parse_recovery_key(text) = Ok(key)
      BY <1>1, <2>1, ShownParses DEF IInv
    <3> QED
      BY <3>1 DEF Ok
  <2>2. CASE Cardinality(HexPlaces(text)) # 2 * KeyBytes
    BY <1>1, <2>2, MiscountedIsRefused DEF IInv
  <2> QED
    BY <1>1, <2>1, <2>2 DEF IInv
<1>2. IInv => OneSlipIsNoticed
  BY <1>1 DEF OneSlipIsNoticed
<1> QED
  BY <1>2, Invariance, PTL

(* A digit taken for another, or two exchanged, parses to another key.     *)
THEOREM MisreadsAreOtherKeys == Spec => []MisreadIsAnotherKey
<1>1. ASSUME IInv, slip = "digit"
      PROVE  LET r == parse_recovery_key(text) IN r.ok /\ r.val # key
  <2>1. PICK k \in ByteKeys \ {key} : Shows(text, k)
    BY <1>1 DEF IInv
  <2>2. parse_recovery_key(text) = Ok(k)
    BY <1>1, <2>1, ShownParses DEF IInv
  <2> QED
    BY <2>1, <2>2 DEF Ok
<1>2. IInv => MisreadIsAnotherKey
  BY <1>1 DEF MisreadIsAnotherKey
<1> QED
  BY <1>2, Invariance, PTL

=============================================================================
