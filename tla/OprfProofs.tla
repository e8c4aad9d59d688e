----------------------------- MODULE OprfProofs -----------------------------
(***************************************************************************)
(* What the length prefix of oprf.rs is for: no two (user, PIN) pairs are  *)
(* hashed as the same bytes, however ids and PINs run together.            *)
(***************************************************************************)
EXTENDS Oprf, SequenceTheorems, TLAPS

-----------------------------------------------------------------------------
(* Concatenation, as an operator the provers take apart only here.         *)

Cat(s, t) == s \o t

LEMMA CatElements ==
    \A S : \A s, t \in Seq(S) :
        /\ Cat(s, t) \in Seq(S)
        /\ Len(Cat(s, t)) = Len(s) + Len(t)
        /\ \A i \in 1 .. Len(s) : Cat(s, t)[i] = s[i]
        /\ \A i \in 1 .. Len(t) : Cat(s, t)[Len(s) + i] = t[i]
    BY DEF Cat

LEMMA CatRegroups ==
    \A S : \A s, t, u \in Seq(S) : Cat(Cat(s, t), u) = Cat(s, Cat(t, u))
<1> SUFFICES ASSUME NEW S, NEW s \in Seq(S), NEW t \in Seq(S), NEW u \in Seq(S)
             PROVE  s \o t \o u = s \o (t \o u)
    BY DEF Cat
<1>1. /\ s \o t \o u \in Seq(S) /\ s \o (t \o u) \in Seq(S)
      /\ Len(s \o t \o u) = Len(s \o (t \o u))
    OBVIOUS
<1>2. \A i \in 1 .. Len(s \o t \o u) : (s \o t \o u)[i] = (s \o (t \o u))[i]
    OBVIOUS
<1> QED BY <1>1, <1>2, SeqEqual

(* Two concatenations are equal only part by part, if the first parts have *)
(* one length.                                                             *)
LEMMA CatSplits ==
    \A S : \A s1, s2, t1, t2 \in Seq(S) :
        Len(s1) = Len(s2) /\ Cat(s1, t1) = Cat(s2, t2) => s1 = s2 /\ t1 = t2
<1> TAKE S
<1>1. \A s, t \in Seq(S) :
        /\ Len(Cat(s, t)) = Len(s) + Len(t)
        /\ \A i \in 1 .. Len(s) : Cat(s, t)[i] = s[i]
        /\ \A i \in 1 .. Len(t) : Cat(s, t)[Len(s) + i] = t[i]
    BY DEF Cat
<1> SUFFICES ASSUME NEW s1 \in Seq(S), NEW s2 \in Seq(S),
                    NEW t1 \in Seq(S), NEW t2 \in Seq(S),
                    Len(s1) = Len(s2), Cat(s1, t1) = Cat(s2, t2)
             PROVE  s1 = s2 /\ t1 = t2
    OBVIOUS
<1>3. Len(t1) = Len(t2)
    BY <1>1, LenProperties
<1>4. ASSUME NEW i \in 1 .. Len(s1) PROVE s1[i] = s2[i]
    <2>1. Cat(s1, t1)[i] = s1[i] /\ Cat(s2, t2)[i] = s2[i]
        BY <1>1
    <2> QED BY <2>1
<1>5. ASSUME NEW i \in 1 .. Len(t1) PROVE t1[i] = t2[i]
    <2>1. Cat(s1, t1)[Len(s1) + i] = t1[i] /\ Cat(s2, t2)[Len(s2) + i] = t2[i]
        BY <1>1, <1>3
    <2> QED BY <2>1
<1>6. s1 = s2
    BY <1>4, SeqEqual
<1>7. t1 = t2
    BY <1>3, <1>5, SeqEqual
<1> QED BY <1>6, <1>7

-----------------------------------------------------------------------------
Bytes == 0 .. 255

Fits(user) == user \in Seq(Bytes) /\ Len(user) < Width

LEMMA BytesSubset == ASSUME NEW S, Nat \subseteq S PROVE Bytes \subseteq S
<1> SUFFICES ASSUME NEW b \in 0 .. 255 PROVE b \in S
    BY DEF Bytes
<1>1. b \in Nat
    OBVIOUS
<1> QED BY <1>1

(* What the two hashes begin with: a label, and the length of the user id. *)
Header(label, user) == Cat(<<label>>, length_prefix(user))

(* A length that fits is hashed as it is.                                  *)
LEMMA HeaderShape ==
    ASSUME NEW S, Nat \subseteq S, NEW label \in S, NEW u, Fits(u)
    PROVE  /\ Header(label, u) \in Seq(S)
           /\ Len(Header(label, u)) = 2
           /\ Header(label, u)[2] = Len(u)
<1>1. Len(u) \in Nat /\ Len(u) < Width
    BY LenProperties DEF Fits
<1>2. \A k \in Nat : k < Width => k % Width = k
    BY WidthAssumption, SMT
<1>3. length_prefix(u) = <<Len(u)>>
    BY <1>1, <1>2 DEF length_prefix
<1>4. \A k \in S : /\ <<label>> \o <<k>> \in Seq(S)
                   /\ Len(<<label>> \o <<k>>) = 2
                   /\ (<<label>> \o <<k>>)[2] = k
    OBVIOUS
<1> QED BY <1>1, <1>3, <1>4 DEF Header, Cat

(* The header determines the user, whatever comes after the user id.       *)
LEMMA HeaderDeterminesUser ==
    ASSUME NEW S, Nat \subseteq S, NEW label \in S,
           NEW u1, NEW u2, Fits(u1), Fits(u2),
           NEW t1 \in Seq(S), NEW t2 \in Seq(S),
           Cat(Cat(Header(label, u1), u1), t1) = Cat(Cat(Header(label, u2), u2), t2)
    PROVE  u1 = u2 /\ t1 = t2
<1> DEFINE h1 == Header(label, u1)
           h2 == Header(label, u2)
<1>1. u1 \in Seq(S) /\ u2 \in Seq(S)
    BY BytesSubset DEF Fits
<1>2. /\ h1 \in Seq(S) /\ Len(h1) = 2 /\ h1[2] = Len(u1)
      /\ h2 \in Seq(S) /\ Len(h2) = 2 /\ h2[2] = Len(u2)
    BY HeaderShape
<1> HIDE DEF h1, h2
<1>3. Cat(u1, t1) \in Seq(S) /\ Cat(u2, t2) \in Seq(S)
    BY <1>1, CatElements
<1>4. Cat(h1, Cat(u1, t1)) = Cat(h2, Cat(u2, t2))
    BY <1>1, <1>2, CatRegroups DEF h1, h2
<1>5. h1 = h2 /\ Cat(u1, t1) = Cat(u2, t2)
    BY <1>2, <1>3, <1>4, CatSplits
<1> QED BY <1>1, <1>2, <1>5, CatSplits

-----------------------------------------------------------------------------
(* Two blinded PINs are equal only for the same user and PIN: the server's *)
(* answer to one request is no answer to any other ("the HMAC output is    *)
(* effectively user-bound", oprf.rs:20).                                   *)
THEOREM BlindIsInjective ==
    ASSUME NEW u1, NEW u2, Fits(u1), Fits(u2),
           NEW p1 \in Seq(Bytes), NEW p2 \in Seq(Bytes),
           blind(u1, p1) = blind(u2, p2)
    PROVE  u1 = u2 /\ p1 = p2
<1> DEFINE label == "incokit-oprf-v2"
           S == Nat \cup {label}
<1>1. Nat \subseteq S /\ label \in S
    OBVIOUS
<1>2. Cat(Cat(Header(label, u1), u1), p1) = Cat(Cat(Header(label, u2), u2), p2)
    BY DEF blind, sha256, Cat, Header
<1> HIDE DEF S, label
<1>3. p1 \in Seq(S) /\ p2 \in Seq(S)
    BY <1>1, BytesSubset
<1> QED BY <1>1, <1>2, <1>3, HeaderDeterminesUser

(* Key material is equal only for the same user, PIN and evaluation, as    *)
(* long as evaluations have one length.                                    *)
THEOREM FinalizeIsInjective ==
    ASSUME NEW u1, NEW u2, Fits(u1), Fits(u2),
           NEW p1 \in Seq(Bytes), NEW p2 \in Seq(Bytes),
           NEW E, NEW e1 \in Seq(E), NEW e2 \in Seq(E), Len(e1) = Len(e2),
           finalize(u1, p1, e1) = finalize(u2, p2, e2)
    PROVE  u1 = u2 /\ p1 = p2 /\ e1 = e2
<1> DEFINE label == "incokit-oprf-finalize-v2"
           S == Nat \cup {label} \cup E
           h1 == Cat(Header(label, u1), u1)
           h2 == Cat(Header(label, u2), u2)
<1>1. Nat \subseteq S /\ label \in S /\ E \subseteq S
    OBVIOUS
<1>2. Cat(Cat(h1, p1), e1) = Cat(Cat(h2, p2), e2)
    BY DEF finalize, sha256, Cat, Header
<1> HIDE DEF S, label
<1>3. /\ p1 \in Seq(S) /\ p2 \in Seq(S) /\ u1 \in Seq(S) /\ u2 \in Seq(S)
      /\ e1 \in Seq(S) /\ e2 \in Seq(S)
    BY <1>1, BytesSubset DEF Fits
<1>4. h1 \in Seq(S) /\ h2 \in Seq(S)
    BY <1>1, <1>3, HeaderShape, CatElements
<1>5. Cat(p1, e1) \in Seq(S) /\ Cat(p2, e2) \in Seq(S)
    BY <1>3, CatElements
<1>6. Cat(h1, Cat(p1, e1)) = Cat(h2, Cat(p2, e2))
    <2> HIDE DEF h1, h2
    <2> QED BY <1>2, <1>3, <1>4, CatRegroups
<1>7. u1 = u2 /\ Cat(p1, e1) = Cat(p2, e2)
    BY <1>1, <1>5, <1>6, HeaderDeterminesUser
<1>8. Len(p1) = Len(p2)
    <2>1. \A s, t \in Seq(S) : Len(Cat(s, t)) = Len(s) + Len(t)
        BY CatElements
    <2> QED BY <1>3, <1>7, <2>1, LenProperties
<1> QED BY <1>3, <1>7, <1>8, CatSplits

=============================================================================
