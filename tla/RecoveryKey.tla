---------------------------- MODULE RecoveryKey -----------------------------
(***************************************************************************)
(* keys.rs: the recovery key as a text that a person copies by hand.       *)
(*                                                                         *)
(* The person may write letters in either case, space and group them at    *)
(* will, and slip once: leave a character out, write one too many, put one *)
(* for another, exchange two digits.                                       *)
(***************************************************************************)
EXTENDS Aead, FiniteSets, SequencesExt

CONSTANTS
    KeyBytes,       \* 32 in the code
    Group,          \* hex digits between two dashes: 8 in the code
    Keys,           \* keys: sequences of KeyBytes bytes
    Separators,     \* characters a person may put between digits
    OddCharacters,  \* characters a person may write by mistake
    Lookalikes,     \* digits a person may take another digit for
    MaxEdits        \* bound: harmless changes of one copy

ASSUME GroupAssumption ==
    KeyBytes \in Nat \ {0} /\ Group \in Nat \ {0} /\ (2 * KeyBytes) % Group = 0

ASSUME KeysAssumption == Keys \subseteq [1 .. KeyBytes -> 0 .. 255]

UpperHex == <<"0", "1", "2", "3", "4", "5", "6", "7", "8", "9", "A", "B", "C", "D", "E", "F">>
LowerHex == <<"0", "1", "2", "3", "4", "5", "6", "7", "8", "9", "a", "b", "c", "d", "e", "f">>

HexDigits == Range(UpperHex) \cup Range(LowerHex)

is_ascii_hexdigit(c) == c \in HexDigits

ASSUME CharactersAssumption ==
    /\ \A c \in Separators \cup OddCharacters : ~is_ascii_hexdigit(c)
    /\ Lookalikes \subseteq HexDigits

(* The value of a hex digit, and its two forms.                            *)
Digit(c) == (CHOOSE i \in 1 .. 16 : c \in {UpperHex[i], LowerHex[i]}) - 1
Forms(c) == {UpperHex[Digit(c) + 1], LowerHex[Digit(c) + 1]}

-----------------------------------------------------------------------------
(* keys.rs                                                                 *)

format_recovery_key(key) ==
    LET digits == 2 * KeyBytes
        hex == [i \in 1 .. digits |->
                   LET byte == key[(i + 1) \div 2]
                   IN  UpperHex[(IF i % 2 = 1 THEN byte \div 16 ELSE byte % 16) + 1]]
        length == digits + digits \div Group - 1
    IN  [p \in 1 .. length |->
            IF p % (Group + 1) = 0 THEN "-" ELSE hex[p - p \div (Group + 1)]]

(* Fault: the window is one character wide.                                *)
FromSecondDigit(a, b) ==
    IF is_ascii_hexdigit(b) THEN Ok(Digit(b)) ELSE Err("Invalid recovery key hex")

(* u8::from_str_radix on two characters: it takes a sign, as Rust's does.  *)
from_str_radix(a, b) ==
    IF is_ascii_hexdigit(b) /\ (is_ascii_hexdigit(a) \/ a = "+")
    THEN Ok((IF a = "+" THEN 0 ELSE 16 * Digit(a)) + Digit(b))
    ELSE Err("Invalid recovery key hex")

(* chars().filter().collect(): what stands at the places of s that hold    *)
(* one of chars, in the order of the places.                               *)
only(chars, s) ==
    LET places == {p \in 1 .. Len(s) : s[p] \in chars}
        nth(i) == CHOOSE p \in places : Cardinality({q \in places : q <= p}) = i
    IN  [i \in 1 .. Cardinality(places) |-> s[nth(i)]]

parse_digits(clean) ==
    LET bytes == [i \in 1 .. KeyBytes |-> from_str_radix(clean[2 * i - 1], clean[2 * i])]
    IN  IF Len(clean) # 2 * KeyBytes
        THEN Err("Invalid recovery key: expected 64 hex chars")
        ELSE IF \E i \in 1 .. KeyBytes : ~bytes[i].ok
             THEN Err("Invalid recovery key hex")
             ELSE Ok([i \in 1 .. KeyBytes |-> bytes[i].val])

(* Fault: only the digits format writes are kept.                          *)
ParseUpperOnly(formatted) == parse_digits(only(Range(UpperHex), formatted))

(* Fault: the dashes and spaces are dropped, and from_str_radix judges the *)
(* rest.                                                                   *)
ParseStripped(formatted) == parse_digits(only(Range(formatted) \ {"-", " "}, formatted))

parse_recovery_key(formatted) == parse_digits(only(HexDigits, formatted))

-----------------------------------------------------------------------------
VARIABLES
    key,        \* the key that was shown
    text,       \* the copy as it stands
    edits,      \* harmless changes so far
    slip        \* "none", or what was slipped in: a "character" or a "digit"

vars == <<key, text, edits, slip>>

Init ==
    /\ key \in Keys
    /\ text = format_recovery_key(key)
    /\ edits = 0
    /\ slip = "none"

Edit(new) == text' = new /\ edits < MaxEdits /\ edits' = edits + 1 /\ UNCHANGED <<key, slip>>

Slip(kind, new) == text' = new /\ slip = "none" /\ slip' = kind /\ UNCHANGED <<key, edits>>

(* A letter in the other case.                                             *)
Recase(p) == is_ascii_hexdigit(text[p]) /\ \E c \in Forms(text[p]) : Edit(ReplaceAt(text, p, c))

Separate(p) == \E c \in Separators : Edit(InsertAt(text, p, c))

Join(p) == text[p] \in Separators /\ Edit(RemoveAt(text, p))

Omit(p) == Slip("character", RemoveAt(text, p))

Repeat(p) == Slip("character", InsertAt(text, p, text[p]))

(* Anything for a separator, anything but a digit for a digit.             *)
Mistype(p) ==
    \/ \E c \in OddCharacters : Slip("character", ReplaceAt(text, p, c))
    \/ /\ text[p] \in Separators
       /\ \E c \in Range(LowerHex) : Slip("character", ReplaceAt(text, p, c))

Misread(p) ==
    /\ is_ascii_hexdigit(text[p])
    /\ \E c \in Lookalikes : Digit(c) # Digit(text[p]) /\ Slip("digit", ReplaceAt(text, p, c))

Exchange(p, q) ==
    /\ is_ascii_hexdigit(text[p]) /\ is_ascii_hexdigit(text[q]) /\ Digit(text[p]) # Digit(text[q])
    /\ Slip("digit", ReplaceAt(ReplaceAt(text, p, text[q]), q, text[p]))

Next ==
    \/ \E p \in 1 .. Len(text) :
          Recase(p) \/ Join(p) \/ Omit(p) \/ Repeat(p) \/ Mistype(p) \/ Misread(p)
    \/ \E p, q \in 1 .. Len(text) : Exchange(p, q)
    \/ \E p \in 1 .. Len(text) + 1 : Separate(p)

Spec == Init /\ [][Next]_vars

-----------------------------------------------------------------------------
(* However a careful person spaces, groups and cases the text, it parses   *)
(* to the key that was shown ("No truncation = perfect round-trip",        *)
(* keys.rs:30).                                                            *)
CarefulCopiesParse == slip = "none" => parse_recovery_key(text) = Ok(key)

(* One character too many, too few, or that is no digit never yields       *)
(* another key: the parser drops characters and only counts what is left,  *)
(* yet the copy is refused or is still the key.                            *)
OneSlipIsNoticed ==
    slip # "digit" => LET r == parse_recovery_key(text) IN r.ok => r.val = key

(* A digit taken for another, or two exchanged, always yields another key, *)
(* without an error: the text has no check digits, every digit counts, and *)
(* only unwrapping tells (OnlyTheSecretUnlocks of Account).                *)
MisreadIsAnotherKey ==
    slip = "digit" => LET r == parse_recovery_key(text) IN r.ok /\ r.val # key

=============================================================================
