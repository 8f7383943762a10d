------------------------------- MODULE Sutf8 --------------------------------
(***************************************************************************)
(* The SUTF-8 codec, src/sutf/sutf8.c, and the driver's use of it for the  *)
(* names of catalog entries, owfs_name_to_ascii in src/owfs.c.             *)
(*                                                                         *)
(* The six frames of the codec differ in their numbers only; they are the  *)
(* six places of the tables below.  Bytes and codepoints are integers, a   *)
(* shift is a division and a mask a remainder.                              *)
(***************************************************************************)
EXTENDS Integers, Sequences

CONSTANTS
  NAME_MAX,     \* size of a menu entry's name, its end included
  Texts,        \* codepoints of the names in the catalog, none the encoder refuses
  Damage        \* bytes that may be in the place of another

(* sucs_is_valid: below the trap range, which the invalid codepoint ends. *)
IsValid(cp) == cp < 2147483632

ASSUME Sutf8Assumption ==
  /\ NAME_MAX \in Nat \ {0}
  /\ Texts \subseteq Seq({cp \in Nat : IsValid(cp)})
  /\ Damage \subseteq 0 .. 255

-----------------------------------------------------------------------------
(* For each frame: the marker of the lead byte, how many values it can     *)
(* carry, and the codepoints that are encoded in it.                        *)
Lead     == <<0, 192, 224, 240, 248, 252>>
Capacity == <<128, 32, 16, 8, 4, 2>>
Least    == <<0, 128, 2048, 65536, 1114112, 67108864>>
Greatest == <<127, 2047, 65535, 1114111, 67108863, 2147483647>>
Frames   == 1 .. 6
Pow64    == <<1, 64, 4096, 262144, 16777216, 1073741824>>

(* sutf8_codepoint_length, and sutf8_encode_char into size bytes. *)
FrameOf(cp) == CHOOSE n \in Frames : cp \in Least[n] .. Greatest[n]
Encoded(cp, n) ==
  [k \in 1 .. n |-> IF k = 1 THEN Lead[n] + ((cp \div Pow64[n]) % Capacity[n])
                    ELSE 128 + ((cp \div Pow64[n - k + 1]) % 64)]
Encode(cp, size) ==
  IF IsValid(cp) /\ FrameOf(cp) <= size THEN Encoded(cp, FrameOf(cp)) ELSE <<>>

(* The frame that a lead byte opens; a continuation byte opens none. *)
Opens(byte, n)     == byte \in Lead[n] .. Lead[n] + Capacity[n] - 1
IsContinuation(byte) == byte \in 128 .. 191

(* What the first n bytes carry. *)
Carried(bytes, n, k) ==
  IF k > n THEN 0
  ELSE IF k = 1 THEN (bytes[1] - Lead[n]) * Pow64[n]
  ELSE (bytes[k] - 128) * Pow64[n - k + 1]
Codepoint(bytes, n) ==
  Carried(bytes, n, 1) + Carried(bytes, n, 2) + Carried(bytes, n, 3)
    + Carried(bytes, n, 4) + Carried(bytes, n, 5) + Carried(bytes, n, 6)

(* A plausible bug in place of the next definition. *)
IsCanonical_Any(cp, n) == IsValid(cp)

(* Neither overlong nor, by the frame's own rule, too large for it. *)
IsCanonical(cp, n) == cp \in Least[n] .. Greatest[n] /\ IsValid(cp)

(* sutf8_decode_char: how many bytes make a character, and which. *)
IsChar(bytes, n) ==
  /\ Len(bytes) >= n /\ Opens(bytes[1], n)
  /\ \A k \in 2 .. n : IsContinuation(bytes[k])
  /\ IsCanonical(Codepoint(bytes, n), n)
Failed == [consumed |-> 0, cp |-> 2147483647]
Decode(bytes) ==
  IF \E n \in Frames : IsChar(bytes, n)
  THEN LET n == CHOOSE n \in Frames : IsChar(bytes, n)
       IN  [consumed |-> n, cp |-> Codepoint(bytes, n)]
  ELSE Failed

-----------------------------------------------------------------------------
VARIABLES
  text, hit,         \* what the name was made of, and which character was damaged
  name, i, out,      \* owfs_name_to_ascii: the bytes, the next one, the characters
  npc                \* "decode" or "decoded"

nameVars == <<text, hit, name, i, out, npc>>

(* The bytes of the characters from one to another. *)
BytesOf(cps) ==
  LET bytes[k \in 0 .. Len(cps)] ==
        IF k = 0 THEN <<>> ELSE bytes[k - 1] \o Encode(cps[k], 6)
  IN  bytes[Len(cps)]

(* A name of the catalog: encoded text, whole, or cut, or with one byte of *)
(* another value.                                                           *)
Init ==
  /\ text \in Texts
  /\ LET bytes     == BytesOf(text)
         before(c) == Len(BytesOf(SubSeq(text, 1, c)))
     IN  \/ hit = 0 /\ name = bytes
         \/ \E c \in 1 .. Len(text) : \E p \in before(c - 1) + 1 .. before(c) :
              /\ hit = c
              /\ \/ name = SubSeq(bytes, 1, p - 1)
                 \/ \E byte \in Damage : name = [bytes EXCEPT ![p] = byte]
  /\ i = 0 /\ out = <<>> /\ npc = "decode"

Question == 63   \* '?'

(* Plausible bugs, each in place of a definition below. *)
Advance_BytePerChar(d) == 1
HasRoom_ToTheEnd(o) == Len(o) < NAME_MAX

(* The character shown for what was decoded, and how far the loop goes on. *)
Shown(d)   == IF d.consumed > 0 /\ d.cp <= 127 THEN d.cp ELSE Question
Advance(d) == IF d.consumed = 0 THEN 1 ELSE d.consumed
HasRoom(o) == Len(o) < NAME_MAX - 1

(* One pass of the loop of owfs_name_to_ascii, and its end. *)
NameChar ==
  /\ npc = "decode" /\ i < Len(name) /\ HasRoom(out)
  /\ LET d == Decode(SubSeq(name, i + 1, Len(name)))
     IN  out' = Append(out, Shown(d)) /\ i' = i + Advance(d)
  /\ UNCHANGED <<text, hit, name, npc>>
NameEnd ==
  /\ npc = "decode" /\ ~(i < Len(name) /\ HasRoom(out))
  /\ npc' = "decoded"
  /\ UNCHANGED <<text, hit, name, i, out>>

Next == NameChar \/ NameEnd
Spec == Init /\ [][Next]_nameVars

-----------------------------------------------------------------------------
ShownText(cps) == [k \in 1 .. Len(cps) |-> IF cps[k] <= 127 THEN cps[k] ELSE Question]

(* Types: the loop stays in the name, and in the buffer with room for the  *)
(* end.                                                                     *)
NameTypeOK ==
  /\ i \in 0 .. Len(name) /\ out \in Seq(0 .. 127) /\ Len(out) < NAME_MAX
  /\ npc \in {"decode", "decoded"}

(* Only what the encoder makes is a character: what is decoded at any      *)
(* place of any name encodes to the bytes that were consumed (sutf8.c:3-52,*)
(* 54-154).                                                                 *)
DecodesEncoded ==
  i < Len(name) =>
    LET bytes == SubSeq(name, i + 1, Len(name))
        d     == Decode(bytes)
    IN  d.consumed > 0 => Encode(d.cp, 6) = SubSeq(bytes, 1, d.consumed)

(* A damaged name is readable on both sides of the damage: all characters  *)
(* before it and, when the buffer has room, all after it are shown, one    *)
(* each (owfs.c:90-110).                                                    *)
IntactShown ==
  npc = "decoded" =>
    LET last   == IF hit = 0 THEN Len(text) ELSE hit - 1
        before == ShownText(SubSeq(text, 1, last))
        after  == ShownText(SubSeq(text, hit + 1, Len(text)))
        cut    == hit > 0 /\ Len(name) < Len(BytesOf(text))
    IN  /\ \A k \in DOMAIN before : k < NAME_MAX => k <= Len(out) /\ out[k] = before[k]
        /\ hit = 0 => Len(out) <= Len(before)
        /\ hit > 0 /\ ~cut /\ Len(out) < NAME_MAX - 1 =>
             /\ Len(out) >= last + 1 + Len(after)
             /\ SubSeq(out, Len(out) - Len(after) + 1, Len(out)) = after
=============================================================================
