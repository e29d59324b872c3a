------------------------------- MODULE Sha256 -------------------------------
(***************************************************************************)
(* base::Sha256 and its Sha256Hasher (src/base/sha2.cc). Sha256 feeds the  *)
(* string to Update 64 bytes at a time, then Finalize pads the rest (one  *)
(* or two more chunks) and returns the digest. A string is a sequence of  *)
(* bytes 0..255.                                                           *)
(*                                                                         *)
(* Update reads the chunk with memcpy into uint32_t words and, on a       *)
(* little-endian CPU, ByteSwaps them; Finalize ByteSwaps the hash words   *)
(* before copying them out. On either byte order the net effect is a     *)
(* big-endian load and store, which is what BigEndianWord and Digest say. *)
(***************************************************************************)
EXTENDS Integers, Sequences, Bitwise

CONSTANT Messages      \* the strings Sha256 is called on

VARIABLES
  message,   \* the argument str, as passed
  str,       \* the part of str the loop has not yet handed to Update
  hash,      \* Sha256Hasher::hash_
  fed,       \* every chunk passed to Update so far, concatenated
  result     \* the digest Finalize returns, << >> before it runs

vars == <<message, str, hash, fed, result>>

(* A uint32_t is the pair <<hi, lo>> of its 16-bit halves: TLC's         *)
(* integers are narrower than 32 bits.                                    *)
Half == 2^16

WordXor(x, y) == <<x[1] ^^ y[1], x[2] ^^ y[2]>>
WordAnd(x, y) == <<x[1] & y[1], x[2] & y[2]>>
WordNot(x) == <<Half - 1 - x[1], Half - 1 - x[2]>>

(* uint32_t addition: the carry out of the low half goes into the high   *)
(* half, and the carry out of the high half is lost (modulo 2^32).       *)
WordAdd(x, y) ==
  LET lo == x[2] + y[2]
  IN  <<(x[1] + y[1] + lo \div Half) % Half, lo % Half>>

(* x >> n for n < 16: each half keeps its high bits, and the low half    *)
(* takes the n bits that fall out of the high half.                      *)
ShiftRight(x, n) ==
  <<x[1] \div 2^n, x[2] \div 2^n + (x[1] % 2^n) * 2^(16 - n)>>

(* Section 2.2.2 and 4.1.2 (lines 25-52): (x >> n) | (x << (32 - n)). A  *)
(* rotation by 16 or more first swaps the halves.                        *)
RotateRight(x, n) ==
  LET y == IF n >= 16 THEN <<x[2], x[1]>> ELSE x
      m == n % 16
  IN  <<y[1] \div 2^m + (y[2] % 2^m) * 2^(16 - m), y[2] \div 2^m + (y[1] % 2^m) * 2^(16 - m)>>

Ch(x, y, z) == WordXor(WordAnd(x, y), WordAnd(WordNot(x), z))
Maj(x, y, z) == WordXor(WordXor(WordAnd(x, y), WordAnd(x, z)), WordAnd(y, z))
Sum0(x) == WordXor(WordXor(RotateRight(x, 2), RotateRight(x, 13)), RotateRight(x, 22))
Sum1(x) == WordXor(WordXor(RotateRight(x, 6), RotateRight(x, 11)), RotateRight(x, 25))
(* Mutant of Sigma0: x >> 3 written as a rotation. *)
Sigma0Rotated(x) == WordXor(WordXor(RotateRight(x, 7), RotateRight(x, 18)), RotateRight(x, 3))
Sigma0(x) == WordXor(WordXor(RotateRight(x, 7), RotateRight(x, 18)), ShiftRight(x, 3))
Sigma1(x) == WordXor(WordXor(RotateRight(x, 17), RotateRight(x, 19)), ShiftRight(x, 10))

(* kConstants, section 4.2.2 (0x428a2f98 ... 0xc67178f2), lines 55-66, *)
(* as 16-bit halves.                                                      *)
kConstants == LET halves == <<
   <<17034, 12184>>, <<28983, 17553>>, <<46528, 64463>>, <<59829, 56229>>, <<14678, 49755>>,
   <<23025, 4593>>, <<37439, 33444>>, <<43804, 24277>>, <<55303, 43672>>, <<4739, 23297>>,
   <<9265, 34238>>, <<21772, 32195>>, <<29374, 23924>>, <<32990, 45566>>, <<39900, 1703>>,
   <<49563, 61812>>, <<58523, 27073>>, <<61374, 18310>>, <<4033, 40390>>, <<9228, 41420>>,
   <<11753, 11375>>, <<19060, 33962>>, <<23728, 43484>>, <<30457, 35034>>, <<38974, 20818>>,
   <<43057, 50797>>, <<45059, 10184>>, <<48985, 32711>>, <<50912, 3059>>, <<54695, 37191>>,
   <<1738, 25425>>, <<5161, 10599>>, <<10167, 2693>>, <<11803, 8504>>, <<19756, 28156>>,
   <<21304, 3347>>, <<25866, 29524>>, <<30314, 2747>>, <<33218, 51502>>, <<37490, 11397>>,
   <<41663, 59553>>, <<43034, 26187>>, <<49739, 35696>>, <<51052, 20899>>, <<53650, 59417>>,
   <<54937, 1572>>, <<62478, 13701>>, <<4202, 41072>>, <<6564, 49430>>, <<7735, 27656>>,
   <<10056, 30540>>, <<13488, 48309>>, <<14620, 3251>>, <<20184, 43594>>, <<23452, 51791>>,
   <<26670, 28659>>, <<29839, 33518>>, <<30885, 25455>>, <<33992, 30740>>, <<36039, 520>>,
   <<37054, 65530>>, <<42064, 27883>>, <<48889, 41975>>, <<50801, 30962>> >>
              IN  halves

(* The initial hash_, section 5.3.3 (0x6a09e667 ... 0x5be0cd19). *)
InitialHash == LET halves == <<
   <<27145, 58983>>, <<47975, 44677>>, <<15470, 62322>>, <<42319, 62778>>,
   <<20750, 21119>>, <<39685, 26764>>, <<8067, 55723>>, <<23520, 52505>> >>
               IN  halves

(* Word t (0-based) of a 64-byte chunk: memcpy, then ByteSwap (lines     *)
(* 79-84), so byte 4t is the most significant.                           *)
BigEndianWord(chunk, t) ==
  <<chunk[4*t+1] * 256 + chunk[4*t+2], chunk[4*t+3] * 256 + chunk[4*t+4]>>

(* The message schedule w_ (section 6.2.2 step 1, lines 78-87), built one *)
(* word at a time: words 16..63 mix four earlier words.                   *)
RECURSIVE ScheduleFrom(_)
ScheduleFrom(w) ==
  IF Len(w) = 64 THEN w
  ELSE LET t == Len(w) + 1     \* 1-based index of w_[t - 1]
       IN  ScheduleFrom(Append(w, WordAdd(WordAdd(WordAdd(Sigma1(w[t-2]), w[t-7]), Sigma0(w[t-15])), w[t-16])))

Schedule(chunk) == ScheduleFrom([t \in 1..16 |-> BigEndianWord(chunk, t - 1)])

(* One iteration of the round loop (lines 100-111) on <<a, ..., h>>. *)
Round(v, w, t) ==
  LET tmp1 == WordAdd(WordAdd(WordAdd(WordAdd(v[8], Sum1(v[5])), Ch(v[5], v[6], v[7])), kConstants[t]), w[t])
      tmp2 == WordAdd(Sum0(v[1]), Maj(v[1], v[2], v[3]))
  IN  <<WordAdd(tmp1, tmp2), v[1], v[2], v[3], WordAdd(v[4], tmp1), v[5], v[6], v[7]>>

(* The working variables before round 1 and after each round so far;    *)
(* round t runs on the last of them.                                      *)
RECURSIVE Rounds(_, _)
Rounds(vs, w) ==
  IF Len(vs) = 65 THEN vs
  ELSE Rounds(Append(vs, Round(vs[Len(vs)], w, Len(vs))), w)

(* Sha256Hasher::Update (lines 75-122): schedule, 64 rounds from hash_,  *)
(* and hash_[i] += the working variable.                                  *)
Update(h, chunk) ==
  LET v == Rounds(<<h>>, Schedule(chunk))[65]
  IN  [i \in 1..8 |-> WordAdd(h[i], v[i])]

(* The 8 big-endian bytes of original_size * 8 (lines 138-146). The      *)
(* uint64_t product cannot wrap for the strings checked here.            *)
RECURSIVE BigEndianBytes(_, _)
BigEndianBytes(n, k) == IF k = 0 THEN << >> ELSE BigEndianBytes(n \div 256, k - 1) \o <<n % 256>>

LengthBytes(size) == BigEndianBytes(size * 8, 8)

(* The 32 result bytes: ByteSwap each word, then memcpy (lines 150-155). *)
Digest(h) ==
  [j \in 1..32 |-> LET half == h[(j - 1) \div 4 + 1][IF (j - 1) % 4 < 2 THEN 1 ELSE 2]
                  IN  IF (j - 1) % 2 = 0 THEN half \div 256 ELSE half % 256]

Init ==
  /\ message \in Messages
  /\ str = message
  /\ hash = InitialHash
  /\ fed = << >>
  /\ result = << >>

(* One iteration of Sha256's loop (lines 175-179). *)
UpdateChunk ==
  /\ Len(str) >= 64
  /\ hash' = Update(hash, SubSeq(str, 1, 64))
  /\ fed' = fed \o SubSeq(str, 1, 64)
  /\ str' = SubSeq(str, 65, Len(str))
  /\ UNCHANGED <<message, result>>

(* Mutant of Finalize: the std::fill of line 135 dropped, so the second  *)
(* chunk keeps the first one's bytes.                                     *)
FinalizeNoClear ==
  /\ Len(str) < 64
  /\ result = << >>
  /\ LET chunk  == str \o <<128>> \o [i \in 1..(63 - Len(str)) |-> 0]
         extra  == 64 - (Len(str) + 1) < 8
         h1     == IF extra THEN Update(hash, chunk) ELSE hash
         last   == SubSeq(chunk, 1, 56) \o LengthBytes(Len(message))
         h2     == Update(h1, last)
     IN  /\ hash' = h2
         /\ fed' = fed \o (IF extra THEN chunk ELSE << >>) \o last
         /\ result' = Digest(h2)
  /\ UNCHANGED <<message, str>>

(* Finalize(str, original_size) (lines 124-157), called when fewer than  *)
(* 64 bytes are left: the zeroed padding_chunk gets the rest and 0x80;   *)
(* with fewer than 8 bytes after the 0x80 it is hashed on its own and   *)
(* its first 56 bytes are cleared; then the bit length goes into bytes  *)
(* 56-63 and the chunk is hashed.                                        *)
Finalize ==
  /\ Len(str) < 64
  /\ result = << >>
  /\ LET chunk  == str \o <<128>> \o [i \in 1..(63 - Len(str)) |-> 0]
         extra  == 64 - (Len(str) + 1) < 8
         h1     == IF extra THEN Update(hash, chunk) ELSE hash
         kept   == IF extra THEN [i \in 1..56 |-> 0] ELSE SubSeq(chunk, 1, 56)
         last   == kept \o LengthBytes(Len(message))
         h2     == Update(h1, last)
     IN  /\ hash' = h2
         /\ fed' = fed \o (IF extra THEN chunk ELSE << >>) \o last
         /\ result' = Digest(h2)
  /\ UNCHANGED <<message, str>>

Next == UpdateChunk \/ Finalize

Spec == Init /\ [][Next]_vars

Done == result # << >>

-----------------------------------------------------------------------------
(* The padded message of FIPS 180-4, section 5.1.1: the message, a 0x80  *)
(* byte, the fewest zero bytes that make the length 56 modulo 64, and    *)
(* the message length in bits as a big-endian 64-bit integer.           *)
FipsPadded(m) ==
  m \o <<128>> \o [i \in 1..((55 - Len(m)) % 64) |-> 0] \o LengthBytes(Len(m))

(* Sha256 and Finalize together hash exactly the FIPS padded message, in *)
(* order, whatever the length: in particular around the 55/56 boundary    *)
(* where Finalize needs a second chunk, and at multiples of 64 where the  *)
(* loop leaves Finalize nothing but the padding.                          *)
PaddedAsFips == Done => fed = FipsPadded(message)
=============================================================================
