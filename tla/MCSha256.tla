------------------------------ MODULE MCSha256 ------------------------------
(***************************************************************************)
(* The strings of Sha2Test.Basic (src/base/sha2_unittest.cc), but the     *)
(* million-byte one, with the digests the test expects, and every length *)
(* from 0 to 129 of a string of 'U' bytes for the padding.                *)
(***************************************************************************)
EXTENDS Sha256, TLC

(* n copies of the byte b: std::string(n, b). *)
Bytes(b, n) == [i \in 1..n |-> b]

(* "abcdbcdecdefdefgefghfghighijhijkijkljklmklmnlmnomnopnopq" *)
Abcdbc == [k \in 1..56 |-> 97 + (k - 1) \div 4 + ((k - 1) % 4)]

(* The digests the test expects, byte by byte. *)
ExpectedDigest ==
  (* "": E3B0C44298FC1C149AFBF4C8996FB92427AE41E4649B934CA495991B7852B855 *)
     (<< >> :>
      <<227, 176, 196, 66, 152, 252, 28, 20, 154, 251, 244, 200, 153, 111, 185, 36,
        39, 174, 65, 228, 100, 155, 147, 76, 164, 149, 153, 27, 120, 82, 184, 85>>)
  (* "abc": BA7816BF8F01CFEA414140DE5DAE2223B00361A396177A9CB410FF61F20015AD *)
  @@ (<<97, 98, 99>> :>
      <<186, 120, 22, 191, 143, 1, 207, 234, 65, 65, 64, 222, 93, 174, 34, 35,
        176, 3, 97, 163, 150, 23, 122, 156, 180, 16, 255, 97, 242, 0, 21, 173>>)
  (* "abcdbcde...nopq": 248D6A61D20638B8E5C026930C3E6039A33CE45964FF2167F6ECEDD419DB06C1 *)
  @@ (Abcdbc :>
      <<36, 141, 106, 97, 210, 6, 56, 184, 229, 192, 38, 147, 12, 62, 96, 57,
        163, 60, 228, 89, 100, 255, 33, 103, 246, 236, 237, 212, 25, 219, 6, 193>>)
  (* "\xbd": 68325720AABD7C82F30F554B313D0570C95ACCBB7DC4B5AAE11204C08FFE732B *)
  @@ (<<189>> :>
      <<104, 50, 87, 32, 170, 189, 124, 130, 243, 15, 85, 75, 49, 61, 5, 112,
        201, 90, 204, 187, 125, 196, 181, 170, 225, 18, 4, 192, 143, 254, 115, 43>>)
  (* "\xc9\x8c\x8e\x55": 7ABC22C0AE5AF26CE93DBB94433A0E0B2E119D014F8E7F65BD56C61CCCCD9504 *)
  @@ (<<201, 140, 142, 85>> :>
      <<122, 188, 34, 192, 174, 90, 242, 108, 233, 61, 187, 148, 67, 58, 14, 11,
        46, 17, 157, 1, 79, 142, 127, 101, 189, 86, 198, 28, 204, 205, 149, 4>>)
  (* 55 x '\0': 02779466CDEC163811D078815C633F21901413081449002F24AA3E80F0B88EF7 *)
  @@ (Bytes(0, 55) :>
      <<2, 119, 148, 102, 205, 236, 22, 56, 17, 208, 120, 129, 92, 99, 63, 33,
        144, 20, 19, 8, 20, 73, 0, 47, 36, 170, 62, 128, 240, 184, 142, 247>>)
  (* 56 x '\0': D4817AA5497628E7C77E6B606107042BBBA3130888C5F47A375E6179BE789FBB *)
  @@ (Bytes(0, 56) :>
      <<212, 129, 122, 165, 73, 118, 40, 231, 199, 126, 107, 96, 97, 7, 4, 43,
        187, 163, 19, 8, 136, 197, 244, 122, 55, 94, 97, 121, 190, 120, 159, 187>>)
  (* 57 x '\0': 65A16CB7861335D5ACE3C60718B5052E44660726DA4CD13BB745381B235A1785 *)
  @@ (Bytes(0, 57) :>
      <<101, 161, 108, 183, 134, 19, 53, 213, 172, 227, 198, 7, 24, 181, 5, 46,
        68, 102, 7, 38, 218, 76, 209, 59, 183, 69, 56, 27, 35, 90, 23, 133>>)
  (* 64 x '\0': F5A5FD42D16A20302798EF6ED309979B43003D2320D9F0E8EA9831A92759FB4B *)
  @@ (Bytes(0, 64) :>
      <<245, 165, 253, 66, 209, 106, 32, 48, 39, 152, 239, 110, 211, 9, 151, 155,
        67, 0, 61, 35, 32, 217, 240, 232, 234, 152, 49, 169, 39, 89, 251, 75>>)
  (* 1000 x '\0': 541B3E9DAA09B20BF85FA273E5CBD3E80185AA4EC298E765DB87742B70138A53 *)
  @@ (Bytes(0, 1000) :>
      <<84, 27, 62, 157, 170, 9, 178, 11, 248, 95, 162, 115, 229, 203, 211, 232,
        1, 133, 170, 78, 194, 152, 231, 101, 219, 135, 116, 43, 112, 19, 138, 83>>)
  (* 1000 x 'A': C2E686823489CED2017F6059B8B239318B6364F6DCD835D0A519105A1EADD6E4 *)
  @@ (Bytes(65, 1000) :>
      <<194, 230, 134, 130, 52, 137, 206, 210, 1, 127, 96, 89, 184, 178, 57, 49,
        139, 99, 100, 246, 220, 216, 53, 208, 165, 25, 16, 90, 30, 173, 214, 228>>)
  (* 1005 x 'U': F4D62DDEC0F3DD90EA1380FA16A5FF8DC4C54B21740650F24AFC4120903552B0 *)
  @@ (Bytes(85, 1005) :>
      <<244, 214, 45, 222, 192, 243, 221, 144, 234, 19, 128, 250, 22, 165, 255, 141,
        196, 197, 75, 33, 116, 6, 80, 242, 74, 252, 65, 32, 144, 53, 82, 176>>)

TestVectors == DOMAIN ExpectedDigest

(* Every length around the one- and two-chunk boundaries of Finalize. *)
PaddingLengths == {Bytes(85, n) : n \in 0..129}

MCMessages == TestVectors \cup PaddingLengths

(* Sha256 returns, for each string of the unit test, the digest the test *)
(* expects: the round functions, the schedule, the 32-bit wrap-around of *)
(* every sum, the byte order of loads and stores and the padding all    *)
(* have to be right for all twelve.                                      *)
DigestMatchesTests ==
  Done /\ message \in TestVectors => result = ExpectedDigest[message]
=============================================================================
