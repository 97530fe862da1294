------------------------------ MODULE ModifiedMd5 ------------------------------
(***************************************************************************)
(* fairplay_modified_md5 of src/crypto/fairplay.cpp, round by round: MD5    *)
(* that reads its block big-endian, starts from a key and, half way, swaps  *)
(* words of the block at places that the state selects.  A 32-bit word is a *)
(* pair of 16-bit halves, high half first.  The jobs are the vectors of     *)
(* fairplay_self_test.                                                      *)
(***************************************************************************)
EXTENDS Integers, Sequences, Bitwise

VARIABLES
    vector,     \* the vector that is computed
    i,          \* round
    abcd,       \* the four state words
    block,      \* the sixteen words of the block, each read little-endian
    digest      \* the four words of the result, <<>> before

md5Vars == <<vector, i, abcd, block, digest>>

-----------------------------------------------------------------------------
(* 32-bit words *)

W(hi, lo) == <<hi, lo>>
Half == 65536
Add(x, y) ==
    LET lo == x[2] + y[2]
    IN W((x[1] + y[1] + lo \div Half) % Half, lo % Half)
AndW(x, y) == W(x[1] & y[1], x[2] & y[2])
OrW(x, y) == W(x[1] | y[1], x[2] | y[2])
XorW(x, y) == W(x[1] ^^ y[1], x[2] ^^ y[2])
NotW(x) == W(Half - 1 - x[1], Half - 1 - x[2])

(* rotl32, for 1 to 23 bits. *)
rotl32(x, bits) ==
    LET y == IF bits < 16 THEN x ELSE W(x[2], x[1])
        n == bits % 16
    IN W(((y[1] * 2^n) % Half) + (y[2] \div 2^(16 - n)),
         ((y[2] * 2^n) % Half) + (y[1] \div 2^(16 - n)))

SwapBytes(h) == (h % 256) * 256 + h \div 256
(* The same four bytes, read with the other end first. *)
Reversed(x) == W(SwapBytes(x[2]), SwapBytes(x[1]))

(* Bits n .. n + 3 of a word, n a multiple of four below 16. *)
Nibble(x, n) == (x[2] \div 2^n) % 16

-----------------------------------------------------------------------------
(* Tables *)

kMd5Shift(n) ==
    <<<<7, 12, 17, 22>>, <<5, 9, 14, 20>>, <<4, 11, 16, 23>>, <<6, 10, 15, 21>>>>
        [(n \div 16) + 1][(n % 4) + 1]

(* floor(2^32 |sin(n + 1)|) *)
sine_term(n) ==
    <<
      W(\hd76a, \ha478), W(\he8c7, \hb756), W(\h2420, \h70db), W(\hc1bd, \hceee),
      W(\hf57c, \h0faf), W(\h4787, \hc62a), W(\ha830, \h4613), W(\hfd46, \h9501),
      W(\h6980, \h98d8), W(\h8b44, \hf7af), W(\hffff, \h5bb1), W(\h895c, \hd7be),
      W(\h6b90, \h1122), W(\hfd98, \h7193), W(\ha679, \h438e), W(\h49b4, \h0821),
      W(\hf61e, \h2562), W(\hc040, \hb340), W(\h265e, \h5a51), W(\he9b6, \hc7aa),
      W(\hd62f, \h105d), W(\h0244, \h1453), W(\hd8a1, \he681), W(\he7d3, \hfbc8),
      W(\h21e1, \hcde6), W(\hc337, \h07d6), W(\hf4d5, \h0d87), W(\h455a, \h14ed),
      W(\ha9e3, \he905), W(\hfcef, \ha3f8), W(\h676f, \h02d9), W(\h8d2a, \h4c8a),
      W(\hfffa, \h3942), W(\h8771, \hf681), W(\h6d9d, \h6122), W(\hfde5, \h380c),
      W(\ha4be, \hea44), W(\h4bde, \hcfa9), W(\hf6bb, \h4b60), W(\hbebf, \hbc70),
      W(\h289b, \h7ec6), W(\heaa1, \h27fa), W(\hd4ef, \h3085), W(\h0488, \h1d05),
      W(\hd9d4, \hd039), W(\he6db, \h99e5), W(\h1fa2, \h7cf8), W(\hc4ac, \h5665),
      W(\hf429, \h2244), W(\h432a, \hff97), W(\hab94, \h23a7), W(\hfc93, \ha039),
      W(\h655b, \h59c3), W(\h8f0c, \hcc92), W(\hffef, \hf47d), W(\h8584, \h5dd1),
      W(\h6fa8, \h7e4f), W(\hfe2c, \he6e0), W(\ha301, \h4314), W(\h4e08, \h11a1),
      W(\hf753, \h7e82), W(\hbd3a, \hf235), W(\h2ad7, \hd2bb), W(\heb86, \hd391)>>[n + 1]

WordIndex(n) == CASE n <= 15 -> n
                  [] n \in 16..31 -> (5 * n + 1) % 16
                  [] n \in 32..47 -> (3 * n + 5) % 16
                  [] OTHER -> (7 * n) % 16

Mix(n, b, c, d) == CASE n <= 15 -> OrW(AndW(b, c), AndW(NotW(b), d))
                     [] n \in 16..31 -> OrW(AndW(b, d), AndW(c, NotW(d)))
                     [] n \in 32..47 -> XorW(XorW(b, c), d)
                     [] OTHER -> XorW(c, OrW(b, NotW(d)))

-----------------------------------------------------------------------------
(* Rounds *)

Swap(s, x, y) == [s EXCEPT ![x + 1] = s[y + 1], ![y + 1] = s[x + 1]]

(* Mutant: the swaps of c and d are left out. *)
SwapWordsOfAB(s, st) ==
    LET a == st[1] b == st[2]
        s1 == Swap(s, Nibble(a, 0), Nibble(b, 0))
        s3 == Swap(s1, Nibble(a, 4), Nibble(b, 4))
        s4 == Swap(s3, Nibble(a, 8), Nibble(b, 8))
    IN Swap(s4, Nibble(a, 12), Nibble(b, 12))

(* The five swaps after round 31. *)
SwapWords(s, st) ==
    LET a == st[1] b == st[2] c == st[3] d == st[4]
        s1 == Swap(s, Nibble(a, 0), Nibble(b, 0))
        s2 == Swap(s1, Nibble(c, 0), Nibble(d, 0))
        s3 == Swap(s2, Nibble(a, 4), Nibble(b, 4))
        s4 == Swap(s3, Nibble(a, 8), Nibble(b, 8))
    IN Swap(s4, Nibble(a, 12), Nibble(b, 12))

Round ==
    /\ i < 64
    /\ LET a == abcd[1] b == abcd[2] c == abcd[3] d == abcd[4]
           input == Reversed(block[WordIndex(i) + 1])
           mixed == Add(Add(Add(a, input), sine_term(i)), Mix(i, b, c, d))
           next == <<d, Add(rotl32(mixed, kMd5Shift(i)), b), b, c>>
       IN /\ abcd' = next
          /\ block' = IF i = 31 THEN SwapWords(block, next) ELSE block
    /\ i' = i + 1
    /\ UNCHANGED <<vector, digest>>

Finish ==
    /\ i = 64 /\ digest = <<>>
    /\ digest' = [n \in 1..4 |-> Add(vector.key[n], abcd[n])]
    /\ UNCHANGED <<vector, i, abcd, block>>

Md5Next == Round \/ Finish

-----------------------------------------------------------------------------
(* The vectors of fairplay_self_test, as little-endian words *)

Filled(w, n) == [k \in 1..n |-> w]
zero_case ==
    [block |-> Filled(W(0, 0), 16),
     key |-> Filled(W(0, 0), 4),
     expected |-> <<W(\hf7cd, \h1c97), W(\ha548, \h3681), W(\h2b68, \hd832), W(\hf90c, \ha639)>>]
a_case ==
    [block |-> Filled(W(\h4141, \h4141), 16),
     key |-> Filled(W(\h4141, \h4141), 4),
     expected |-> <<W(\h370c, \h5b69), W(\hced4, \hd915), W(\h31ee, \hbfb4), W(\h79de, \h927c)>>]
incremental_case ==
    [block |-> [k \in 1..16 |-> W(256 * (4 * k - 1) + (4 * k - 2), 256 * (4 * k - 3) + (4 * k - 4))],
     key |-> [k \in 1..4 |-> W(256 * (4 * k + 63) + (4 * k + 62), 256 * (4 * k + 61) + (4 * k + 60))],
     expected |-> <<W(\h6362, \h6808), W(\h8cec, \h367e), W(\hd7d2, \heecf), W(\hf09b, \h451d)>>]
real_case ==
    [block |-> <<W(\h4dad, \h9cfa), W(\h8c26, \h684b), W(\h9988, \hf37f), W(\h952e, \h92de),
                 W(\h61bf, \hef1e), W(\h48ab, \h4364), W(\h3f0a, \h706b), W(\h0df2, \h3d74),
                 W(\h3585, \h71dd), W(\h51ef, \hf246), W(\h7ae2, \h635d), W(\hde10, \hc537),
                 W(\h3585, \h7109), W(\h51ef, \hf246), W(\h7ae2, \h635d), W(\hde10, \hc537)>>,
     key |-> <<W(\hb9f3, \hdcdc), W(\hfbdc, \h740b), W(\h60f7, \h7f86), W(\h5190, \h7216)>>,
     expected |-> <<W(\hbf73, \hda47), W(\haad7, \h35b1), W(\h954e, \h93f2), W(\hed72, \h633f)>>]

Md5Init ==
    /\ vector \in {zero_case, a_case, incremental_case, real_case}
    /\ i = 0 /\ abcd = vector.key /\ block = vector.block /\ digest = <<>>

Md5Idle ==
    /\ vector = zero_case /\ i = 65 /\ abcd = zero_case.key
    /\ block = zero_case.block /\ digest = <<>>

-----------------------------------------------------------------------------
(* Properties *)

(* The digest of every vector of fairplay_self_test is the one expected:    *)
(* the model of the rounds, byte orders and swaps is that of the code.      *)
VectorsHold == digest # <<>> => digest = vector.expected

=============================================================================
