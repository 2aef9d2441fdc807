------------------------------ MODULE Checksum ------------------------------
(* net_checksum (checksum.c) over a buffer of bytes, at its real widths.   *)
EXTENDS Naturals, Sequences

Byte   == {b \in Nat : b < 256}
UInt16 == {w \in Nat : w < 65536}

\* The big-endian 16-bit words of a buffer; a last odd byte is the high byte
\* of a word.
WordsOf(buf) ==
    [i \in 1 .. (Len(buf) + 1) \div 2 |->
       256 * buf[2 * i - 1] + (IF 2 * i <= Len(buf) THEN buf[2 * i] ELSE 0)]

\* The loop over the words.
SumOf(words) ==
    LET sum[i \in 0 .. Len(words)] ==
          IF i = 0 THEN 0 ELSE sum[i - 1] + words[i]
    IN  sum[Len(words)]

\* The upper half of the 32-bit sum, a uint16_t, and the sum with its upper
\* half added to the lower one.
Upper(sum)  == (sum \div 65536) % 65536
Folded(sum) == (sum % 65536) + Upper(sum)

Fold_once(sum) == (sum + (sum \div 65536)) % 65536

\* The loop that folds the sum into 16 bits.
Fold(sum) ==
    LET loop[s \in Nat] == IF Upper(s) = 0 THEN s ELSE loop[Folded(s)]
    IN  loop[sum]

\* The checksum of words in network order, and of bytes.
ChecksumOfWords(words) == 65535 - Fold(SumOf(words))
NetChecksum(buf) == ChecksumOfWords(WordsOf(buf))

\* RFC 1071: the complement of the ones' complement sum, in which 65535 and 0
\* are the same number and only a sum of zeros is 0.
InternetChecksum(words) ==
    LET sum == SumOf(words)
    IN  65535 - (IF sum = 0 THEN 0 ELSE ((sum - 1) % 65535) + 1)
=============================================================================
