-------------------------------- MODULE MCRtp --------------------------------
EXTENDS Rtp, FiniteSetsExt

(* "cat", "", "at" and "thrives", each with its NUL: lengths below, at and  *)
(* above a multiple of the payload, in both directions.                     *)
MCMessages == <<
    <<99, 97, 116, 0>>, <<0>>, <<97, 116, 0>>,
    <<116, 104, 114, 105, 118, 101, 115, 0>> >>

Vowels == {97, 101, 105, 111, 117, 121}

(* makePigLatin() for a text of one word, and the full stop after it.       *)
MCPiglatinize(word) ==
    LET found == {i \in DOMAIN word : word[i] \in Vowels}
        m == IF found = {} THEN Len(word) ELSE Min(found) - 1
        latin == IF Len(word) < 3 THEN word
                 ELSE IF m = 0 THEN word \o <<119, 97, 121>>
                 ELSE SubSeq(word, m + 1, Len(word)) \o SubSeq(word, 1, m)
                          \o <<97, 121>>
    IN  latin \o <<46>>
=============================================================================
