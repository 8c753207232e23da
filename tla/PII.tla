-------------------------------- MODULE PII --------------------------------
(***************************************************************************)
(* app/services/pii.py: what is kept of a patron's e-mail address and name.*)
(* A word is a sequence of characters, a name the sequence of its words,   *)
(* an address the words around "@" and the first dot behind it. Blanks     *)
(* within and around them are left out, HMAC-SHA256 stands for itself: it  *)
(* is taken to keep apart what differs.                                    *)
(***************************************************************************)
EXTENDS Naturals, Sequences

CONSTANTS Characters,  \* letters and other characters of words
          LowerCase,   \* LowerCase[c]: str.lower
          Star         \* the asterisk

ASSUME LowerCaseAssumption ==
  /\ LowerCase \in [Characters -> Characters]
  /\ \A c \in Characters : LowerCase[LowerCase[c]] = LowerCase[c]

Words == {w \in Seq(Characters) : w # <<>>}
FullNames == Seq(Words)
Addresses == [local : Words, domain : Words, tld : Seq(Characters)]

\* value.strip().lower()
Lower(w) == [i \in DOMAIN w |-> LowerCase[w[i]]]

HashedName(name) == [i \in DOMAIN name |-> Lower(name[i])]

HashedEmail(email) == [local |-> Lower(email.local), domain |-> Lower(email.domain),
                       tld |-> Lower(email.tld)]

\* The first character and a star for every other one.
MaskWord(w) == [i \in DOMAIN w |-> IF i = 1 THEN w[1] ELSE Star]

MaskName(name) == [i \in DOMAIN name |-> MaskWord(name[i])]

\* The first and the last character; of two the first, of one that and a star.
MaskEnds(w) == IF Len(w) <= 2 THEN <<w[1], Star>>
               ELSE [i \in DOMAIN w |-> IF i \in {1, Len(w)} THEN w[i] ELSE Star]

MaskEmail(email) == [local |-> MaskEnds(email.local), domain |-> MaskEnds(email.domain),
                     tld |-> email.tld]
=============================================================================
