--------------------------- MODULE RegexBuilder ---------------------------
(***************************************************************************)
(* The pure library behind the visual rule builder of the console,         *)
(* webui/src/utils/regexBuilder.ts, and what the expressions it builds     *)
(* find in a text.  A text is a sequence of characters, a pattern is a     *)
(* sequence of atoms with a flag for letter case.  Escaping is abstracted: *)
(* a character of the user's is the literal of that character.             *)
(***************************************************************************)
EXTENDS Integers, Sequences, CommonValues

(***************************************************************************)
(* Characters: two letters in both cases, digits, a meta character, a      *)
(* separator, a space and a Chinese character.                             *)
(***************************************************************************)
Digit == {"1", "5"}
AsciiWord == Digit \cup {"a", "A", "b", "B", "x", "X"}
CJK == {"zh"}
Space == {" "}
Lower(c) == CASE c = "A" -> "a" [] c = "B" -> "b" [] c = "X" -> "x" [] OTHER -> c

Times(c, n) == [i \in 1..n |-> c]

\* String.prototype.trim
Trim(t) ==
    LET solid == {i \in DOMAIN t : t[i] \notin Space}
        first == CHOOSE i \in solid : \A j \in solid : i <= j
        last  == CHOOSE i \in solid : \A j \in solid : j <= i
    IN IF solid = {} THEN <<>> ELSE SubSeq(t, first, last)

(***************************************************************************)
(* Patterns.                                                               *)
(***************************************************************************)
Lit(c) == [atom |-> "lit", char |-> c]
Edge == [atom |-> "edge"]                                 \* \b
Gap(n) == [atom |-> "gap", least |-> n]                   \* \s* or \s+
OneOf(chars, lo, hi, sep) == [atom |-> "class", from |-> chars, lo |-> lo, hi |-> hi, sep |-> sep]
Digits(lo, hi) == OneOf(Digit, lo, hi, FALSE)
Mail == [atom |-> "mail"]

Positions(t) == 1..Len(t) + 1

\* The positions one step leads to from those in S.
Onward(hop, S) == UNION {hop[i] : i \in S}

\* The positions reached from those in S by the steps hops[1], ..., hops[k], for
\* each k up to n.
Reached(S, hops, n) ==
    LET reach[k \in 0..n] == IF k = 0 THEN S ELSE Onward(hops[k], reach[k - 1])
    IN reach

At(t, i, chars) == i \in DOMAIN t /\ t[i] \in chars

\* One character of a class, which a separator may stand before.
OneOfAfter(a, t, i) ==
    (IF At(t, i, a.from) THEN {i + 1} ELSE {})
    \cup (IF a.sep /\ At(t, i, {" ", "-"}) /\ At(t, i + 1, a.from) THEN {i + 2} ELSE {})

\* The positions after one atom that starts at position i of text t.
After(a, t, i, ci) ==
    CASE a.atom = "lit" ->
            IF i \in DOMAIN t /\ (t[i] = a.char \/ (ci /\ Lower(t[i]) = Lower(a.char)))
            THEN {i + 1} ELSE {}
      [] a.atom = "edge" ->
            IF At(t, i - 1, AsciiWord) # At(t, i, AsciiWord) THEN {i} ELSE {}
      [] a.atom = "gap" ->
            {j \in i + a.least..Len(t) + 1 : \A k \in i..j - 1 : t[k] \in Space}
      [] a.atom = "class" ->
            LET hops == [n \in 1..a.hi |-> [k \in Positions(t) |-> OneOfAfter(a, t, k)]]
            IN UNION {Reached({i}, hops, a.hi)[n] : n \in a.lo..a.hi}
      [] a.atom = "mail" ->
            {j \in i + 6..Len(t) + 1 :
                \E m, d \in i + 1..j - 3 :
                    /\ m + 1 < d /\ t[m] = "@" /\ t[d] = "."
                    /\ \A k \in i..m - 1 : t[k] \in AsciiWord \cup {".", "-"}
                    /\ \A k \in m + 1..d - 1 : t[k] \in AsciiWord \cup {".", "-"}
                    /\ \A k \in d + 1..j - 1 : t[k] \in AsciiWord \ Digit}

\* The positions after a match of the atoms that starts at position i.
Ends(atoms, t, i, ci) ==
    LET hops == [k \in DOMAIN atoms |-> [j \in Positions(t) |-> After(atoms[k], t, j, ci)]]
    IN Reached({i}, hops, Len(atoms))[Len(atoms)]

Finds(p, t) == \E i \in Positions(t) : Ends(p.atoms, t, i, p.ignoreCase) # {}

(***************************************************************************)
(* The builders.                                                           *)
(***************************************************************************)
Plain(atoms) == [atoms |-> atoms, ignoreCase |-> FALSE]

defaultTemplateState ==
    [wholeWord |-> TRUE, ignoreCase |-> FALSE, allowSeparators |-> FALSE,
     looseWhitespace |-> FALSE, prefix |-> <<>>, phrase |-> <<>>, minLen |-> 6, maxLen |-> 12]

\* An emptied number field counts as six; a length is from 1 to 99.
clampLen(n) == IF n = None THEN 6 ELSE IF n < 1 THEN 1 ELSE IF n > 99 THEN 99 ELSE n

digitRange(s) ==
    LET lo == clampLen(s.minLen)
        hi == clampLen(s.maxLen)
    IN IF lo <= hi THEN Digits(lo, hi) ELSE Digits(hi, lo)

wrapWord(core, leadWord, tailWord) ==
    (IF leadWord THEN <<Edge>> ELSE <<>>) \o core \o (IF tailWord THEN <<Edge>> ELSE <<>>)

Literal(t) == [i \in DOMAIN t |-> Lit(t[i])]

buildPhone(s) ==
    LET rest == OneOf(Digit, 9, 9, s.allowSeparators)
        from3to9 == OneOf({"5"}, 1, 1, FALSE)
    IN Plain(wrapWord(<<Lit("1"), from3to9, rest>>, s.wholeWord, s.wholeWord))

buildIdcard(s) ==
    LET check == OneOf(Digit \cup {"X", "x"}, 1, 1, FALSE)
    IN Plain(wrapWord(<<Digits(17, 17), check>>, s.wholeWord, s.wholeWord))
buildBankcard(s) == Plain(wrapWord(<<Digits(16, 19)>>, s.wholeWord, s.wholeWord))
buildEmail == Plain(<<Mail>>)
buildDigits(s) == Plain(wrapWord(<<digitRange(s)>>, s.wholeWord, s.wholeWord))

\* The next builder without its look at the first character.
buildPrefixDigitsEdged(s) ==
    LET prefix == Trim(s.prefix)
    IN IF prefix = <<>> THEN None
       ELSE [atoms |-> wrapWord(Literal(prefix) \o <<digitRange(s)>>, s.wholeWord, s.wholeWord),
             ignoreCase |-> s.ignoreCase]

buildPrefixDigits(s) ==
    LET prefix == Trim(s.prefix)
    IN IF prefix = <<>> THEN None
       ELSE [atoms |-> wrapWord(Literal(prefix) \o <<digitRange(s)>>,
                                s.wholeWord /\ prefix[1] \in AsciiWord, s.wholeWord),
             ignoreCase |-> s.ignoreCase]

\* A flattened sequence of sequences.
Concat(ss) ==
    LET join[k \in 0..Len(ss)] == IF k = 0 THEN <<>> ELSE join[k - 1] \o ss[k]
    IN join[Len(ss)]

\* The body of a phrase: by its characters when it has a Chinese one, with
\* room between two Chinese neighbours; by its words otherwise.
PhraseBody(phrase, loose) ==
    LET blank(i) == phrase[i] \in Space
        hasCJK == \E i \in DOMAIN phrase : phrase[i] \in CJK
        byChar(i) == IF At(phrase, i, CJK) /\ At(phrase, i + 1, CJK)
                     THEN <<Lit(phrase[i]), Gap(0)>> ELSE <<Lit(phrase[i])>>
        byWord(i) == IF ~blank(i) THEN <<Lit(phrase[i])>>
                     ELSE IF blank(i - 1) THEN <<>> ELSE <<Gap(1)>>
    IN IF ~loose THEN Literal(phrase)
       ELSE Concat([i \in DOMAIN phrase |-> IF hasCJK THEN byChar(i) ELSE byWord(i)])

buildPhrase(s) ==
    LET phrase == Trim(s.phrase)
        singleAsciiWord == \A i \in DOMAIN phrase : phrase[i] \in AsciiWord
        edged == s.wholeWord /\ singleAsciiWord
    IN IF phrase = <<>> THEN None
       ELSE [atoms |-> wrapWord(PhraseBody(phrase, s.looseWhitespace), edged, edged),
             ignoreCase |-> s.ignoreCase]

(***************************************************************************)
(* The catalogue.                                                          *)
(***************************************************************************)
TemplateIds == {"phone", "idcard", "bankcard", "email", "digits", "prefix-digits", "phrase"}
RuleKinds == {"pii", "output", "injection", "whitelist"}

\* The templates on offer for a kind of rule, and the kind's only one.
templatesFor(kind) == IF kind \in {"pii", "output"} THEN TemplateIds ELSE {"phrase"}

freshState(id) ==
    CASE id = "prefix-digits" -> [defaultTemplateState EXCEPT !.ignoreCase = TRUE, !.minLen = 4, !.maxLen = 8]
      [] id = "phrase" -> [defaultTemplateState EXCEPT !.wholeWord = FALSE]
      [] OTHER -> defaultTemplateState

\* What each template's dialog lets its user set.
options(id) ==
    CASE id = "phone" -> {"wholeWord", "allowSeparators"}
      [] id \in {"idcard", "bankcard"} -> {"wholeWord"}
      [] id = "email" -> {}
      [] id = "digits" -> {"minLen", "maxLen", "wholeWord"}
      [] id = "prefix-digits" -> {"prefix", "minLen", "maxLen", "ignoreCase", "wholeWord"}
      [] id = "phrase" -> {"phrase", "ignoreCase", "looseWhitespace", "wholeWord"}

build(id, s) ==
    CASE id = "phone" -> buildPhone(s)
      [] id = "idcard" -> buildIdcard(s)
      [] id = "bankcard" -> buildBankcard(s)
      [] id = "email" -> buildEmail
      [] id = "digits" -> buildDigits(s)
      [] id = "prefix-digits" -> buildPrefixDigits(s)
      [] id = "phrase" -> buildPhrase(s)

\* The replacement a template proposes; three of them share one.
defaultReplacement(id) == IF id \in {"digits", "prefix-digits", "phrase"} THEN "hidden" ELSE id

(***************************************************************************)
(* What the options mean, by texts that the built pattern must find or     *)
(* must pass over.                                                         *)
(***************************************************************************)
Prefixes == {<<>>, <<"a", "B">>, <<" ", "b", "1">>, <<"zh">>, <<"zh", "a">>, <<".">>, <<"1">>}
Phrases == {<<>>, <<"zh", "zh">>, <<"zh">>, <<"a", "B">>, <<" ", "a", " ", "b">>, <<"a", ".">>,
            <<"zh", ".", "zh">>, <<"a", " ", " ", "b", " ", "1">>}

Flip(t) == [i \in DOMAIN t |-> CASE t[i] = "a" -> "A" [] t[i] = "A" -> "a"
                                 [] t[i] = "b" -> "B" [] t[i] = "B" -> "b" [] OTHER -> t[i]]
Letters(t) == Flip(t) # t
Single(t) == \A i \in DOMAIN t : t[i] \in AsciiWord
InChinese(t) == <<"zh">> \o t \o <<"zh">>
InLetters(t) == <<"b">> \o t \o <<"b">>
Spread(t, sep) == Concat([i \in DOMAIN t |-> IF i = Len(t) THEN <<t[i]>> ELSE <<t[i], sep>>])
Doubled(t) == Concat([i \in DOMAIN t |-> IF t[i] \in Space THEN <<" ", " ">> ELSE <<t[i]>>])
Once(t) == Concat([i \in DOMAIN t |-> IF At(t, i, Space) /\ At(t, i - 1, Space) THEN <<>> ELSE <<t[i]>>])
Joined(t) == SelectSeq(t, LAMBDA c : c \notin Space)

Probe(text, found) == [text |-> text, found |-> found]

\* A number of n digits is found when it is long enough and, as a whole word,
\* not too long.
NumberProbes(lead, s, lens, lo, hi) ==
    {Probe(InChinese(lead \o Times("5", n)), n >= lo /\ (s.wholeWord => n <= hi)) : n \in lens}

Number == <<"1">> \o Times("5", 10)

PhoneProbes(s) ==
    {Probe(InChinese(Number), TRUE), Probe(Number \o <<"1">>, ~s.wholeWord),
     Probe(<<"1">> \o Times("5", 9), FALSE),
     Probe(Spread(Number, "-"), FALSE),
     Probe(<<"1">> \o Spread(Times("5", 10), "-"), s.allowSeparators)}

IdcardProbes(s) ==
    {Probe(InChinese(Times("1", 17) \o <<"x">>), TRUE), Probe(Times("1", 18), TRUE),
     Probe(Times("1", 16) \o <<"X">>, FALSE), Probe(Times("1", 19), ~s.wholeWord),
     Probe(InLetters(Times("1", 18)), ~s.wholeWord)}

EmailProbes ==
    {Probe(InChinese(<<"a", ".", "b", "@", "b", "-", "1", ".", "a", "b">>), TRUE),
     Probe(<<"a", "@", "b", ".", "a">>, FALSE), Probe(<<"a", ".", "b", "a">>, FALSE)}

Least(a, b) == IF a <= b THEN a ELSE b
Most(a, b) == IF a <= b THEN b ELSE a

\* A prefix as a whole word begins one when it begins with a word character.
PrefixProbes(s) ==
    LET p == Trim(s.prefix)
        lo == Least(s.minLen, s.maxLen)
        hi == Most(s.minLen, s.maxLen)
        one == p \o Times("5", lo)
    IN NumberProbes(p, s, 1..hi + 1, lo, hi)
       \cup {Probe(<<"b">> \o one, ~(s.wholeWord /\ p[1] \in AsciiWord)),
             Probe(Flip(one), s.ignoreCase \/ ~Letters(p))}

\* A phrase is found among Chinese text and, unless it is one whole word, in
\* letters; with the space option also when its characters, or its words, are
\* apart, but never when its words run together.
PhraseProbes(s) ==
    LET p == Trim(s.phrase)
        chinese == \A i \in DOMAIN p : p[i] \in CJK
        words == p # Joined(p)
    IN {Probe(InChinese(p), TRUE),
        Probe(InLetters(p), ~(s.wholeWord /\ Single(p))),
        Probe(Flip(p), s.ignoreCase \/ ~Letters(p))}
       \cup (IF chinese /\ Len(p) > 1
             THEN {Probe(Spread(p, " "), s.looseWhitespace), Probe(Spread(p, "."), FALSE)} ELSE {})
       \cup (IF words
             THEN {Probe(Joined(p), FALSE), Probe(Once(p), s.looseWhitespace \/ Once(p) = p),
                   Probe(Doubled(Doubled(p)), s.looseWhitespace)} ELSE {})

Probes(id, s) ==
    CASE id = "phone" -> PhoneProbes(s)
      [] id = "idcard" -> IdcardProbes(s)
      [] id = "bankcard" -> NumberProbes(<<>>, s, {15, 16, 19, 20}, 16, 19)
      [] id = "email" -> EmailProbes
      [] id = "digits" -> NumberProbes(<<>>, s, 1..8, Least(s.minLen, s.maxLen), Most(s.minLen, s.maxLen))
      [] id = "prefix-digits" -> PrefixProbes(s)
      [] id = "phrase" -> PhraseProbes(s)

\* The settings a user can reach in a template: the rest are its defaults.
Settings(id) ==
    {s \in [wholeWord : BOOLEAN, ignoreCase : BOOLEAN, allowSeparators : BOOLEAN,
            looseWhitespace : BOOLEAN, prefix : Prefixes, phrase : Phrases,
            minLen : {2, 4, 6}, maxLen : {3, 8, 12}] :
        \A o \in DOMAIN s \ options(id) : s[o] = freshState(id)[o]}

\* Whether, however its options are set, the pattern a template builds finds
\* what the options promise and nothing that they exclude.
Sound == [id \in TemplateIds |->
    \A s \in Settings(id) :
        LET p == build(id, s)
        IN p # None => \A probe \in Probes(id, s) : Finds(p, probe.text) <=> probe.found]
=============================================================================
