--------------------------- MODULE AssemblyProofs ---------------------------
(***************************************************************************)
(* Proofs about Assembly, for answers of any length, every way to cut them *)
(* into chunks, any fragments, options and limits.                         *)
(*                                                                         *)
(* The invariant relates the assembler to the answer as if it had come in  *)
(* one piece: what is given out and what is held are its split (Splits),   *)
(* the calls kept are its fragments, joined (Gathered), and an answer is   *)
(* given up only when as a whole it exceeds a bound (Over, Useless).  What *)
(* is held is always the longest end of the text that may begin the tag    *)
(* (Scanned): that is why a tag cut anywhere is found where it begins.     *)
(***************************************************************************)
EXTENDS Assembly, FiniteSetTheorems, NaturalsInduction, SequenceTheorems, WellFoundedInduction,
        TLAPS

(* Induction, and what a list makes of something                            *)

\* Induction: what holds of 0 and goes on holds of every number.
LEMMA NatInclusion ==
    ASSUME NEW S, 0 \in S, \A n \in Nat : n \in S => n + 1 \in S
    PROVE  Nat \subseteq S
<1> SUFFICES ASSUME Nat \ S # {} PROVE FALSE
  OBVIOUS
<1> DEFINE R == OpToRel(<, Nat)
<1>1. IsWellFoundedOn(R, Nat)
  BY NatLessThanWellFounded
<1>2. \A x, y \in Nat : <<x, y>> \in R <=> x < y
  BY DEF OpToRel
<1> HIDE DEF R
<1>3. PICK n \in Nat \ S : \A m \in Nat \ S : ~(<<m, n>> \in R)
  BY <1>1, WFMin
<1>4. CASE n = 0
  BY <1>4
<1>5. CASE n # 0
  <2>1. n - 1 \in Nat /\ n - 1 < n /\ (n - 1) + 1 = n BY <1>5
  <2>2. n - 1 \in S BY <1>2, <1>3, <2>1
  <2>3. QED BY <2>1, <2>2
<1>6. QED BY <1>4, <1>5

\* AddFragment under any options.
AddUnder(o, a, fragment) ==
    LET i == fragment.index
        known == i \in DOMAIN a.parts
        new == Join(IF known THEN a.parts[i] ELSE NoCall, fragment)
        counted == [a EXCEPT !.textBytes = @ + Len(fragment.arguments)]
    IN IF a.failed # "no" THEN a
       ELSE IF i < 0 THEN ToolsFail(counted, "malformed")
       ELSE IF \/ ~known /\ Cardinality(DOMAIN a.parts) >= o.maxToolCalls
               \/ Len(new.label) > MaxToolBytes \/ Len(new.arguments) > MaxToolBytes
            THEN ToolsFail(counted, "limit")
       ELSE [counted EXCEPT !.parts = Put(a.parts, i, new)]

\* The steps that a list is gone through with, by name.
StepOf(kind, acc, x, with) ==
    CASE kind = "add" -> AddUnder(with, acc, x)
      [] kind = "join" -> IF x.index = with THEN Join(acc, x) ELSE acc
      [] kind = "size" -> acc + Len(x.arguments)
      [] kind = "letters" -> IF x = "r" THEN acc ELSE Append(acc, x)
StepsOf(kind, base, list, with, n, f) ==
    f[0] = base /\ \A k \in 1 .. n : f[k] = StepOf(kind, f[k - 1], list[k], with)
Upto(f, n) == f = [k \in 0 .. n |-> f[k]]
Gone(kind, base, list, with) == Through(LAMBDA acc, x : StepOf(kind, acc, x, with), base, list)

\* The steps over a list exist.
LEMMA StepsExist ==
    ASSUME NEW kind, NEW base, NEW list, NEW with, NEW last \in Nat
    PROVE  \E f : StepsOf(kind, base, list, with, last, f) /\ Upto(f, last)
<1> DEFINE S == {n \in Nat : \E f : StepsOf(kind, base, list, with, n, f) /\ Upto(f, n)}
<1>1. 0 \in S
  <2> DEFINE f == [k \in 0 .. 0 |-> base]
  <2>1. StepsOf(kind, base, list, with, 0, f) /\ Upto(f, 0) BY DEF StepsOf, Upto
  <2>2. QED BY <2>1
<1>2. ASSUME NEW n \in Nat, n \in S PROVE n + 1 \in S
  <2>1. PICK f : StepsOf(kind, base, list, with, n, f) /\ Upto(f, n) BY <1>2
  <2> DEFINE new == StepOf(kind, f[n], list[n + 1], with)
             next == [k \in 0 .. n + 1 |-> IF k = n + 1 THEN new ELSE f[k]]
  <2> HIDE DEF new
  <2>2. next[0] = base BY <2>1 DEF StepsOf
  <2>3. ASSUME NEW k \in 1 .. n + 1 PROVE next[k] = StepOf(kind, next[k - 1], list[k], with)
    <3>1. CASE k = n + 1
      <4>1. next[k - 1] = f[n] /\ next[k] = new BY <3>1
      <4>2. QED BY <3>1, <4>1 DEF new
    <3>2. CASE k # n + 1
      <4>1. k \in 1 .. n /\ next[k] = f[k] /\ next[k - 1] = f[k - 1] BY <3>2
      <4>2. QED BY <2>1, <4>1 DEF StepsOf
    <3>3. QED BY <3>1, <3>2
  <2>4. Upto(next, n + 1) BY DEF Upto
  <2> HIDE DEF next
  <2>5. StepsOf(kind, base, list, with, n + 1, next) BY <2>2, <2>3 DEF StepsOf
  <2>6. QED BY <2>4, <2>5
<1> HIDE DEF S
<1>3. Nat \subseteq S BY <1>1, <1>2, NatInclusion
<1>4. last \in S BY <1>3
<1>5. QED BY <1>4 DEF S

\* They depend on the elements gone through alone.
LEMMA StepsUnique ==
    ASSUME NEW kind, NEW base, NEW list, NEW more, NEW with, NEW last \in Nat,
           \A k \in 1 .. last : more[k] = list[k],
           NEW f, StepsOf(kind, base, list, with, last, f),
           NEW g, StepsOf(kind, base, more, with, last, g)
    PROVE  f[last] = g[last]
<1> DEFINE S == {n \in Nat : n <= last => f[n] = g[n]}
<1>1. 0 \in S BY DEF StepsOf
<1>2. ASSUME NEW n \in Nat, n \in S PROVE n + 1 \in S
  <2> SUFFICES ASSUME n + 1 <= last PROVE f[n + 1] = g[n + 1]
    OBVIOUS
  <2>1. n + 1 \in 1 .. last /\ (n + 1) - 1 = n /\ n <= last OBVIOUS
  <2>2. f[n + 1] = StepOf(kind, f[n], list[n + 1], with) BY <2>1 DEF StepsOf
  <2>3. g[n + 1] = StepOf(kind, g[n], more[n + 1], with) BY <2>1 DEF StepsOf
  <2>4. f[n] = g[n] /\ more[n + 1] = list[n + 1] BY <1>2, <2>1
  <2>5. QED BY <2>2, <2>3, <2>4
<1> HIDE DEF S
<1>3. Nat \subseteq S BY <1>1, <1>2, NatInclusion
<1>4. last \in S BY <1>3
<1>5. QED BY <1>4 DEF S

\* Through goes by steps.
LEMMA GoneByStep ==
    ASSUME NEW kind, NEW base, NEW list, Len(list) \in Nat, NEW with
    PROVE  \E f : /\ StepsOf(kind, base, list, with, Len(list), f)
                  /\ Gone(kind, base, list, with) = f[Len(list)]
<1> DEFINE last == Len(list)
           body(g, n) == IF n = 0 THEN base ELSE StepOf(kind, g[n - 1], list[n], with)
           f == CHOOSE g : g = [n \in 0 .. last |-> body(g, n)]
<1>1. Gone(kind, base, list, with) = f[last] BY DEF Gone, Through
<1>2. last \in Nat OBVIOUS
<1> HIDE DEF last
<1>3. PICK g : StepsOf(kind, base, list, with, last, g) /\ Upto(g, last)
  BY <1>2, StepsExist
<1>4. \E h : h = [n \in 0 .. last |-> body(h, n)]
  <2>1. \A n \in 0 .. last : g[n] = body(g, n)
    <3> TAKE n \in 0 .. last
    <3>1. CASE n = 0 BY <1>3, <3>1 DEF StepsOf
    <3>2. CASE n # 0
      <4>1. n \in 1 .. last BY <1>2, <3>2
      <4>2. QED BY <1>3, <3>2, <4>1 DEF StepsOf
    <3>3. QED BY <3>1, <3>2
  <2> HIDE DEF body
  <2>2. g = [n \in 0 .. last |-> body(g, n)] BY <1>3, <2>1 DEF Upto
  <2>3. QED BY <2>2
<1>5. f = [n \in 0 .. last |-> body(f, n)] BY <1>4
<1> HIDE DEF f
<1>6. ASSUME NEW n \in 0 .. last PROVE f[n] = body(f, n)
  <2> HIDE DEF body
  <2>1. QED BY <1>5
<1>7. StepsOf(kind, base, list, with, last, f)
  <2>1. f[0] = base BY <1>2, <1>6
  <2>2. \A n \in 1 .. last : n \in 0 .. last /\ n # 0 BY <1>2
  <2>3. QED BY <1>6, <2>1, <2>2 DEF StepsOf
<1>8. QED BY <1>1, <1>7 DEF last

\* Nothing makes nothing of it, and one more element one more step.
LEMMA GoneNowhere ==
    ASSUME NEW kind, NEW base, NEW with
    PROVE  Gone(kind, base, <<>>, with) = base
<1>1. Len(<<>>) = 0 OBVIOUS
<1>2. PICK f : StepsOf(kind, base, <<>>, with, Len(<<>>), f) /\ Gone(kind, base, <<>>, with) = f[Len(<<>>)]
  BY <1>1, GoneByStep
<1>3. QED BY <1>1, <1>2 DEF StepsOf

LEMMA GoneFurther ==
    ASSUME NEW kind, NEW base, NEW S, NEW list \in Seq(S), NEW x \in S, NEW with
    PROVE  Gone(kind, base, Append(list, x), with) = StepOf(kind, Gone(kind, base, list, with), x, with)
<1> DEFINE more == Append(list, x)
           last == Len(list)
<1>1. /\ last \in Nat /\ Len(more) = last + 1 /\ more[last + 1] = x
      /\ \A k \in 1 .. last : more[k] = list[k]
  BY AppendProperties, LenProperties
<1> HIDE DEF more
<1>2. PICK f : StepsOf(kind, base, list, with, last, f) /\ Gone(kind, base, list, with) = f[last]
  BY <1>1, GoneByStep
<1> HIDE DEF last
<1>3. Len(more) \in Nat BY <1>1
<1>4. PICK g : StepsOf(kind, base, more, with, Len(more), g) /\ Gone(kind, base, more, with) = g[Len(more)]
  BY <1>3, GoneByStep
<1>5. StepsOf(kind, base, more, with, last, g) BY <1>1, <1>4 DEF StepsOf
<1>6. f[last] = g[last] BY <1>1, <1>2, <1>5, StepsUnique
<1>7. last + 1 \in 1 .. last + 1 /\ (last + 1) - 1 = last BY <1>1
<1>8. g[last + 1] = StepOf(kind, g[last], x, with) BY <1>1, <1>4, <1>7 DEF StepsOf
<1>9. QED BY <1>1, <1>2, <1>4, <1>6, <1>8 DEF more

AllAdded(o, a, list) == Through(LAMBDA acc, x : AddUnder(o, acc, x), a, list)

\* The four uses.
LEMMA Uses ==
    /\ \A a, list : AddAll(a, list) = Gone("add", a, list, options)
    /\ \A i : Joined(i) = Gone("join", NoCall, fed.parts, i)
    /\ Split = Gone("letters", <<>>, assembler.thinking, 0)
    /\ TextSize = Len(WholeContent) + Len(WholeThinking) + fed.reasoning + Gone("size", 0, fed.parts, 0)
<1>1. \A a, list : AddAll(a, list) = Gone("add", a, list, options)
  <2>1. \A a, list : AddAll(a, list) = AllAdded(options, a, list)
    BY DEF AddAll, AddFragment, AllAdded, AddUnder, Through
  <2>2. \A a, list : Gone("add", a, list, options) = AllAdded(options, a, list)
    BY DEF Gone, AllAdded, Through, StepOf
  <2>3. QED BY <2>1, <2>2
<1>2. \A i : Joined(i) = Gone("join", NoCall, fed.parts, i)
  BY DEF Joined, Gone, Through, StepOf
<1>3. Split = Gone("letters", <<>>, assembler.thinking, 0)
  BY DEF Split, Gone, Through, StepOf
<1>4. TextSize = Len(WholeContent) + Len(WholeThinking) + fed.reasoning + Gone("size", 0, fed.parts, 0)
  BY DEF TextSize, Gone, Through, StepOf
<1>5. QED BY <1>1, <1>2, <1>3, <1>4

----------------------------------------------------------------------------
(* Texts                                                                    *)

\* Both parts of a sequence that is cut make it up.
LEMMA CutAt ==
    ASSUME NEW S, NEW s \in Seq(S), NEW n \in 0 .. Len(s)
    PROVE  /\ SubSeq(s, 1, n) \in Seq(S) /\ Len(SubSeq(s, 1, n)) = n
           /\ SubSeq(s, n + 1, Len(s)) \in Seq(S) /\ Len(SubSeq(s, n + 1, Len(s))) = Len(s) - n
           /\ SubSeq(s, 1, n) \o SubSeq(s, n + 1, Len(s)) = s
<1>1. Len(s) \in Nat /\ \A i \in 1 .. Len(s) : s[i] \in S BY LenProperties, ElementOfSeq
<1>2. \A i \in 1 .. n : s[i] \in S BY <1>1
<1>3. \A i \in n + 1 .. Len(s) : s[i] \in S BY <1>1
<1>4. SubSeq(s, 1, n) \in Seq(S) /\ Len(SubSeq(s, 1, n)) = n
  <2>1. 1 \in Int /\ n \in Int BY <1>1
  <2>2. /\ SubSeq(s, 1, n) \in Seq(S)
        /\ Len(SubSeq(s, 1, n)) = IF 1 <= n THEN n - 1 + 1 ELSE 0
    BY <1>2, <2>1, SubSeqProperties
  <2>3. QED BY <1>1, <2>2
<1>5. SubSeq(s, n + 1, Len(s)) \in Seq(S) /\ Len(SubSeq(s, n + 1, Len(s))) = Len(s) - n
  <2>1. n + 1 \in Int /\ Len(s) \in Int BY <1>1
  <2>2. /\ SubSeq(s, n + 1, Len(s)) \in Seq(S)
        /\ Len(SubSeq(s, n + 1, Len(s))) = IF n + 1 <= Len(s) THEN Len(s) - (n + 1) + 1 ELSE 0
    BY <1>3, <2>1, SubSeqProperties
  <2>3. QED BY <1>1, <2>2
<1>6. SubSeq(s, 1, n) \o SubSeq(s, n + 1, Len(s)) = s
  <2>1. 1 \in 1 .. Len(s) + 1 /\ n \in 1 - 1 .. Len(s) /\ Len(s) \in n .. Len(s) BY <1>1
  <2>2. SubSeq(s, 1, n) \o SubSeq(s, n + 1, Len(s)) = SubSeq(s, 1, Len(s))
    BY <2>1, ConcatAdjacentSubSeq
  <2>3. QED BY <2>2, SubSeqFull
<1>7. QED BY <1>4, <1>5, <1>6

\* Two sequences put together can be cut again.
LEMMA CutBack ==
    ASSUME NEW S, NEW s \in Seq(S), NEW t \in Seq(S)
    PROVE  /\ SubSeq(s \o t, 1, Len(s)) = s
           /\ SubSeq(s \o t, Len(s) + 1, Len(s \o t)) = t
           /\ IsPrefix(s, s \o t)
<1> DEFINE u == s \o t
           m == Len(s)
           n == Len(t)
<1>1. m \in Nat /\ n \in Nat BY LenProperties
<1>2. /\ u \in Seq(S) /\ Len(u) = m + n
      /\ \A i \in 1 .. m + n : u[i] = IF i <= m THEN s[i] ELSE t[i - m]
  BY ConcatProperties
<1>3. m \in 0 .. Len(u) BY <1>1, <1>2
<1> DEFINE a == SubSeq(u, 1, m)
           b == SubSeq(u, m + 1, Len(u))
<1>4. a \in Seq(S) /\ Len(a) = m /\ b \in Seq(S) /\ Len(b) = n
  BY <1>1, <1>2, <1>3, CutAt
<1>5. \A i \in 1 .. m : a[i] = s[i]
  <2>1. \A i \in 1 .. m : u[i] \in S BY <1>1, <1>2, ElementOfSeq
  <2>2. \A i \in 1 .. m - 1 + 1 : a[i] = u[1 + i - 1]
    BY <1>1, <2>1, SubSeqProperties
  <2>3. QED BY <1>1, <1>2, <2>2
<1>6. \A i \in 1 .. n : b[i] = t[i]
  <2>1. \A i \in m + 1 .. Len(u) : u[i] \in S BY <1>1, <1>2, ElementOfSeq
  <2>2. m + 1 \in Int /\ Len(u) \in Int BY <1>1, <1>2
  <2>3. \A i \in 1 .. Len(u) - (m + 1) + 1 : b[i] = u[m + 1 + i - 1]
    BY <2>1, <2>2, SubSeqProperties
  <2> HIDE DEF b, u
  <2>4. ASSUME NEW i \in 1 .. n PROVE b[i] = t[i]
    <3>1. i \in 1 .. Len(u) - (m + 1) + 1 /\ m + 1 + i - 1 = m + i BY <1>1, <1>2
    <3>2. m + i \in 1 .. m + n /\ ~(m + i <= m) /\ (m + i) - m = i BY <1>1
    <3>3. u[m + i] = t[i] BY <1>2, <3>2
    <3>4. QED BY <2>3, <3>1, <3>3
  <2>5. QED BY <2>4
<1> HIDE DEF a, b, u, m, n
<1>7. a = s
  <2>1. Len(s) = m BY DEF m
  <2>2. QED BY <1>4, <1>5, <2>1, SeqEqual
<1>8. b = t
  <2>1. Len(t) = n BY DEF n
  <2>2. QED BY <1>4, <1>6, <2>1, SeqEqual
<1>9. IsPrefix(s, u)
  <2>1. Len(s) <= Len(u) BY <1>1, <1>2 DEF m
  <2>2. SubSeq(s, 1, Len(s)) = s BY SubSeqFull
  <2>3. SubSeq(u, 1, Len(s)) = s BY <1>7 DEF a, m
  <2>4. QED BY <2>1, <2>2, <2>3 DEF IsPrefix
<1>10. QED BY <1>7, <1>8, <1>9 DEF a, b, u, m

\* A prefix is continued by something.
LEMMA PrefixBack ==
    ASSUME NEW S, NEW s \in Seq(S), NEW u \in Seq(S), IsPrefix(s, u)
    PROVE  Len(s) <= Len(u) /\ \E t \in Seq(S) : u = s \o t
<1>1. Len(s) <= Len(u) /\ SubSeq(s, 1, Len(s)) = SubSeq(u, 1, Len(s)) BY DEF IsPrefix
<1>2. SubSeq(s, 1, Len(s)) = s BY SubSeqFull
<1>3. Len(s) \in 0 .. Len(u) BY <1>1, LenProperties
<1> DEFINE n == Len(s)
           t == SubSeq(u, n + 1, Len(u))
<1>4. n \in 0 .. Len(u) BY <1>3
<1> HIDE DEF n
<1>5. t \in Seq(S) /\ SubSeq(u, 1, n) \o t = u BY <1>4, CutAt
<1>6. QED BY <1>1, <1>2, <1>5 DEF n

----------------------------------------------------------------------------
(* Looking for a tag                                                        *)

Tags == {OpenTag, CloseTag}

LEMMA TagFacts ==
    ASSUME NEW tag \in Tags
    PROVE  tag \in Seq(Letters) /\ Len(tag) \in {2, 3}
<1>1. OpenTag \in Seq(Letters) /\ Len(OpenTag) = 2 BY DEF OpenTag, Letters
<1>2. CloseTag \in Seq(Letters) /\ Len(CloseTag) = 3 BY DEF CloseTag, Letters
<1>3. QED BY <1>1, <1>2 DEF Tags

\* A tag begins at a place of a text, or the text ends with its first n letters.
TagAt(text, tag, i) ==
    i \in 1 .. Len(text) - Len(tag) + 1 /\ \A j \in 1 .. Len(tag) : text[i + j - 1] = tag[j]
EndsWith(text, tag, n) ==
    n <= Len(text) /\ \A j \in 1 .. n : text[Len(text) - n + j] = tag[j]
NoTag(text, tag) == \A i \in Nat : ~TagAt(text, tag, i)

\* Where Find looks is where the letters of the tag are.
LEMMA PlacesOfTag ==
    ASSUME NEW text \in Seq(Letters), NEW tag \in Tags, NEW i \in 1 .. Len(text) - Len(tag) + 1
    PROVE  SubSeq(text, i, i + Len(tag) - 1) = tag <=> TagAt(text, tag, i)
<1> DEFINE n == Len(tag)
           last == i + Len(tag) - 1
           s == SubSeq(text, i, last)
<1>1. tag \in Seq(Letters) /\ n \in {2, 3} /\ Len(text) \in Nat /\ i \in 1 .. Len(text) - n + 1
  BY TagFacts, LenProperties
<1> HIDE DEF n
<1>2. i \in Int /\ last \in Int /\ i <= last /\ last <= Len(text) /\ last - i + 1 = n
      /\ last = i + n - 1 /\ n \in Nat
  <2>1. last = i + n - 1 BY DEF n
  <2>2. QED BY <1>1, <2>1
<1> HIDE DEF last
<1>3. \A k \in i .. last : text[k] \in Letters BY <1>1, <1>2, ElementOfSeq
<1>4. s \in Seq(Letters) /\ Len(s) = n /\ \A j \in 1 .. n : s[j] = text[i + j - 1]
  <2>1. /\ s \in Seq(Letters)
        /\ Len(s) = IF i <= last THEN last - i + 1 ELSE 0
        /\ \A j \in 1 .. last - i + 1 : s[j] = text[i + j - 1]
    BY <1>2, <1>3, SubSeqProperties
  <2>2. QED BY <1>2, <2>1
<1> HIDE DEF s
<1>5. ASSUME TagAt(text, tag, i) PROVE s = tag
  <2>1. \A j \in 1 .. n : s[j] = tag[j] BY <1>4, <1>5 DEF TagAt, n
  <2>2. QED BY <1>1, <1>4, <2>1, SeqEqual DEF n
<1>6. ASSUME s = tag PROVE TagAt(text, tag, i)
  BY <1>4, <1>6 DEF TagAt, n
<1>7. QED BY <1>5, <1>6 DEF s, last

\* Min is the least number of a set.
LEMMA Least ==
    ASSUME NEW S \in SUBSET Nat, S # {}
    PROVE  Min(S) \in S /\ \A m \in S : Min(S) <= m
<1> DEFINE R == OpToRel(<, Nat)
<1>1. IsWellFoundedOn(R, Nat) BY NatLessThanWellFounded
<1>2. \A x, y \in Nat : <<x, y>> \in R <=> x < y BY DEF OpToRel
<1> HIDE DEF R
<1>3. PICK n \in S : \A m \in S : ~(<<m, n>> \in R) BY <1>1, WFMin
<1>4. \A m \in S : n <= m
  <2> TAKE m \in S
  <2>1. m \in Nat /\ n \in Nat /\ ~(m < n) BY <1>2, <1>3
  <2>2. QED BY <2>1
<1>5. QED BY <1>4 DEF Min

\* strings.Index finds the first place, and 0 if there is none.
LEMMA FindFacts ==
    ASSUME NEW text \in Seq(Letters), NEW tag \in Tags
    PROVE  /\ Find(text, tag) = 0 <=> NoTag(text, tag)
           /\ Find(text, tag) # 0 =>
                 /\ Find(text, tag) \in 1 .. Len(text) - Len(tag) + 1
                 /\ TagAt(text, tag, Find(text, tag))
                 /\ \A i \in Nat : TagAt(text, tag, i) => Find(text, tag) <= i
           /\ Find(text, tag) \in Nat
<1> DEFINE at == {i \in 1 .. Len(text) - Len(tag) + 1 : SubSeq(text, i, i + Len(tag) - 1) = tag}
           found == Find(text, tag)
<1>1. found = IF at = {} THEN 0 ELSE Min(at) BY DEF Find
<1>2. \A i : i \in at <=> TagAt(text, tag, i)
  <2> TAKE i
  <2>1. CASE i \in 1 .. Len(text) - Len(tag) + 1 BY <2>1, PlacesOfTag
  <2>2. CASE i \notin 1 .. Len(text) - Len(tag) + 1 BY <2>2 DEF TagAt
  <2>3. QED BY <2>1, <2>2
<1>3. at \in SUBSET Nat /\ 0 \notin at
  <2>1. Len(text) \in Nat /\ Len(tag) \in Nat BY TagFacts, LenProperties
  <2>2. QED BY <2>1
<1> HIDE DEF at, found
<1>4. CASE at = {}
  <2>1. NoTag(text, tag) BY <1>2, <1>4 DEF NoTag
  <2>2. found = 0 BY <1>1, <1>4
  <2>3. QED BY <2>1, <2>2 DEF found
<1>5. CASE at # {}
  <2>1. found \in at /\ \A i \in at : found <= i BY <1>1, <1>3, <1>5, Least
  <2>2. found \in Nat /\ found # 0 /\ TagAt(text, tag, found) BY <1>2, <1>3, <2>1
  <2>3. ~NoTag(text, tag) BY <2>2 DEF NoTag
  <2>4. found \in 1 .. Len(text) - Len(tag) + 1 BY <2>2 DEF TagAt
  <2>5. \A i \in Nat : TagAt(text, tag, i) => found <= i BY <1>2, <2>1
  <2>6. QED BY <2>2, <2>3, <2>4, <2>5 DEF found
<1>6. QED BY <1>4, <1>5

\* The first place is what it finds.
LEMMA FindFirst ==
    ASSUME NEW text \in Seq(Letters), NEW tag \in Tags, NEW i \in Nat, TagAt(text, tag, i),
           \A k \in Nat : TagAt(text, tag, k) => i <= k
    PROVE  Find(text, tag) = i /\ i # 0
<1> DEFINE found == Find(text, tag)
<1>1. /\ found = 0 <=> NoTag(text, tag)
      /\ found # 0 => TagAt(text, tag, found) /\ \A k \in Nat : TagAt(text, tag, k) => found <= k
      /\ found \in Nat
  BY FindFacts
<1>2. ~NoTag(text, tag) BY DEF NoTag
<1> HIDE DEF found
<1>3. found # 0 /\ found <= i /\ i <= found BY <1>1, <1>2
<1>4. QED BY <1>1, <1>3 DEF found

\* The longest end of a text that may begin a tag.
Beginnings(text, tag) == {n \in 0 .. Len(tag) - 1 : IsSuffix(SubSeq(tag, 1, n), text)}
Longest(p, text, tag) ==
    /\ p \in Seq(Letters) /\ Len(p) < Len(tag) /\ p = SubSeq(tag, 1, Len(p))
    /\ \A n \in 0 .. Len(tag) - 1 : EndsWith(text, tag, n) => n <= Len(p)

\* A beginning of the tag that the text ends with, letter by letter.
LEMMA EndOfText ==
    ASSUME NEW text \in Seq(Letters), NEW tag \in Tags, NEW n \in 0 .. Len(tag) - 1
    PROVE  IsSuffix(SubSeq(tag, 1, n), text) <=> EndsWith(text, tag, n)
<1> DEFINE p == SubSeq(tag, 1, n)
           m == Len(text)
<1>1. /\ p \in Seq(Letters) /\ Len(p) = n /\ n \in Nat /\ m \in Nat
      /\ \A j \in 1 .. n : p[j] = tag[j]
  <2>1. tag \in Seq(Letters) /\ Len(tag) \in Nat BY TagFacts
  <2>2. n \in 0 .. Len(tag) BY <2>1
  <2>3. p \in Seq(Letters) /\ Len(p) = n BY <2>1, <2>2, CutAt
  <2>4. \A i \in 1 .. n : tag[i] \in Letters BY <2>1, <2>2, ElementOfSeq
  <2>5. \A j \in 1 .. n - 1 + 1 : p[j] = tag[1 + j - 1] BY <2>1, <2>4, SubSeqProperties
  <2>6. m \in Nat BY LenProperties
  <2>7. QED BY <2>1, <2>2, <2>3, <2>5, <2>6
<1> HIDE DEF p
<1> DEFINE rp == Reverse(p)
           rt == Reverse(text)
<1>2. /\ rp \in Seq(Letters) /\ Len(rp) = n /\ \A j \in 1 .. n : rp[j] = tag[n - j + 1]
  <2>1. rp = [j \in 1 .. n |-> p[(n - j) + 1]] BY <1>1 DEF Reverse
  <2>2. \A j \in 1 .. n : (n - j) + 1 \in 1 .. n BY <1>1
  <2>3. \A j \in 1 .. n : p[j] \in Letters BY <1>1, ElementOfSeq DEF Letters
  <2> HIDE DEF rp
  <2>4. rp \in [1 .. n -> Letters] BY <2>1, <2>2, <2>3
  <2>5. rp \in Seq(Letters) BY <1>1, <2>4
  <2>6. Len(rp) = n BY <1>1, <2>4, <2>5
  <2>7. QED BY <1>1, <2>1, <2>2, <2>5, <2>6
<1>3. /\ rt \in Seq(Letters) /\ Len(rt) = m /\ \A j \in 1 .. m : rt[j] = text[m - j + 1]
  <2>1. rt = [j \in 1 .. m |-> text[(m - j) + 1]] BY DEF Reverse
  <2>2. \A j \in 1 .. m : (m - j) + 1 \in 1 .. m BY <1>1
  <2>3. \A j \in 1 .. m : text[j] \in Letters BY ElementOfSeq
  <2> HIDE DEF rt, m
  <2>4. rt \in [1 .. m -> Letters] BY <2>1, <2>2, <2>3
  <2>5. rt \in Seq(Letters) BY <1>1, <2>4
  <2>6. Len(rt) = m BY <1>1, <2>4, <2>5
  <2>7. QED BY <1>1, <2>1, <2>2, <2>5, <2>6
<1>4. IsSuffix(p, text) <=> n <= m /\ SubSeq(rp, 1, n) = SubSeq(rt, 1, n)
  BY <1>2, <1>3 DEF IsSuffix, IsPrefix
<1> HIDE DEF rp, rt, m
<1>5. SubSeq(rp, 1, n) = rp BY <1>2, SubSeqFull
<1>6. ASSUME n <= m
      PROVE  /\ SubSeq(rt, 1, n) \in Seq(Letters) /\ Len(SubSeq(rt, 1, n)) = n
             /\ \A j \in 1 .. n : SubSeq(rt, 1, n)[j] = text[m - j + 1]
  <2>1. n \in 0 .. Len(rt) BY <1>1, <1>3, <1>6
  <2>2. SubSeq(rt, 1, n) \in Seq(Letters) /\ Len(SubSeq(rt, 1, n)) = n BY <1>3, <2>1, CutAt
  <2>3. \A i \in 1 .. n : rt[i] \in Letters BY <1>3, <2>1, ElementOfSeq
  <2>4. \A j \in 1 .. n - 1 + 1 : SubSeq(rt, 1, n)[j] = rt[1 + j - 1] BY <1>1, <2>3, SubSeqProperties
  <2>5. \A j \in 1 .. n : SubSeq(rt, 1, n)[j] = rt[j] BY <1>1, <2>4
  <2>6. \A j \in 1 .. n : j \in 1 .. m BY <1>1, <1>6
  <2>7. QED BY <1>3, <2>2, <2>5, <2>6
<1>7. ASSUME n <= m
      PROVE  rp = SubSeq(rt, 1, n) <=> \A j \in 1 .. n : text[m - n + j] = tag[j]
  <2>1. ASSUME rp = SubSeq(rt, 1, n), NEW j \in 1 .. n PROVE text[m - n + j] = tag[j]
    <3> DEFINE k == n - j + 1
    <3>1. k \in 1 .. n /\ m - k + 1 = m - n + j /\ n - k + 1 = j BY <1>1
    <3> HIDE DEF k
    <3>2. rp[k] = text[m - k + 1] BY <1>6, <1>7, <2>1, <3>1
    <3>3. rp[k] = tag[n - k + 1] BY <1>2, <3>1
    <3>4. QED BY <3>1, <3>2, <3>3
  <2>2. ASSUME \A j \in 1 .. n : text[m - n + j] = tag[j] PROVE rp = SubSeq(rt, 1, n)
    <3>1. ASSUME NEW k \in 1 .. n PROVE rp[k] = SubSeq(rt, 1, n)[k]
      <4> DEFINE j == n - k + 1
      <4>1. j \in 1 .. n /\ m - n + j = m - k + 1 BY <1>1
      <4> HIDE DEF j
      <4>2. text[m - k + 1] = tag[j] BY <2>2, <4>1
      <4>3. QED BY <1>2, <1>6, <1>7, <4>2 DEF j
    <3>2. /\ SubSeq(rt, 1, n) \in Seq(Letters) /\ Len(SubSeq(rt, 1, n)) = n
      BY <1>6, <1>7
    <3> DEFINE x == SubSeq(rt, 1, n)
    <3>3. x \in Seq(Letters) /\ Len(x) = n /\ \A k \in 1 .. n : rp[k] = x[k] BY <3>1, <3>2
    <3> HIDE DEF x
    <3>4. rp = x BY <1>2, <3>3, SeqEqual
    <3>5. QED BY <3>4 DEF x
  <2>3. QED BY <2>1, <2>2
<1>8. IsSuffix(p, text) <=> n <= m /\ \A j \in 1 .. n : text[m - n + j] = tag[j]
  BY <1>4, <1>5, <1>7
<1>9. QED BY <1>8 DEF EndsWith, p, m

\* What HoldBack keeps is the longest such beginning.
LEMMA HeldIsLongest ==
    ASSUME NEW text \in Seq(Letters), NEW tag \in Tags
    PROVE  /\ Max(Beginnings(text, tag)) \in 0 .. Len(tag) - 1
           /\ EndsWith(text, tag, Max(Beginnings(text, tag)))
           /\ \A n \in 0 .. Len(tag) - 1 : EndsWith(text, tag, n) => n <= Max(Beginnings(text, tag))
<1> DEFINE S == Beginnings(text, tag)
           last == Len(tag) - 1
           T == {last - n : n \in S}
<1>1. last \in Nat /\ S \subseteq 0 .. last /\ \A n \in 0 .. last : n \in S <=> EndsWith(text, tag, n)
  <2>1. Len(tag) \in {2, 3} BY TagFacts
  <2>2. last \in Nat BY <2>1
  <2>3. \A n \in 0 .. Len(tag) - 1 : n \in S <=> EndsWith(text, tag, n)
    BY EndOfText DEF Beginnings
  <2>4. S \subseteq 0 .. Len(tag) - 1 BY DEF Beginnings
  <2>5. QED BY <2>2, <2>3, <2>4
<1> HIDE DEF S, last
<1>2. 0 \in S
  <2>1. Len(text) \in Nat BY LenProperties
  <2>2. EndsWith(text, tag, 0) BY <2>1 DEF EndsWith
  <2>3. 0 \in 0 .. last BY <1>1
  <2>4. QED BY <1>1, <2>2, <2>3
<1>3. T \in SUBSET Nat /\ T # {} BY <1>1, <1>2
<1>4. PICK k \in T : \A m \in T : k <= m BY <1>3, Least
<1>5. PICK n \in S : k = last - n BY <1>4
<1>6. \A m \in S : n >= m
  <2> TAKE m \in S
  <2>1. last - m \in T OBVIOUS
  <2>2. k <= last - m BY <1>4, <2>1
  <2>3. m \in Nat /\ n \in Nat BY <1>1
  <2>4. QED BY <1>1, <1>5, <2>2, <2>3
<1>7. Max(S) \in S /\ \A m \in S : Max(S) >= m BY <1>6 DEF Max
<1>8. \A m \in 0 .. last : EndsWith(text, tag, m) => m <= Max(S)
  <2> TAKE m \in 0 .. last
  <2>1. Max(S) \in 0 .. last BY <1>1, <1>7
  <2>2. m \in S => Max(S) >= m BY <1>7
  <2>3. QED BY <1>1, <2>1, <2>2
<1>9. QED BY <1>1, <1>7, <1>8 DEF S, last

\* Joining, without what the provers know of it.
Cat(s, t) == s \o t
IsText(s) == s \in Seq(Letters)

LEMMA CatAssoc ==
    ASSUME NEW a, IsText(a), NEW b, IsText(b), NEW c, IsText(c)
    PROVE  Cat(Cat(a, b), c) = Cat(a, Cat(b, c))
BY ConcatAssociative DEF Cat, IsText

LEMMA CatFacts ==
    ASSUME NEW a, IsText(a), NEW b, IsText(b)
    PROVE  IsText(Cat(a, b)) /\ Len(Cat(a, b)) = Len(a) + Len(b) /\ Len(a) \in Nat /\ Len(b) \in Nat
BY ConcatProperties, LenProperties DEF Cat, IsText

LEMMA CatNothing ==
    ASSUME NEW a, IsText(a)
    PROVE  Cat(a, <<>>) = a /\ Cat(<<>>, a) = a /\ IsText(<<>>) /\ Len(<<>>) = 0
BY ConcatEmptySeq DEF Cat, IsText

\* What has been looked through, and what of it was given out.
Scanned(all, given, p, tag) == all = Cat(given, p) /\ NoTag(all, tag) /\ Longest(p, all, tag)

\* The text that follows is looked through from where the last one's end was held back:
\* a tag of the whole begins there, at the same place.
LEMMA Searching ==
    ASSUME NEW tag \in Tags, NEW given \in Seq(Letters), NEW p, NEW all \in Seq(Letters),
           Scanned(all, given, p, tag),
           NEW x \in Seq(Letters)
    PROVE  /\ Find(p \o x, tag) = 0 =>
                NoTag(all \o x, tag)
                /\ \A n \in 0 .. Len(tag) - 1 : EndsWith(all \o x, tag, n) => EndsWith(p \o x, tag, n)
           /\ Find(p \o x, tag) # 0 => Find(all \o x, tag) = Len(given) + Find(p \o x, tag)
<1> DEFINE text == p \o x
           more == all \o x
           g == Len(given)
           l == Len(p)
           m == Len(x)
           t == Len(tag)
<1>1. /\ p \in Seq(Letters) /\ g \in Nat /\ l \in Nat /\ m \in Nat /\ t \in Nat /\ l < t /\ t # 0
      /\ \A j \in 1 .. l : p[j] = tag[j]
      /\ \A n \in 0 .. t - 1 : EndsWith(all, tag, n) => n <= l
  <2>1. p \in Seq(Letters) /\ tag \in Seq(Letters) /\ t \in {2, 3} BY TagFacts DEF Scanned, Longest
  <2>3. g \in Nat /\ l \in Nat /\ m \in Nat BY <2>1, LenProperties
  <2>4. l < t /\ p = SubSeq(tag, 1, l) /\ \A n \in 0 .. t - 1 : EndsWith(all, tag, n) => n <= l
    BY DEF Scanned, Longest
  <2>5. \A i \in 1 .. l : tag[i] \in Letters
    <3>1. \A i \in 1 .. l : i \in 1 .. t BY <2>1, <2>3, <2>4
    <3>2. QED BY <2>1, <3>1, ElementOfSeq
  <2>6. \A j \in 1 .. l - 1 + 1 : SubSeq(tag, 1, l)[j] = tag[1 + j - 1]
    BY <2>3, <2>5, SubSeqProperties
  <2> HIDE DEF l, t
  <2>7. \A j \in 1 .. l : SubSeq(tag, 1, l)[j] = tag[j] BY <2>3, <2>6
  <2>8. QED BY <2>1, <2>3, <2>4, <2>7
<1>2. /\ text \in Seq(Letters) /\ Len(text) = l + m
      /\ \A i \in 1 .. l + m : text[i] = IF i <= l THEN p[i] ELSE x[i - l]
  BY <1>1, ConcatProperties
<1>3. /\ Len(all) = g + l /\ \A i \in 1 .. g + l : all[i] = IF i <= g THEN given[i] ELSE p[i - g]
  BY <1>1, ConcatProperties DEF Scanned, Cat
<1>4. /\ more \in Seq(Letters) /\ Len(more) = g + l + m
      /\ \A i \in 1 .. g + l + m : more[i] = IF i <= g + l THEN all[i] ELSE x[i - (g + l)]
  <2>1. /\ Len(more) = Len(all) + m
        /\ \A i \in 1 .. Len(all) + m : more[i] = IF i <= Len(all) THEN all[i] ELSE x[i - Len(all)]
    BY ConcatProperties
  <2>2. more \in Seq(Letters) BY ConcatProperties
  <2>3. QED BY <1>3, <2>1, <2>2
<1> HIDE DEF text, more, g, l, m, t
<1>17. t = Len(tag) BY DEF t
<1>14. /\ \A i \in Nat : TagAt(more, tag, i) <=>
                   i \in 1 .. (g + l + m) - t + 1 /\ \A j \in 1 .. t : more[i + j - 1] = tag[j]
       /\ \A n \in Nat : EndsWith(more, tag, n) <=>
                   n <= (g + l + m) /\ \A j \in 1 .. n : more[(g + l + m) - n + j] = tag[j]
  <2>1. Len(more) = (g + l + m) BY <1>4
  <2>2. \A i \in Nat : TagAt(more, tag, i) <=>
          i \in 1 .. (g + l + m) - t + 1 /\ \A j \in 1 .. t : more[i + j - 1] = tag[j]
    BY <1>17, <2>1 DEF TagAt
  <2>3. \A n \in Nat : EndsWith(more, tag, n) <=>
          n <= (g + l + m) /\ \A j \in 1 .. n : more[(g + l + m) - n + j] = tag[j]
    BY <2>1 DEF EndsWith
  <2>4. QED BY <2>2, <2>3
<1>15. /\ \A i \in Nat : TagAt(text, tag, i) <=>
                   i \in 1 .. (l + m) - t + 1 /\ \A j \in 1 .. t : text[i + j - 1] = tag[j]
       /\ \A n \in Nat : EndsWith(text, tag, n) <=>
                   n <= (l + m) /\ \A j \in 1 .. n : text[(l + m) - n + j] = tag[j]
  <2>1. Len(text) = (l + m) BY <1>2
  <2>2. \A i \in Nat : TagAt(text, tag, i) <=>
          i \in 1 .. (l + m) - t + 1 /\ \A j \in 1 .. t : text[i + j - 1] = tag[j]
    BY <1>17, <2>1 DEF TagAt
  <2>3. \A n \in Nat : EndsWith(text, tag, n) <=>
          n <= (l + m) /\ \A j \in 1 .. n : text[(l + m) - n + j] = tag[j]
    BY <2>1 DEF EndsWith
  <2>4. QED BY <2>2, <2>3
<1>16. /\ \A i \in Nat : TagAt(all, tag, i) <=>
                   i \in 1 .. (g + l) - t + 1 /\ \A j \in 1 .. t : all[i + j - 1] = tag[j]
       /\ \A n \in Nat : EndsWith(all, tag, n) <=>
                   n <= (g + l) /\ \A j \in 1 .. n : all[(g + l) - n + j] = tag[j]
  <2>1. Len(all) = (g + l) BY <1>3
  <2>2. \A i \in Nat : TagAt(all, tag, i) <=>
          i \in 1 .. (g + l) - t + 1 /\ \A j \in 1 .. t : all[i + j - 1] = tag[j]
    BY <1>17, <2>1 DEF TagAt
  <2>3. \A n \in Nat : EndsWith(all, tag, n) <=>
          n <= (g + l) /\ \A j \in 1 .. n : all[(g + l) - n + j] = tag[j]
    BY <2>1 DEF EndsWith
  <2>4. QED BY <2>2, <2>3
<1>5. \A i \in 1 .. g + l : more[i] = all[i]
  <2>1. \A i \in 1 .. g + l : i \in 1 .. g + l + m /\ i <= g + l BY <1>1
  <2>2. QED BY <1>4, <2>1
<1>6. ASSUME NEW k \in 1 .. l + m PROVE more[g + k] = text[k]
  <2>1. CASE k <= l
    <3>1. g + k \in 1 .. g + l /\ ~(g + k <= g) /\ (g + k) - g = k BY <1>1, <2>1
    <3>2. more[g + k] = p[k] BY <1>3, <1>5, <3>1
    <3>3. QED BY <1>2, <2>1, <3>2
  <2>2. CASE ~(k <= l)
    <3>1. g + k \in 1 .. g + l + m /\ ~(g + k <= g + l) /\ (g + k) - (g + l) = k - l BY <1>1, <2>2
    <3>2. more[g + k] = x[k - l] BY <1>4, <3>1
    <3>3. QED BY <1>2, <2>2, <3>2
  <2>3. QED BY <2>1, <2>2
\* A tag that begins before what was held would have been seen, or held from there.
<1>7. ASSUME NEW i \in Nat, TagAt(more, tag, i) PROVE i > g
  <2> SUFFICES ASSUME i <= g PROVE FALSE
    BY <1>1
  <2>1. i \in 1 .. (g + l + m) - t + 1 /\ \A j \in 1 .. t : more[i + j - 1] = tag[j]
    BY <1>1, <1>7, <1>14
  <2>2. CASE i + t - 1 <= g + l
    <3>1. \A j \in 1 .. t : i + j - 1 \in 1 .. g + l BY <1>1, <2>1, <2>2
    <3>2. \A j \in 1 .. t : all[i + j - 1] = tag[j] BY <1>5, <2>1, <3>1
    <3>3. i \in 1 .. (g + l) - t + 1 BY <1>1, <2>1, <2>2
    <3>6. TagAt(all, tag, i) <=>
            i \in 1 .. (g + l) - t + 1 /\ \A j \in 1 .. t : all[i + j - 1] = tag[j]
      BY <1>16
    <3>4. TagAt(all, tag, i) BY <3>2, <3>3, <3>6
    <3>5. QED BY <3>4 DEF NoTag, Scanned
  <2>3. CASE i + t - 1 > g + l
    <3> DEFINE n == (g + l) - i + 1
    <3>1. n \in 0 .. t - 1 /\ n > l /\ n <= g + l /\ (g + l) - n = i - 1 BY <1>1, <2>1, <2>3
    <3> HIDE DEF n
    <3>2. ASSUME NEW j \in 1 .. n PROVE all[(g + l) - n + j] = tag[j]
      <4>1. j \in 1 .. t /\ i + j - 1 \in 1 .. g + l /\ (g + l) - n + j = i + j - 1
        BY <1>1, <2>1, <3>1
      <4>2. QED BY <1>5, <2>1, <4>1
    <3>3. EndsWith(all, tag, n) BY <1>1, <1>16, <3>1, <3>2
    <3>4. n <= l BY <1>1, <3>1, <3>3
    <3>5. QED BY <1>1, <3>1, <3>4
  <2>4. QED BY <1>1, <2>1, <2>2, <2>3
<1>8. ASSUME NEW k \in Nat, k # 0 PROVE TagAt(text, tag, k) <=> TagAt(more, tag, g + k)
  <2>1. k \in 1 .. (l + m) - t + 1 <=> g + k \in 1 .. (g + l + m) - t + 1 BY <1>1, <1>8
  <2>2. ASSUME k \in 1 .. (l + m) - t + 1, NEW j \in 1 .. t PROVE more[g + k + j - 1] = text[k + j - 1]
    <3>1. k + j - 1 \in 1 .. l + m /\ g + (k + j - 1) = g + k + j - 1 BY <1>1, <2>2
    <3>2. more[g + (k + j - 1)] = text[k + j - 1] BY <1>6, <3>1
    <3>3. QED BY <3>1, <3>2
  <2>3. TagAt(text, tag, k) <=> k \in 1 .. (l + m) - t + 1 /\ \A j \in 1 .. t : text[k + j - 1] = tag[j]
    BY <1>8, <1>15
  <2>4. g + k \in Nat BY <1>1, <1>8
  <2>5. TagAt(more, tag, g + k) <=>
          g + k \in 1 .. (g + l + m) - t + 1 /\ \A j \in 1 .. t : more[g + k + j - 1] = tag[j]
    BY <1>14, <2>4
  <2>6. QED BY <2>1, <2>2, <2>3, <2>5
<1>9. ASSUME NoTag(text, tag) PROVE NoTag(more, tag)
  <2> SUFFICES ASSUME NEW i \in Nat, TagAt(more, tag, i) PROVE FALSE
    BY DEF NoTag
  <2>1. i > g BY <1>7
  <2>2. i - g \in Nat /\ i - g # 0 /\ g + (i - g) = i BY <1>1, <2>1
  <2>3. TagAt(text, tag, i - g) BY <1>8, <2>2
  <2>4. QED BY <1>9, <2>2, <2>3 DEF NoTag
<1>10. ASSUME NEW n \in 0 .. t - 1, EndsWith(more, tag, n) PROVE EndsWith(text, tag, n)
  <2>7. n \in Nat BY <1>1
  <2>8. EndsWith(more, tag, n) <=>
          n <= g + l + m /\ \A j \in 1 .. n : more[(g + l + m) - n + j] = tag[j]
    BY <1>14, <2>7
  <2>1. n \in Nat /\ n <= g + l + m /\ \A j \in 1 .. n : more[(g + l + m) - n + j] = tag[j]
    BY <1>10, <2>7, <2>8
  <2>2. n <= l + m
    <3> SUFFICES ASSUME n > l + m PROVE FALSE
      BY <1>1, <2>1
    <3> DEFINE h == n - m
    <3>1. h \in 0 .. t - 1 /\ h > l /\ h <= g + l BY <1>1, <2>1
    <3>2. ASSUME NEW j \in 1 .. h PROVE all[(g + l) - h + j] = tag[j]
      <4>1. j \in 1 .. n /\ (g + l + m) - n + j = (g + l) - h + j /\ (g + l) - h + j \in 1 .. g + l
        BY <1>1, <2>1
      <4>2. QED BY <1>5, <2>1, <4>1
    <3> HIDE DEF h
    <3>3. EndsWith(all, tag, h) BY <1>1, <1>16, <3>1, <3>2
    <3>4. h <= l BY <1>1, <3>1, <3>3
    <3>5. QED BY <1>1, <3>1, <3>4
  <2>3. ASSUME NEW j \in 1 .. n PROVE text[(l + m) - n + j] = tag[j]
    <3>1. (l + m) - n + j \in 1 .. l + m /\ g + ((l + m) - n + j) = (g + l + m) - n + j
      BY <1>1, <2>1, <2>2
    <3>2. more[g + ((l + m) - n + j)] = text[(l + m) - n + j] BY <1>6, <3>1
    <3>3. QED BY <2>1, <3>1, <3>2
  <2>4. n \in Nat BY <1>1
  <2>5. EndsWith(text, tag, n) <=> n <= l + m /\ \A j \in 1 .. n : text[(l + m) - n + j] = tag[j]
    BY <1>15, <2>4
  <2>6. QED BY <2>2, <2>3, <2>5
<1>11. CASE Find(text, tag) = 0
  <2>1. NoTag(more, tag) BY <1>2, <1>9, <1>11, FindFacts
  <2>2. QED BY <1>10, <1>11, <2>1 DEF text, more, t
<1>12. CASE Find(text, tag) # 0
  <2> DEFINE at == Find(text, tag)
  <2>1. at \in Nat /\ at # 0 /\ TagAt(text, tag, at) /\ \A i \in Nat : TagAt(text, tag, i) => at <= i
    BY <1>2, <1>12, FindFacts
  <2> HIDE DEF at
  <2>2. TagAt(more, tag, g + at) BY <1>8, <2>1
  <2>3. ASSUME NEW i \in Nat, TagAt(more, tag, i) PROVE g + at <= i
    <3>1. i > g BY <1>7, <2>3
    <3>2. i - g \in Nat /\ i - g # 0 /\ g + (i - g) = i BY <1>1, <3>1
    <3>3. TagAt(text, tag, i - g) BY <1>8, <2>3, <3>2
    <3>4. at <= i - g BY <2>1, <3>2, <3>3
    <3>5. QED BY <1>1, <2>1, <3>2, <3>4
  <2>4. g + at \in Nat BY <1>1, <2>1
  <2>5. Find(more, tag) = g + at BY <1>4, <2>2, <2>3, <2>4, FindFirst
  <2>6. QED BY <1>12, <2>5 DEF text, more, g, at
<1>13. QED BY <1>11, <1>12 DEF text

LEMMA TagTyped ==
    ASSUME NEW tag \in Tags
    PROVE  tag \in Seq(Letters) /\ Len(tag) \in Nat /\ Len(tag) # 0
<1>1. tag \in Seq(Letters) /\ Len(tag) \in {2, 3} BY TagFacts
<1>2. ASSUME NEW n, n \in {2, 3} PROVE n \in Nat /\ n # 0 BY <1>2
<1>3. Len(tag) \in Nat /\ Len(tag) # 0 BY <1>1, <1>2
<1>4. QED BY <1>1, <1>3

\* A text with a tag is what is before it, the tag, and what is behind it.
LEMMA CutAtTag ==
    ASSUME NEW text \in Seq(Letters), NEW tag \in Tags, NEW i \in Nat, TagAt(text, tag, i)
    PROVE  /\ Before(text, i) \in Seq(Letters) /\ Len(Before(text, i)) = i - 1
           /\ After(text, i, tag) \in Seq(Letters)
           /\ text = (Before(text, i) \o tag) \o After(text, i, tag)
<1> DEFINE t == Len(tag)
           n == i - 1
           e == i + t - 1
           last == Len(text)
<1>1. t \in Nat /\ t # 0 /\ last \in Nat /\ i \in 1 .. last - t + 1
  BY TagTyped, LenProperties DEF TagAt
<1>2. SubSeq(text, i, e) = tag BY <1>1, PlacesOfTag
<1> HIDE DEF t, last
<1>3. n \in 0 .. last /\ n + 1 = i /\ e \in 0 .. last /\ e + 1 = i + t /\ e \in n .. last BY <1>1
<1> HIDE DEF n, e
<1>4. SubSeq(text, 1, n) \in Seq(Letters) /\ Len(SubSeq(text, 1, n)) = n BY <1>3, CutAt DEF last
<1>5. /\ SubSeq(text, e + 1, last) \in Seq(Letters)
      /\ SubSeq(text, 1, e) \o SubSeq(text, e + 1, last) = text
  BY <1>3, CutAt DEF last
<1>6. SubSeq(text, 1, n) \o SubSeq(text, n + 1, e) = SubSeq(text, 1, e)
  <2>1. 1 \in 1 .. last + 1 /\ n \in 1 - 1 .. last /\ e \in n .. last BY <1>1, <1>3
  <2>2. QED BY <2>1, ConcatAdjacentSubSeq DEF last
<1>7. SubSeq(text, 1, e) = SubSeq(text, 1, n) \o tag BY <1>2, <1>3, <1>6
<1>8. Before(text, i) = SubSeq(text, 1, n) BY DEF Before, n
<1>9. After(text, i, tag) = SubSeq(text, e + 1, last) BY <1>3 DEF After, t, last
<1>10. Len(Before(text, i)) = i - 1 BY <1>4, <1>8 DEF n
<1>11. QED BY <1>4, <1>5, <1>7, <1>8, <1>9, <1>10

LEMMA TagBetween ==
    ASSUME NEW b \in Seq(Letters), NEW tag \in Tags, NEW rest \in Seq(Letters)
    PROVE  /\ Before((b \o tag) \o rest, Len(b) + 1) = b
           /\ After((b \o tag) \o rest, Len(b) + 1, tag) = rest
<1> DEFINE all == (b \o tag) \o rest
           head == b \o tag
<1>1. tag \in Seq(Letters) /\ Len(tag) \in Nat /\ Len(b) \in Nat BY TagTyped, LenProperties
<1>2. head \in Seq(Letters) /\ Len(head) = Len(b) + Len(tag) BY <1>1, ConcatProperties
<1>3. tag \o rest \in Seq(Letters) BY <1>1, ConcatProperties
<1>4. all = b \o (tag \o rest)
  <2>1. IsText(b) /\ IsText(tag) /\ IsText(rest) BY <1>1 DEF IsText
  <2>2. Cat(Cat(b, tag), rest) = Cat(b, Cat(tag, rest)) BY <2>1, CatAssoc
  <2>3. QED BY <2>2 DEF Cat
<1>5. SubSeq(b \o (tag \o rest), 1, Len(b)) = b BY <1>3, CutBack
<1>6. SubSeq(head \o rest, Len(head) + 1, Len(head \o rest)) = rest BY <1>2, CutBack
<1>7. (Len(b) + 1) - 1 = Len(b) /\ (Len(b) + 1) + Len(tag) = Len(head) + 1 BY <1>1, <1>2
<1>8. Before(all, Len(b) + 1) = b BY <1>4, <1>5, <1>7 DEF Before
<1>9. After(all, Len(b) + 1, tag) = rest BY <1>6, <1>7 DEF After
<1>10. QED BY <1>8, <1>9

\* What follows changes nothing about where a tag is found.
LEMMA FindKept ==
    ASSUME NEW text \in Seq(Letters), NEW x \in Seq(Letters), NEW tag \in Tags,
           Find(text, tag) # 0
    PROVE  Find(text \o x, tag) = Find(text, tag)
<1> DEFINE at == Find(text, tag)
           m == Len(text)
           n == Len(x)
           t == Len(tag)
           all == text \o x
<1>1. /\ at \in Nat /\ TagAt(text, tag, at)
      /\ \A i \in Nat : TagAt(text, tag, i) => at <= i
  BY FindFacts
<1>2. m \in Nat /\ n \in Nat /\ t \in Nat BY TagTyped, LenProperties
<1>3. /\ all \in Seq(Letters) /\ Len(all) = m + n
      /\ \A i \in 1 .. m + n : all[i] = IF i <= m THEN text[i] ELSE x[i - m]
  BY ConcatProperties
<1>9. t = Len(tag) /\ m = Len(text) OBVIOUS
<1> HIDE DEF at, m, n, t, all
<1>4. \A i \in 1 .. m : all[i] = text[i]
  <2>1. \A i \in 1 .. m : i \in 1 .. m + n /\ i <= m BY <1>2
  <2>2. QED BY <1>3, <2>1
<1>5. ASSUME NEW i \in Nat, i \in 1 .. m - t + 1 PROVE TagAt(all, tag, i) <=> TagAt(text, tag, i)
  <2>1. i \in 1 .. (m + n) - t + 1 BY <1>2, <1>5
  <2>2. \A j \in 1 .. t : i + j - 1 \in 1 .. m BY <1>2, <1>5
  <2>3. \A j \in 1 .. t : all[i + j - 1] = text[i + j - 1] BY <1>4, <2>2
  <2>4. TagAt(all, tag, i) <=> \A j \in 1 .. t : all[i + j - 1] = tag[j]
    BY <1>3, <1>9, <2>1 DEF TagAt
  <2>5. TagAt(text, tag, i) <=> \A j \in 1 .. t : text[i + j - 1] = tag[j]
    BY <1>5, <1>9 DEF TagAt
  <2>6. QED BY <2>3, <2>4, <2>5
<1>6. at \in 1 .. m - t + 1 BY <1>1, <1>9 DEF TagAt
<1>7. TagAt(all, tag, at) BY <1>1, <1>5, <1>6
<1>8. ASSUME NEW i \in Nat, TagAt(all, tag, i) PROVE at <= i
  <2> SUFFICES ASSUME i < at PROVE FALSE
    BY <1>1, <1>8
  <2>1. i # 0
    <3>1. i \in 1 .. (m + n) - t + 1 BY <1>3, <1>8, <1>9 DEF TagAt
    <3>2. QED BY <3>1
  <2>2. i \in 1 .. m - t + 1 BY <1>2, <1>6, <2>1
  <2>3. TagAt(text, tag, i) BY <1>5, <1>8, <2>2
  <2>4. QED BY <1>1, <2>3
<1>10. QED BY <1>1, <1>3, <1>7, <1>8, FindFirst DEF at, all
----------------------------------------------------------------------------
(* A text looked through in pieces                                          *)

LEMMA NothingScanned ==
    ASSUME NEW tag \in Tags
    PROVE  Scanned(<<>>, <<>>, <<>>, tag)
<1>1. Len(tag) \in Nat /\ Len(tag) # 0 /\ <<>> \in Seq(Letters) /\ Len(<<>>) = 0
  BY TagTyped
<1>2. <<>> = <<>> \o <<>> OBVIOUS
<1>3. \A i \in Nat : ~TagAt(<<>>, tag, i) BY <1>1 DEF TagAt
<1>4. \A n \in 0 .. Len(tag) - 1 : EndsWith(<<>>, tag, n) => n <= 0 BY <1>1 DEF EndsWith
<1>5. SubSeq(tag, 1, 0) = <<>> BY TagTyped, SubSeqEmpty
<1>6. QED BY <1>1, <1>2, <1>3, <1>4, <1>5 DEF Scanned, NoTag, Longest, Cat

\* What HoldBack gives out of a text, and what it keeps.
Kept(text, tag) == Max({n \in 0 .. Len(tag) - 1 : IsSuffix(SubSeq(tag, 1, n), text)})
Released(text, tag) == SubSeq(text, 1, Len(text) - Kept(text, tag))
KeptBack(text, tag) == SubSeq(text, Len(text) - Kept(text, tag) + 1, Len(text))

\* HoldBack cuts the text in two.
LEMMA KeptFacts ==
    ASSUME NEW text \in Seq(Letters), NEW tag \in Tags
    PROVE  /\ Released(text, tag) \in Seq(Letters) /\ KeptBack(text, tag) \in Seq(Letters)
           /\ text = Released(text, tag) \o KeptBack(text, tag)
           /\ Len(KeptBack(text, tag)) \in 0 .. Len(tag) - 1
           /\ KeptBack(text, tag) = SubSeq(tag, 1, Len(KeptBack(text, tag)))
           /\ \A n \in 0 .. Len(tag) - 1 : EndsWith(text, tag, n) => n <= Len(KeptBack(text, tag))
<1> DEFINE k == Kept(text, tag)
           t == Len(tag)
           m == Len(text)
           c == m - k
           p == KeptBack(text, tag)
           q == SubSeq(tag, 1, k)
<1>1. /\ k \in 0 .. t - 1 /\ EndsWith(text, tag, k)
      /\ \A n \in 0 .. t - 1 : EndsWith(text, tag, n) => n <= k
  <2>1. k = Max(Beginnings(text, tag)) BY DEF Kept, Beginnings
  <2>2. QED BY <2>1, HeldIsLongest
<1>2. tag \in Seq(Letters) /\ t \in Nat /\ t # 0 /\ m \in Nat BY TagTyped, LenProperties
<1>3. k <= m /\ \A j \in 1 .. k : text[m - k + j] = tag[j] BY <1>1 DEF EndsWith
<1>4. p = SubSeq(text, c + 1, m) /\ Released(text, tag) = SubSeq(text, 1, c)
  BY DEF KeptBack, Released
<1> HIDE DEF k, t, m
<1>5. c \in 0 .. m /\ k \in Nat /\ m - c = k BY <1>1, <1>2, <1>3
<1> HIDE DEF c, p
<1>6. /\ SubSeq(text, 1, c) \in Seq(Letters) /\ p \in Seq(Letters) /\ Len(p) = k
      /\ SubSeq(text, 1, c) \o p = text
  BY <1>4, <1>5, CutAt DEF m
<1>7. \A j \in 1 .. k : p[j] = tag[j]
  <2>1. c + 1 \in Int /\ m \in Int /\ \A i \in c + 1 .. m : text[i] \in Letters
    <3>1. \A i \in c + 1 .. m : i \in 1 .. m BY <1>2, <1>5
    <3>2. QED BY <1>2, <1>5, <3>1, ElementOfSeq DEF m
  <2>2. \A j \in 1 .. m - (c + 1) + 1 : p[j] = text[c + 1 + j - 1]
    BY <1>4, <2>1, SubSeqProperties
  <2>3. ASSUME NEW j \in 1 .. k PROVE p[j] = tag[j]
    <3>1. j \in 1 .. m - (c + 1) + 1 /\ c + 1 + j - 1 = m - k + j BY <1>2, <1>5
    <3>2. p[j] = text[m - k + j] BY <2>2, <3>1
    <3>3. QED BY <1>3, <3>2
  <2>4. QED BY <2>3
<1>8. q \in Seq(Letters) /\ Len(q) = k /\ \A j \in 1 .. k : q[j] = tag[j]
  <2>1. k \in 0 .. t BY <1>1, <1>2
  <2>2. q \in Seq(Letters) /\ Len(q) = k BY <1>2, <2>1, CutAt DEF t
  <2>3. \A i \in 1 .. k : tag[i] \in Letters
    <3>1. \A i \in 1 .. k : i \in 1 .. t BY <1>2, <2>1
    <3>2. QED BY <1>2, <3>1, ElementOfSeq DEF t
  <2>4. \A j \in 1 .. k - 1 + 1 : q[j] = tag[1 + j - 1] BY <1>5, <2>3, SubSeqProperties
  <2>5. \A j \in 1 .. k : q[j] = tag[j] BY <1>5, <2>4
  <2>6. QED BY <2>2, <2>5
<1> HIDE DEF q
<1>9. \A j \in 1 .. k : p[j] = q[j] BY <1>7, <1>8
<1>10. p = q BY <1>6, <1>8, <1>9, SeqEqual
<1>11. QED BY <1>1, <1>4, <1>6, <1>10 DEF q, t, p

\* No tag yet: what is kept is again the longest end that may become one.
LEMMA ScannedOn ==
    ASSUME NEW tag \in Tags, NEW all, IsText(all), NEW given, IsText(given), NEW p,
           Scanned(all, given, p, tag), NEW x, IsText(x), Find(Cat(p, x), tag) = 0
    PROVE  Scanned(Cat(all, x), Cat(given, Released(Cat(p, x), tag)), KeptBack(Cat(p, x), tag), tag)
<1> DEFINE text == Cat(p, x)
           r == Released(text, tag)
           k == KeptBack(text, tag)
<1>1. IsText(p) /\ all = Cat(given, p) BY DEF Scanned, Longest, IsText
<1>2. IsText(text) BY <1>1, CatFacts
<1>3. /\ IsText(r) /\ IsText(k) /\ text = Cat(r, k) /\ Len(k) \in 0 .. Len(tag) - 1
      /\ k = SubSeq(tag, 1, Len(k))
      /\ \A n \in 0 .. Len(tag) - 1 : EndsWith(text, tag, n) => n <= Len(k)
  BY <1>2, KeptFacts DEF IsText, Cat
<1>4. /\ NoTag(Cat(all, x), tag)
      /\ \A n \in 0 .. Len(tag) - 1 : EndsWith(Cat(all, x), tag, n) => EndsWith(text, tag, n)
  BY Searching DEF Cat, IsText
<1> HIDE DEF r, k
<1>5. Cat(all, x) = Cat(Cat(given, r), k)
  <2>1. Cat(Cat(given, p), x) = Cat(given, text) BY <1>1, CatAssoc
  <2>2. Cat(given, Cat(r, k)) = Cat(Cat(given, r), k) BY <1>3, CatAssoc
  <2>3. QED BY <1>1, <1>3, <2>1, <2>2
<1>6. Len(k) < Len(tag)
  <2>1. Len(tag) \in Nat BY TagTyped
  <2>2. QED BY <1>3, <2>1
<1>7. Longest(k, Cat(all, x), tag) BY <1>3, <1>4, <1>6 DEF Longest, IsText
<1>8. QED BY <1>4, <1>5, <1>7 DEF Scanned, r, k

\* A tag: the whole is what was given and what is before it, the tag, and the rest.
LEMMA ScannedTag ==
    ASSUME NEW tag \in Tags, NEW all, IsText(all), NEW given, IsText(given), NEW p,
           Scanned(all, given, p, tag), NEW x, IsText(x), NEW at, at = Find(Cat(p, x), tag), at # 0,
           NEW b, b = Before(Cat(p, x), at), NEW rest, rest = After(Cat(p, x), at, tag)
    PROVE  /\ IsText(b) /\ IsText(rest)
           /\ Cat(all, x) = Cat(Cat(Cat(given, b), tag), rest)
           /\ Find(Cat(all, x), tag) = Len(Cat(given, b)) + 1
<1> DEFINE text == Cat(p, x)
<1>1. IsText(p) /\ all = Cat(given, p) BY DEF Scanned, Longest, IsText
<1>2. IsText(text) /\ IsText(tag) /\ Len(given) \in Nat BY <1>1, CatFacts, TagTyped DEF IsText
<1>3. at \in Nat /\ TagAt(text, tag, at) BY <1>2, FindFacts DEF IsText
<1>4. Find(Cat(all, x), tag) = Len(given) + at BY Searching DEF Cat, IsText
<1> HIDE DEF text
<1>6. /\ IsText(b) /\ Len(b) = at - 1 /\ IsText(rest) /\ text = Cat(Cat(b, tag), rest)
  BY <1>2, <1>3, CutAtTag DEF text, IsText, Cat
<1>7. Cat(all, x) = Cat(Cat(Cat(given, b), tag), rest)
  <2>1. Cat(Cat(given, p), x) = Cat(given, text) BY <1>1, CatAssoc DEF text
  <2>2. IsText(Cat(b, tag)) BY <1>2, <1>6, CatFacts
  <2>3. Cat(given, Cat(Cat(b, tag), rest)) = Cat(Cat(given, Cat(b, tag)), rest) BY <1>6, <2>2, CatAssoc
  <2>4. Cat(given, Cat(b, tag)) = Cat(Cat(given, b), tag) BY <1>2, <1>6, CatAssoc
  <2>5. QED BY <1>1, <1>6, <2>1, <2>3, <2>4
<1>8. Len(Cat(given, b)) = Len(given) + (at - 1) BY <1>6, CatFacts
<1>9. QED BY <1>2, <1>3, <1>4, <1>6, <1>7, <1>8

----------------------------------------------------------------------------
(* What the outputs give                                                    *)

Chars == Letters \cup {"r"}
IsThought(s) == s \in Seq(Chars)

\* Thinking is text and reasoning; it is put together like text.
LEMMA ThoughtFacts ==
    /\ \A a, b, c : IsThought(a) /\ IsThought(b) /\ IsThought(c) => Cat(Cat(a, b), c) = Cat(a, Cat(b, c))
    /\ \A a, b : IsThought(a) /\ IsThought(b) =>
           IsThought(Cat(a, b)) /\ Len(Cat(a, b)) = Len(a) + Len(b) /\ Len(a) \in Nat /\ Len(b) \in Nat
    /\ \A a : IsText(a) => IsThought(a)
    /\ IsThought(<<>>)
<1>1. \A a, b, c : IsThought(a) /\ IsThought(b) /\ IsThought(c) => Cat(Cat(a, b), c) = Cat(a, Cat(b, c))
  BY ConcatAssociative DEF Cat, IsThought
<1>2. \A a, b : IsThought(a) /\ IsThought(b) =>
           IsThought(Cat(a, b)) /\ Len(Cat(a, b)) = Len(a) + Len(b) /\ Len(a) \in Nat /\ Len(b) \in Nat
  BY ConcatProperties, LenProperties DEF Cat, IsThought
<1>3. \A a : IsText(a) => IsThought(a) BY SeqMonotonic DEF IsText, IsThought, Chars
<1>4. IsThought(<<>>) BY DEF IsThought
<1>5. QED BY <1>1, <1>2, <1>3, <1>4

\* An assembler's fields.
Whole(a) ==
    a = [content |-> a.content, thinking |-> a.thinking, textBytes |-> a.textBytes,
         failed |-> a.failed, inside |-> a.inside, extracted |-> a.extracted,
         pending |-> a.pending, parts |-> a.parts, usage |-> a.usage, reason |-> a.reason,
         filtered |-> a.filtered]
IsAssembler(a) ==
    /\ Whole(a) /\ IsText(a.content) /\ IsThought(a.thinking) /\ a.textBytes \in Nat
    /\ a.inside \in BOOLEAN /\ a.extracted \in BOOLEAN
    /\ a.failed \in {"no", "limit", "malformed", "arguments"}
SameSplitter(a, r) == r.inside = a.inside /\ r.extracted = a.extracted /\ r.pending = a.pending
SameRest(a, r) ==
    r.parts = a.parts /\ r.usage = a.usage /\ r.reason = a.reason /\ r.filtered = a.filtered
SameOutput(a, r) ==
    /\ r.content = a.content /\ r.thinking = a.thinking /\ r.textBytes = a.textBytes
    /\ r.failed = a.failed

Shown(t) == IF options.visible THEN t ELSE <<>>
Retained(a) == Len(a.content) + Len(a.thinking)
Fits(o, a) == o.aggregate => Retained(a) <= MaxAggregate

\* r is what a has become by giving out c as content and t as thinking.
GaveAll(a, r, c, t) ==
    /\ r.failed = "no" /\ r.content = Cat(a.content, c) /\ r.thinking = Cat(a.thinking, Shown(t))
    /\ r.textBytes = a.textBytes + Len(c) + Len(t) /\ Fits(options, r)
GaveUp(a, r, c, t) ==
    /\ r.failed = "limit" /\ options.aggregate
    /\ Retained(a) + Len(c) + Len(Shown(t)) > MaxAggregate
    /\ \E d, e : IsText(d) /\ IsText(e) /\ c = Cat(d, e) /\ r.content = Cat(a.content, d)
Gave(a, r, c, t) ==
    /\ IsAssembler(r) /\ SameRest(a, r)
    /\ IF a.failed # "no" THEN SameOutput(a, r) ELSE GaveAll(a, r, c, t) \/ GaveUp(a, r, c, t)

\* Output gives out all of it, or a part and fails.
LEMMA OutputGives ==
    ASSUME NEW a, IsAssembler(a), NEW c, IsText(c), NEW t, IsThought(t)
    PROVE  Gave(a, Output(a, c, t), c, t) /\ SameSplitter(a, Output(a, c, t))
<1> DEFINE shown == Shown(t)
           counted == [a EXCEPT !.textBytes = @ + Len(c) + Len(t)]
           r == Output(a, c, t)
<1>1. /\ IsThought(shown) /\ Len(shown) \in Nat /\ Len(t) \in Nat /\ Len(c) \in Nat
      /\ Len(a.content) \in Nat /\ Len(a.thinking) \in Nat /\ MaxAggregate \in Nat
      /\ a.textBytes \in Nat
  <2>1. IsThought(shown) BY ThoughtFacts DEF Shown
  <2>2. Len(shown) \in Nat /\ Len(t) \in Nat BY <2>1, ThoughtFacts
  <2>3. IsThought(a.thinking) /\ IsText(a.content) /\ a.textBytes \in Nat BY DEF IsAssembler
  <2>4. QED BY <2>1, <2>2, <2>3, ThoughtFacts, CatFacts, AssemblyAssumption
<1>9. Retained(a) \in Nat
  <2>1. \A x, y : x \in Nat /\ y \in Nat => x + y \in Nat OBVIOUS
  <2>2. QED BY <1>1, <2>1 DEF Retained
<1>2. Whole(a) BY DEF IsAssembler
<1>3. Whole(counted) /\ counted.textBytes = a.textBytes + Len(c) + Len(t)
      /\ counted.content = a.content /\ counted.thinking = a.thinking /\ counted.failed = a.failed
      /\ SameSplitter(a, counted) /\ SameRest(a, counted)
  BY <1>2 DEF Whole, SameSplitter, SameRest
<1>4. CASE a.failed # "no"
  <2>1. r = a BY <1>4 DEF Output
  <2>2. QED BY <1>4, <2>1 DEF Gave, SameOutput, SameRest, SameSplitter
<1>5. CASE a.failed = "no" /\ options.aggregate /\ Len(c) + Len(shown) > MaxAggregate - Retained(a)
  <2>1. r = [counted EXCEPT !.failed = "limit"] BY <1>5 DEF Output, Shown, Retained
  <2> HIDE DEF counted, r
  <2>2. Whole(r) /\ r.failed = "limit" /\ r.content = a.content /\ r.thinking = a.thinking
        /\ r.textBytes = a.textBytes + Len(c) + Len(t) /\ SameSplitter(a, r) /\ SameRest(a, r)
    BY <1>3, <2>1 DEF Whole, SameSplitter, SameRest
  <2>3. IsAssembler(r) BY <1>1, <2>2 DEF IsAssembler, SameSplitter
  <2>8. Len(c) + Len(shown) > MaxAggregate - Retained(a) /\ Retained(a) \in Nat
    BY <1>1, <1>5, <1>9
  <2>4. Retained(a) + Len(c) + Len(shown) > MaxAggregate BY <1>1, <2>8
  <2>5. IsText(<<>>) /\ c = Cat(<<>>, c) /\ r.content = Cat(a.content, <<>>)
    BY <2>2, CatNothing DEF IsAssembler
  <2>6. GaveUp(a, r, c, t) BY <1>5, <2>2, <2>4, <2>5 DEF GaveUp
  <2>7. QED BY <1>5, <2>2, <2>3, <2>6 DEF Gave, r
<1>6. CASE a.failed = "no" /\ ~(options.aggregate /\ Len(c) + Len(shown) > MaxAggregate - Retained(a))
  <2>1. r = [counted EXCEPT !.content = Cat(a.content, c), !.thinking = Cat(a.thinking, shown)]
    BY <1>3, <1>6 DEF Output, Shown, Retained, Cat
  <2> HIDE DEF counted, r
  <2>2. Whole(r) /\ r.failed = "no" /\ r.content = Cat(a.content, c)
        /\ r.thinking = Cat(a.thinking, shown)
        /\ r.textBytes = a.textBytes + Len(c) + Len(t) /\ SameSplitter(a, r) /\ SameRest(a, r)
    BY <1>3, <1>6, <2>1 DEF Whole, SameSplitter, SameRest
  <2>3. /\ IsText(r.content) /\ Len(r.content) = Len(a.content) + Len(c)
        /\ IsThought(r.thinking) /\ Len(r.thinking) = Len(a.thinking) + Len(shown)
    <3>1. IsText(a.content) /\ IsThought(a.thinking) BY DEF IsAssembler
    <3>2. IsText(Cat(a.content, c)) /\ Len(Cat(a.content, c)) = Len(a.content) + Len(c)
      BY <3>1, CatFacts
    <3>3. /\ IsThought(Cat(a.thinking, shown))
          /\ Len(Cat(a.thinking, shown)) = Len(a.thinking) + Len(shown)
      BY <1>1, <3>1, ThoughtFacts
    <3>4. QED BY <2>2, <3>2, <3>3
  <2>4. IsAssembler(r) BY <1>1, <2>2, <2>3 DEF IsAssembler, SameSplitter
  <2>8. Retained(r) = Retained(a) + (Len(c) + Len(shown))
    <3>1. Retained(r) = (Len(a.content) + Len(c)) + (Len(a.thinking) + Len(shown)) BY <2>3 DEF Retained
    <3>2. Retained(a) = Len(a.content) + Len(a.thinking) BY DEF Retained
    <3>3. Len(a.content) \in Nat /\ Len(a.thinking) \in Nat /\ Len(c) \in Nat /\ Len(shown) \in Nat
      BY <1>1
    <3>4. (Len(a.content) + Len(c)) + (Len(a.thinking) + Len(shown))
            = (Len(a.content) + Len(a.thinking)) + (Len(c) + Len(shown))
      <4> DEFINE w == Len(a.content)
                 x == Len(c)
                 y == Len(a.thinking)
                 z == Len(shown)
      <4>1. w \in Nat /\ x \in Nat /\ y \in Nat /\ z \in Nat BY <3>3
      <4> HIDE DEF w, x, y, z
      <4>2. (w + x) + (y + z) = (w + y) + (x + z) BY <4>1
      <4>3. QED BY <4>2 DEF w, x, y, z
    <3>5. QED BY <3>1, <3>2, <3>4
  <2>9. options.aggregate => ~(Len(c) + Len(shown) > MaxAggregate - Retained(a)) BY <1>6
  <2>10. options.aggregate => Retained(a) + (Len(c) + Len(shown)) <= MaxAggregate
    BY <1>1, <1>9, <2>9
  <2>5. Fits(options, r) BY <2>8, <2>10 DEF Fits
  <2>6. GaveAll(a, r, c, t) BY <2>2, <2>5 DEF GaveAll
  <2>7. QED BY <1>6, <2>2, <2>4, <2>6 DEF Gave, r
<1>7. QED BY <1>4, <1>5, <1>6

\* Two outputs in a row are one of both texts.
LEMMA GaveTogether ==
    ASSUME NEW a, IsAssembler(a), NEW b, NEW c, NEW t, Gave(a, b, c, t), IsText(c), IsThought(t),
           NEW m, SameOutput(b, m), SameRest(b, m),
           NEW r, NEW d, NEW u, Gave(m, r, d, u), IsText(d), IsThought(u)
    PROVE  Gave(a, r, Cat(c, d), Cat(t, u))
<1>1. IsAssembler(r) /\ SameRest(a, r) BY DEF Gave, SameRest
<1>2. CASE a.failed # "no"
  <2>1. SameOutput(a, r) BY <1>2 DEF Gave, SameOutput
  <2>2. QED BY <1>1, <1>2, <2>1 DEF Gave
<1>3. CASE a.failed = "no"
  <2>1. /\ IsText(a.content) /\ IsThought(a.thinking) /\ a.textBytes \in Nat
        /\ Len(a.content) \in Nat /\ Len(a.thinking) \in Nat
    BY CatFacts, ThoughtFacts DEF IsAssembler
  <2>2. /\ Len(Cat(c, d)) = Len(c) + Len(d) /\ Len(Cat(t, u)) = Len(t) + Len(u)
        /\ Len(c) \in Nat /\ Len(d) \in Nat /\ Len(t) \in Nat /\ Len(u) \in Nat
    BY CatFacts, ThoughtFacts
  <2>3. /\ Shown(Cat(t, u)) = Cat(Shown(t), Shown(u))
        /\ IsThought(Shown(t)) /\ IsThought(Shown(u))
        /\ Len(Shown(t)) \in Nat /\ Len(Shown(u)) \in Nat
        /\ Len(Shown(Cat(t, u))) = Len(Shown(t)) + Len(Shown(u))
    <3>1. Cat(<<>>, <<>>) = <<>> BY CatNothing
    <3>2. Shown(Cat(t, u)) = Cat(Shown(t), Shown(u)) BY <3>1 DEF Shown
    <3>3. IsThought(Shown(t)) /\ IsThought(Shown(u)) BY ThoughtFacts DEF Shown
    <3>4. QED BY <3>2, <3>3, ThoughtFacts
  <2>7. Retained(a) \in Nat
    <3>1. \A x, y : x \in Nat /\ y \in Nat => x + y \in Nat OBVIOUS
    <3>2. QED BY <2>1, <3>1 DEF Retained
  <2>4. CASE GaveUp(a, b, c, t)
    <3>1. m.failed = "limit" /\ m.failed # "no" BY <2>4 DEF GaveUp, SameOutput
    <3>2. SameOutput(m, r) BY <3>1 DEF Gave
    <3>3. r.failed = "limit" /\ options.aggregate BY <2>4, <3>1, <3>2 DEF GaveUp, SameOutput
    <3>4. PICK e, f : IsText(e) /\ IsText(f) /\ c = Cat(e, f) /\ b.content = Cat(a.content, e)
      BY <2>4 DEF GaveUp
    <3>5. Cat(c, d) = Cat(e, Cat(f, d)) /\ IsText(Cat(f, d)) BY <3>4, CatAssoc, CatFacts
    <3>6. r.content = Cat(a.content, e) BY <3>2, <3>4 DEF SameOutput
    <3>7. Retained(a) + Len(Cat(c, d)) + Len(Shown(Cat(t, u))) > MaxAggregate
      <4>1. Retained(a) + Len(c) + Len(Shown(t)) > MaxAggregate BY <2>4 DEF GaveUp
      <4>2. Retained(a) \in Nat /\ MaxAggregate \in Nat
        BY <2>7, AssemblyAssumption
      <4>3. QED BY <2>2, <2>3, <4>1, <4>2
    <3>8. GaveUp(a, r, Cat(c, d), Cat(t, u)) BY <3>3, <3>4, <3>5, <3>6, <3>7 DEF GaveUp
    <3>9. QED BY <1>1, <1>3, <3>8 DEF Gave
  <2>5. CASE GaveAll(a, b, c, t)
    <3>1. /\ m.failed = "no" /\ m.content = Cat(a.content, c) /\ m.thinking = Cat(a.thinking, Shown(t))
          /\ m.textBytes = a.textBytes + Len(c) + Len(t)
      BY <2>5 DEF GaveAll, SameOutput
    <3>2. /\ Len(m.content) = Len(a.content) + Len(c)
          /\ Len(m.thinking) = Len(a.thinking) + Len(Shown(t))
      <4>1. Len(Cat(a.content, c)) = Len(a.content) + Len(c) BY <2>1, CatFacts
      <4>2. Len(Cat(a.thinking, Shown(t))) = Len(a.thinking) + Len(Shown(t))
        BY <2>1, <2>3, ThoughtFacts
      <4>3. QED BY <3>1, <4>1, <4>2
    <3>3. CASE GaveAll(m, r, d, u)
      <4>1. r.content = Cat(a.content, Cat(c, d))
        <5>1. r.content = Cat(Cat(a.content, c), d) BY <3>1, <3>3 DEF GaveAll
        <5>2. QED BY <2>1, <5>1, CatAssoc
      <4>2. r.thinking = Cat(a.thinking, Shown(Cat(t, u)))
        <5>1. r.thinking = Cat(Cat(a.thinking, Shown(t)), Shown(u)) BY <3>1, <3>3 DEF GaveAll
        <5>2. QED BY <2>1, <2>3, <5>1, ThoughtFacts
      <4>3. r.textBytes = a.textBytes + Len(Cat(c, d)) + Len(Cat(t, u))
        <5>1. r.textBytes = m.textBytes + Len(d) + Len(u) BY <3>3 DEF GaveAll
        <5>2. QED BY <2>1, <2>2, <3>1, <5>1
      <4>4. GaveAll(a, r, Cat(c, d), Cat(t, u)) BY <3>3, <4>1, <4>2, <4>3 DEF GaveAll
      <4>5. QED BY <1>1, <1>3, <4>4 DEF Gave
    <3>4. CASE GaveUp(m, r, d, u)
      <4>1. PICK e, f : IsText(e) /\ IsText(f) /\ d = Cat(e, f) /\ r.content = Cat(m.content, e)
        BY <3>4 DEF GaveUp
      <4>2. Cat(c, d) = Cat(Cat(c, e), f) /\ IsText(Cat(c, e)) BY <4>1, CatAssoc, CatFacts
      <4>3. r.content = Cat(a.content, Cat(c, e)) BY <2>1, <3>1, <4>1, CatAssoc
      <4>4. Retained(a) + Len(Cat(c, d)) + Len(Shown(Cat(t, u))) > MaxAggregate
        <5>1. Retained(m) + Len(d) + Len(Shown(u)) > MaxAggregate BY <3>4 DEF GaveUp
        <5>2. Retained(m) = Retained(a) + (Len(c) + Len(Shown(t)))
          <6>1. Retained(m) = (Len(a.content) + Len(c)) + (Len(a.thinking) + Len(Shown(t)))
            BY <3>2 DEF Retained
          <6>2. Retained(a) = Len(a.content) + Len(a.thinking) BY DEF Retained
          <6>3. /\ Len(a.content) \in Nat /\ Len(a.thinking) \in Nat
                /\ Len(c) \in Nat /\ Len(Shown(t)) \in Nat
            BY <2>1, <2>2, <2>3
          <6>4. (Len(a.content) + Len(c)) + (Len(a.thinking) + Len(Shown(t)))
                  = (Len(a.content) + Len(a.thinking)) + (Len(c) + Len(Shown(t)))
            <7> DEFINE w == Len(a.content)
                       x == Len(c)
                       y == Len(a.thinking)
                       z == Len(Shown(t))
            <7>1. w \in Nat /\ x \in Nat /\ y \in Nat /\ z \in Nat BY <6>3
            <7> HIDE DEF w, x, y, z
            <7>2. (w + x) + (y + z) = (w + y) + (x + z) BY <7>1
            <7>3. QED BY <7>2 DEF w, x, y, z
          <6>5. QED BY <6>1, <6>2, <6>4
        <5>3. MaxAggregate \in Nat BY AssemblyAssumption
        <5>4. QED BY <2>2, <2>3, <2>7, <5>1, <5>2, <5>3
      <4>5. GaveUp(a, r, Cat(c, d), Cat(t, u)) BY <3>4, <4>1, <4>2, <4>3, <4>4 DEF GaveUp
      <4>6. QED BY <1>1, <1>3, <4>5 DEF Gave
    <3>5. QED BY <3>1, <3>3, <3>4 DEF Gave
  <2>6. QED BY <1>3, <2>4, <2>5 DEF Gave
<1>4. QED BY <1>2, <1>3

LEMMA GaveAlike ==
    ASSUME NEW a, NEW m, SameOutput(a, m), SameRest(a, m), NEW r, NEW c, NEW t, Gave(m, r, c, t)
    PROVE  Gave(a, r, c, t)
BY DEF Gave, GaveAll, GaveUp, SameOutput, SameRest, Retained

\* What the splitter does to its own fields.
Turned(a, inside, extracted, pending) ==
    [a EXCEPT !.inside = inside, !.extracted = extracted, !.pending = pending]

TurnedTo(a, m, inside, extracted, pending) ==
    /\ IsAssembler(m) /\ SameOutput(a, m) /\ SameRest(a, m)
    /\ m.inside = inside /\ m.extracted = extracted /\ m.pending = pending

LEMMA TurnedFacts ==
    ASSUME NEW a, IsAssembler(a), NEW inside \in BOOLEAN, NEW extracted \in BOOLEAN, NEW pending
    PROVE  TurnedTo(a, Turned(a, inside, extracted, pending), inside, extracted, pending)
<1> DEFINE m == Turned(a, inside, extracted, pending)
<1>1. Whole(a) BY DEF IsAssembler
<1>2. m = [a EXCEPT !.inside = inside, !.extracted = extracted, !.pending = pending] BY DEF Turned
<1> HIDE DEF m
<1>3. Whole(m) BY <1>1, <1>2 DEF Whole
<1>4. m.inside = inside BY <1>1, <1>2 DEF Whole
<1>5. m.extracted = extracted BY <1>1, <1>2 DEF Whole
<1>6. m.pending = pending BY <1>1, <1>2 DEF Whole
<1>7. SameOutput(a, m) /\ SameRest(a, m) BY <1>1, <1>2 DEF Whole, SameOutput, SameRest
<1>8. m.inside \in BOOLEAN /\ m.extracted \in BOOLEAN BY <1>4, <1>5
<1>9. IsAssembler(m) BY <1>3, <1>7, <1>8 DEF IsAssembler, SameOutput
<1>10. TurnedTo(a, m, inside, extracted, pending) BY <1>4, <1>5, <1>6, <1>7, <1>9 DEF TurnedTo
<1>11. QED BY <1>10 DEF m

\* Where the code sets the splitter's fields.
LEMMA Turnings ==
    ASSUME NEW a, IsAssembler(a), NEW k
    PROVE  /\ [a EXCEPT !.pending = k] = Turned(a, a.inside, a.extracted, k)
           /\ [a EXCEPT !.inside = TRUE] = Turned(a, TRUE, a.extracted, a.pending)
           /\ [a EXCEPT !.inside = FALSE, !.extracted = TRUE] = Turned(a, FALSE, TRUE, a.pending)
<1>1. Whole(a) BY DEF IsAssembler
<1>2. [a EXCEPT !.pending = k] = Turned(a, a.inside, a.extracted, k) BY <1>1 DEF Whole, Turned
<1>3. [a EXCEPT !.inside = TRUE] = Turned(a, TRUE, a.extracted, a.pending) BY <1>1 DEF Whole, Turned
<1>4. [a EXCEPT !.inside = FALSE, !.extracted = TRUE] = Turned(a, FALSE, TRUE, a.pending)
  BY <1>1 DEF Whole, Turned
<1>5. QED BY <1>2, <1>3, <1>4

LEMMA SplitterGives ==
    ASSUME NEW a, IsAssembler(a), NEW text, IsText(text)
    PROVE  /\ a.inside => Gave(a, SplitterOutput(a, text), <<>>, text)
           /\ ~a.inside => Gave(a, SplitterOutput(a, text), text, <<>>)
           /\ SameSplitter(a, SplitterOutput(a, text))
<1>1. IsText(<<>>) /\ IsThought(<<>>) /\ IsThought(text) BY CatNothing, ThoughtFacts
<1>2. /\ Gave(a, Output(a, <<>>, text), <<>>, text) /\ SameSplitter(a, Output(a, <<>>, text))
      /\ Gave(a, Output(a, text, <<>>), text, <<>>) /\ SameSplitter(a, Output(a, text, <<>>))
  BY <1>1, OutputGives
<1>3. CASE a.inside
  <2>1. SplitterOutput(a, text) = Output(a, <<>>, text) BY <1>3 DEF SplitterOutput
  <2>2. QED BY <1>2, <1>3, <2>1
<1>4. CASE ~a.inside
  <2>1. SplitterOutput(a, text) = Output(a, text, <<>>) BY <1>4 DEF SplitterOutput
  <2>2. QED BY <1>2, <1>4, <2>1
<1>5. QED BY <1>3, <1>4

HeldBack(a, r, text, tag) ==
    /\ a.inside => Gave(a, r, <<>>, Released(text, tag))
    /\ ~a.inside => Gave(a, r, Released(text, tag), <<>>)
    /\ r.inside = a.inside /\ r.extracted = a.extracted /\ r.pending = KeptBack(text, tag)

\* What HoldBack gives out and what it keeps.
LEMMA HoldBackGives ==
    ASSUME NEW a, IsAssembler(a), NEW text, IsText(text), NEW tag \in Tags
    PROVE  HeldBack(a, HoldBack(a, text, tag), text, tag)
<1> DEFINE r == HoldBack(a, text, tag)
           k == KeptBack(text, tag)
           m == Turned(a, a.inside, a.extracted, k)
<1>1. r = SplitterOutput([a EXCEPT !.pending = k], Released(text, tag))
  BY DEF HoldBack, Kept, KeptBack, Released
<1>2. IsText(Released(text, tag)) BY KeptFacts DEF IsText
<1> HIDE DEF k, r
<1>3. a.inside \in BOOLEAN /\ a.extracted \in BOOLEAN BY DEF IsAssembler
<1>4. r = SplitterOutput(m, Released(text, tag)) BY <1>1, Turnings
<1> HIDE DEF m
<1>5. /\ IsAssembler(m) /\ SameOutput(a, m) /\ SameRest(a, m)
      /\ m.inside = a.inside /\ m.extracted = a.extracted /\ m.pending = k
  <2>1. TurnedTo(a, m, a.inside, a.extracted, k) BY <1>3, TurnedFacts DEF m
  <2>2. QED BY <2>1 DEF TurnedTo
<1>6. /\ m.inside => Gave(m, r, <<>>, Released(text, tag))
      /\ ~m.inside => Gave(m, r, Released(text, tag), <<>>)
      /\ SameSplitter(m, r)
  BY <1>2, <1>4, <1>5, SplitterGives
<1>7. /\ a.inside => Gave(a, r, <<>>, Released(text, tag))
      /\ ~a.inside => Gave(a, r, Released(text, tag), <<>>)
  BY <1>5, <1>6, GaveAlike
<1>8. r.inside = a.inside /\ r.extracted = a.extracted /\ r.pending = k
  BY <1>5, <1>6 DEF SameSplitter
<1>9. HeldBack(a, r, text, tag) BY <1>7, <1>8 DEF HeldBack, k
<1>10. QED BY <1>9 DEF r
----------------------------------------------------------------------------
(* The splitter                                                             *)

\* The block begins behind B, and R follows its tag.
Begun(o, T, B, R) ==
    IF o.thinkInitial THEN B = <<>> /\ R = T
    ELSE T = Cat(Cat(B, OpenTag), R) /\ Find(T, OpenTag) = Len(B) + 1

IsOutside(o, T, p, C, H) == ~o.thinkInitial /\ H = <<>> /\ Scanned(T, C, p, OpenTag)
IsInside(o, T, p, C, H) == \E R : IsText(R) /\ Begun(o, T, C, R) /\ Scanned(R, H, p, CloseTag)
IsDone(o, T, p, C, H) ==
    /\ p = <<>>
    /\ \E B, R, E : /\ IsText(B) /\ IsText(R) /\ IsText(E) /\ Begun(o, T, B, R)
                    /\ R = Cat(Cat(H, CloseTag), E) /\ Find(R, CloseTag) = Len(H) + 1
                    /\ C = Cat(B, E)

\* Of the text T, the content C and the thinking H are given out.
Splits(o, T, a, C, H) ==
    /\ IsText(C) /\ IsText(H) /\ IsText(a.pending)
    /\ ~o.thinkTags => a.pending = <<>> /\ C = T /\ H = <<>>
    /\ o.thinkTags =>
        /\ a.extracted => ~a.inside /\ IsDone(o, T, a.pending, C, H)
        /\ ~a.extracted /\ a.inside => IsInside(o, T, a.pending, C, H)
        /\ ~a.extracted /\ ~a.inside => IsOutside(o, T, a.pending, C, H)

\* A block that has begun stays begun, with more text.
LEMMA BegunOn ==
    ASSUME NEW o, NEW T, IsText(T), NEW B, IsText(B), NEW R, IsText(R), Begun(o, T, B, R),
           NEW x, IsText(x)
    PROVE  Begun(o, Cat(T, x), B, Cat(R, x))
<1>1. CASE o.thinkInitial BY <1>1 DEF Begun
<1>2. CASE ~o.thinkInitial
  <2>1. T = Cat(Cat(B, OpenTag), R) /\ Find(T, OpenTag) = Len(B) + 1 BY <1>2 DEF Begun
  <2>2. OpenTag \in Tags /\ IsText(OpenTag) BY TagTyped DEF Tags, IsText
  <2>3. IsText(Cat(B, OpenTag)) /\ Len(B) \in Nat BY <2>2, CatFacts
  <2>4. Cat(T, x) = Cat(Cat(B, OpenTag), Cat(R, x)) BY <2>1, <2>3, CatAssoc
  <2>5. Find(T, OpenTag) # 0 BY <2>1, <2>3
  <2>6. Find(Cat(T, x), OpenTag) = Find(T, OpenTag) BY <2>2, <2>5, FindKept DEF Cat, IsText
  <2>7. QED BY <1>2, <2>1, <2>4, <2>6 DEF Begun
<1>3. QED BY <1>1, <1>2

SplitOn(a, r, T, C, H) ==
    \E c, t : /\ IsText(c) /\ IsText(t) /\ Gave(a, r, c, t)
              /\ Splits(options, T, r, Cat(C, c), Cat(H, t))
Becomes(r, s) == r = s

\* One feeding of a text inside the block.
LEMMA InsideSplits ==
    ASSUME NEW a, IsAssembler(a), a.inside, ~a.extracted, a.pending = <<>>, options.thinkTags,
           NEW T, NEW B, IsText(B), NEW R, IsText(R), NEW H, IsText(H), NEW p, NEW x, IsText(x),
           Begun(options, T, B, Cat(R, x)), Scanned(R, H, p, CloseTag),
           NEW r, Becomes(r, FeedInside(a, Cat(p, x)))
    PROVE  SplitOn(a, r, T, B, H)
<1> DEFINE text == Cat(p, x)
<1>6. r = FeedInside(a, text) BY DEF Becomes
<1>1. CloseTag \in Tags /\ IsText(CloseTag) BY TagTyped DEF Tags, IsText
<1>2. IsText(p) /\ IsText(text) /\ IsText(<<>>) /\ IsText(Cat(R, x))
  BY CatFacts, CatNothing DEF Scanned, Longest, IsText
<1>3. CASE Find(text, CloseTag) = 0
  <2> DEFINE t == Released(text, CloseTag)
  <2>1. r = HoldBack(a, text, CloseTag) BY <1>3, <1>6 DEF FeedInside
  <2>10. /\ a.inside => Gave(a, r, <<>>, t)
         /\ r.inside = a.inside /\ r.extracted = a.extracted /\ r.pending = KeptBack(text, CloseTag)
    <3>1. HeldBack(a, HoldBack(a, text, CloseTag), text, CloseTag) BY <1>1, <1>2, HoldBackGives
    <3>2. HeldBack(a, r, text, CloseTag) BY <2>1, <3>1
    <3>3. QED BY <3>2 DEF HeldBack
  <2>2. /\ Gave(a, r, <<>>, t)
        /\ r.inside = a.inside /\ r.extracted = a.extracted /\ r.pending = KeptBack(text, CloseTag)
    BY <2>10
  <2>3. Scanned(Cat(R, x), Cat(H, t), KeptBack(text, CloseTag), CloseTag) BY <1>1, <1>3, ScannedOn
  <2>4. IsText(t) /\ IsText(r.pending) BY <1>1, <1>2, <2>2, KeptFacts DEF IsText
  <2> HIDE DEF t
  <2>5. IsText(Cat(H, t)) /\ IsText(Cat(B, <<>>)) /\ Cat(B, <<>>) = B BY <1>2, <2>4, CatFacts, CatNothing
  <2>6. IsInside(options, T, r.pending, B, Cat(H, t)) BY <1>2, <2>2, <2>3 DEF IsInside
  <2>7. r.inside /\ ~r.extracted BY <2>2
  <2>8. Splits(options, T, r, Cat(B, <<>>), Cat(H, t)) BY <2>4, <2>5, <2>6, <2>7 DEF Splits
  <2>9. QED BY <1>2, <2>2, <2>4, <2>8 DEF SplitOn
<1>4. CASE Find(text, CloseTag) # 0
  <2> DEFINE at == Find(text, CloseTag)
             t == Before(text, at)
             e == After(text, at, CloseTag)
             b == SplitterOutput(a, t)
             m == Turned(b, FALSE, TRUE, b.pending)
  <2>1. /\ IsText(t) /\ IsText(e)
        /\ Cat(R, x) = Cat(Cat(Cat(H, t), CloseTag), e)
        /\ Find(Cat(R, x), CloseTag) = Len(Cat(H, t)) + 1
    BY <1>1, <1>4, ScannedTag
  <2>2. Gave(a, b, <<>>, t) /\ SameSplitter(a, b) BY <2>1, SplitterGives
  <2>3. IsAssembler(b) /\ b.pending = <<>> BY <2>2 DEF Gave, SameSplitter
  <2>4. r = Output(m, e, <<>>)
    <3>1. r = Output([b EXCEPT !.inside = FALSE, !.extracted = TRUE], e, <<>>)
      BY <1>4, <1>6 DEF FeedInside
    <3> HIDE DEF b, e
    <3>2. QED BY <2>3, <3>1, Turnings
  <2> HIDE DEF at, t, e, b, m
  <2>14. /\ IsAssembler(m) /\ SameOutput(b, m) /\ SameRest(b, m)
         /\ m.inside = FALSE /\ m.extracted = TRUE /\ m.pending = b.pending
    <3>1. FALSE \in BOOLEAN /\ TRUE \in BOOLEAN OBVIOUS
    <3>2. TurnedTo(b, m, FALSE, TRUE, b.pending) BY <2>3, <3>1, TurnedFacts DEF m
    <3>3. QED BY <3>2 DEF TurnedTo
  <2>5. /\ IsAssembler(m) /\ SameOutput(b, m) /\ SameRest(b, m)
        /\ ~m.inside /\ m.extracted /\ m.pending = <<>>
    BY <2>3, <2>14
  <2>6. Gave(m, r, e, <<>>) /\ SameSplitter(m, r)
    BY <2>1, <2>4, <2>5, OutputGives, ThoughtFacts
  <2>7. Gave(a, r, Cat(<<>>, e), Cat(t, <<>>))
    BY <1>2, <2>1, <2>2, <2>5, <2>6, GaveTogether, ThoughtFacts
  <2>8. Gave(a, r, e, t) BY <2>1, <2>7, CatNothing
  <2>9. r.pending = <<>> /\ ~r.inside /\ r.extracted BY <2>5, <2>6 DEF SameSplitter
  <2>10. IsText(Cat(H, t)) /\ IsText(Cat(B, e)) BY <2>1, CatFacts
  <2>11. IsDone(options, T, <<>>, Cat(B, e), Cat(H, t))
    BY <1>2, <2>1 DEF IsDone
  <2>12. Splits(options, T, r, Cat(B, e), Cat(H, t))
    BY <1>2, <2>9, <2>10, <2>11 DEF Splits
  <2>13. QED BY <2>1, <2>8, <2>12 DEF SplitOn
<1>5. QED BY <1>3, <1>4

\* One feeding of a text before the block.
LEMMA OutsideSplits ==
    ASSUME NEW a, IsAssembler(a), ~a.inside, ~a.extracted, a.pending = <<>>,
           options.thinkTags, ~options.thinkInitial,
           NEW T, IsText(T), NEW C, IsText(C), NEW p, NEW x, IsText(x),
           Scanned(T, C, p, OpenTag),
           NEW r, Becomes(r, FeedOutside(a, Cat(p, x)))
    PROVE  SplitOn(a, r, Cat(T, x), C, <<>>)
<1> DEFINE text == Cat(p, x)
           more == Cat(T, x)
<1>6. r = FeedOutside(a, text) BY DEF Becomes
<1>1. OpenTag \in Tags /\ IsText(OpenTag) BY TagTyped DEF Tags, IsText
<1>2. IsText(p) /\ IsText(text) /\ IsText(<<>>) /\ IsText(more) /\ IsThought(<<>>)
      /\ Cat(<<>>, <<>>) = <<>>
  BY CatFacts, CatNothing, ThoughtFacts DEF Scanned, Longest, IsText
<1>3. CASE Find(text, OpenTag) = 0
  <2> DEFINE c == Released(text, OpenTag)
  <2>1. r = HoldBack(a, text, OpenTag) BY <1>3, <1>6 DEF FeedOutside
  <2>2. /\ ~a.inside => Gave(a, r, c, <<>>)
        /\ r.inside = a.inside /\ r.extracted = a.extracted /\ r.pending = KeptBack(text, OpenTag)
    <3>1. HeldBack(a, HoldBack(a, text, OpenTag), text, OpenTag) BY <1>1, <1>2, HoldBackGives
    <3>2. HeldBack(a, r, text, OpenTag) BY <2>1, <3>1
    <3>3. QED BY <3>2 DEF HeldBack
  <2>3. Scanned(more, Cat(C, c), KeptBack(text, OpenTag), OpenTag) BY <1>1, <1>3, ScannedOn
  <2>4. IsText(c) /\ IsText(r.pending) BY <1>1, <1>2, <2>2, KeptFacts DEF IsText
  <2> HIDE DEF c, more
  <2>5. IsText(Cat(C, c)) BY <2>4, CatFacts
  <2>6. IsOutside(options, more, r.pending, Cat(C, c), <<>>) BY <2>2, <2>3 DEF IsOutside
  <2>7. ~r.inside /\ ~r.extracted BY <2>2
  <2>8. Splits(options, more, r, Cat(C, c), Cat(<<>>, <<>>))
    BY <1>2, <2>4, <2>5, <2>6, <2>7 DEF Splits
  <2>9. QED BY <1>2, <2>2, <2>4, <2>8 DEF SplitOn, more
<1>4. CASE Find(text, OpenTag) # 0
  <2> DEFINE at == Find(text, OpenTag)
             c == Before(text, at)
             rest == After(text, at, OpenTag)
             b == SplitterOutput(a, c)
             m == Turned(b, TRUE, b.extracted, b.pending)
             B == Cat(C, c)
  <2>1. /\ IsText(c) /\ IsText(rest)
        /\ more = Cat(Cat(B, OpenTag), rest)
        /\ Find(more, OpenTag) = Len(B) + 1
    BY <1>1, <1>4, ScannedTag
  <2>2. Gave(a, b, c, <<>>) /\ SameSplitter(a, b) BY <2>1, SplitterGives
  <2>3. IsAssembler(b) /\ b.pending = <<>> /\ b.extracted = a.extracted BY <2>2 DEF Gave, SameSplitter
  <2>4. r = FeedInside(m, rest)
    <3>1. r = FeedInside([b EXCEPT !.inside = TRUE], rest)
      BY <1>4, <1>6 DEF FeedOutside
    <3> HIDE DEF b, rest
    <3>2. QED BY <2>3, <3>1, Turnings
  <2>13. IsText(B) BY <2>1, CatFacts
  <2> HIDE DEF at, c, rest, b, m, B, more
  <2>14. /\ IsAssembler(m) /\ SameOutput(b, m) /\ SameRest(b, m)
         /\ m.inside = TRUE /\ m.extracted = b.extracted /\ m.pending = b.pending
    <3>1. TRUE \in BOOLEAN /\ b.extracted \in BOOLEAN BY <2>3 DEF IsAssembler
    <3>2. TurnedTo(b, m, TRUE, b.extracted, b.pending) BY <2>3, <3>1, TurnedFacts DEF m
    <3>3. QED BY <3>2 DEF TurnedTo
  <2>5. m.inside BY <2>14
  <2>6. ~m.extracted
    <3>1. m.extracted = a.extracted BY <2>3, <2>14
    <3>2. QED BY <3>1
  <2>7. Cat(<<>>, rest) = rest BY <2>1, CatNothing
  <2>8. Becomes(r, FeedInside(m, Cat(<<>>, rest))) BY <2>4, <2>7 DEF Becomes
  <2>9. Begun(options, more, B, Cat(<<>>, rest)) BY <2>1, <2>7 DEF Begun
  <2>10. Scanned(<<>>, <<>>, <<>>, CloseTag) BY NothingScanned DEF Tags
  <2>11. m.pending = <<>> BY <2>3, <2>14
  <2>12. SplitOn(m, r, more, B, <<>>)
    BY <1>2, <2>1, <2>5, <2>6, <2>8, <2>9, <2>10, <2>11, <2>13, <2>14, InsideSplits
  <2>15. PICK d, u : /\ IsText(d) /\ IsText(u) /\ Gave(m, r, d, u)
                     /\ Splits(options, more, r, Cat(B, d), Cat(<<>>, u))
    BY <2>12 DEF SplitOn
  <2>16. Gave(a, r, Cat(c, d), Cat(<<>>, u))
    BY <1>2, <2>1, <2>2, <2>14, <2>15, GaveTogether, ThoughtFacts
  <2>17. Cat(B, d) = Cat(C, Cat(c, d)) /\ IsText(Cat(c, d)) /\ Cat(<<>>, u) = u
    BY <2>1, <2>15, CatAssoc, CatFacts, CatNothing DEF B
  <2>18. Gave(a, r, Cat(c, d), u) /\ Splits(options, more, r, Cat(C, Cat(c, d)), Cat(<<>>, u))
    BY <2>15, <2>16, <2>17
  <2>19. QED BY <2>15, <2>17, <2>18 DEF SplitOn, more
<1>5. QED BY <1>3, <1>4

\* Text after the block, or of a splitter that is not there, is all content.
LEMMA PlainSplits ==
    ASSUME NEW a, IsAssembler(a), NEW T, IsText(T), NEW C, NEW H, Splits(options, T, a, C, H),
           ~options.thinkTags \/ a.extracted, NEW x, IsText(x),
           NEW m, TurnedTo(a, m, a.inside, a.extracted, <<>>),
           NEW r, Becomes(r, Output(m, x, <<>>))
    PROVE  SplitOn(a, r, Cat(T, x), C, H)
<1>1. IsText(C) /\ IsText(H) /\ IsText(<<>>) /\ IsThought(<<>>) BY CatNothing, ThoughtFacts DEF Splits
<1>2. Gave(m, r, x, <<>>) /\ SameSplitter(m, r) BY <1>1, OutputGives DEF TurnedTo, Becomes
<1>3. Gave(a, r, x, <<>>) BY <1>2, GaveAlike DEF TurnedTo
<1>4. r.pending = <<>> /\ r.inside = a.inside /\ r.extracted = a.extracted
  BY <1>2 DEF TurnedTo, SameSplitter
<1>5. IsText(Cat(C, x)) /\ Cat(H, <<>>) = H BY <1>1, CatFacts, CatNothing
<1>6. CASE ~options.thinkTags
  <2>1. C = T /\ H = <<>> BY <1>6 DEF Splits
  <2>2. Splits(options, Cat(T, x), r, Cat(C, x), H) BY <1>1, <1>4, <1>5, <1>6, <2>1 DEF Splits
  <2>3. Splits(options, Cat(T, x), r, Cat(C, x), Cat(H, <<>>)) BY <1>5, <2>2
  <2>4. QED BY <1>1, <1>3, <2>3 DEF SplitOn
<1>7. CASE options.thinkTags
  <2>1. a.extracted BY <1>7
  <2>2. ~a.inside /\ IsDone(options, T, a.pending, C, H) BY <1>7, <2>1 DEF Splits
  <2>3. PICK B, R, E : /\ IsText(B) /\ IsText(R) /\ IsText(E) /\ Begun(options, T, B, R)
                       /\ R = Cat(Cat(H, CloseTag), E) /\ Find(R, CloseTag) = Len(H) + 1
                       /\ C = Cat(B, E)
    BY <2>2 DEF IsDone
  <2>4. Begun(options, Cat(T, x), B, Cat(R, x)) BY <2>3, BegunOn
  <2>5. CloseTag \in Tags /\ IsText(CloseTag) BY TagTyped DEF Tags, IsText
  <2>6. Cat(R, x) = Cat(Cat(H, CloseTag), Cat(E, x)) /\ IsText(Cat(R, x)) /\ IsText(Cat(E, x))
    <3>1. IsText(Cat(H, CloseTag)) BY <1>1, <2>5, CatFacts
    <3>2. QED BY <2>3, <3>1, CatAssoc, CatFacts
  <2>7. Find(Cat(R, x), CloseTag) = Len(H) + 1
    <3>1. Len(H) \in Nat BY <1>1, CatFacts
    <3>2. Find(R, CloseTag) # 0 BY <2>3, <3>1
    <3>3. Find(Cat(R, x), CloseTag) = Find(R, CloseTag) BY <2>3, <2>5, <3>2, FindKept DEF Cat, IsText
    <3>4. QED BY <2>3, <3>3
  <2>8. Cat(C, x) = Cat(B, Cat(E, x)) BY <2>3, CatAssoc
  <2>9. IsDone(options, Cat(T, x), <<>>, Cat(C, x), H) BY <2>3, <2>4, <2>6, <2>7, <2>8 DEF IsDone
  <2>10. r.extracted /\ ~r.inside
    <3>1. r.extracted BY <1>4, <2>1
    <3>2. ~r.inside BY <1>4, <2>2
    <3>3. QED BY <3>1, <3>2
  <2>11. Splits(options, Cat(T, x), r, Cat(C, x), H)
    BY <1>1, <1>4, <1>5, <1>7, <2>9, <2>10 DEF Splits
  <2>12. Splits(options, Cat(T, x), r, Cat(C, x), Cat(H, <<>>)) BY <1>5, <2>11
  <2>13. QED BY <1>1, <1>3, <2>12 DEF SplitOn
<1>8. QED BY <1>6, <1>7

\* One feeding of the splitter.
LEMMA FeedSplits ==
    ASSUME NEW a, IsAssembler(a), NEW T, IsText(T), NEW C, NEW H, Splits(options, T, a, C, H),
           NEW x, IsText(x),
           NEW r, Becomes(r, IF options.thinkTags THEN SplitterFeed(a, x) ELSE Output(a, x, <<>>))
    PROVE  SplitOn(a, r, Cat(T, x), C, H)
<1> DEFINE p == a.pending
           m == Turned(a, a.inside, a.extracted, <<>>)
           text == Cat(p, x)
<1>1. IsText(C) /\ IsText(H) /\ IsText(p) BY DEF Splits
<1>2. a.inside \in BOOLEAN /\ a.extracted \in BOOLEAN BY DEF IsAssembler
<1>3. TurnedTo(a, m, a.inside, a.extracted, <<>>) BY <1>2, TurnedFacts
<1>4. CASE ~options.thinkTags
  <2>1. p = <<>> BY <1>4 DEF Splits
  <2>2. TurnedTo(a, a, a.inside, a.extracted, <<>>) BY <2>1 DEF TurnedTo, SameOutput, SameRest
  <2>3. Becomes(r, Output(a, x, <<>>)) BY <1>4 DEF Becomes
  <2>4. QED BY <1>4, <2>2, <2>3, PlainSplits
<1>5. CASE options.thinkTags
  <2>1. Becomes(r, SplitterFeed(a, x)) BY <1>5 DEF Becomes
  <2>2. /\ m.extracted => Becomes(r, Output(m, text, <<>>))
        /\ ~m.extracted /\ m.inside => Becomes(r, FeedInside(m, text))
        /\ ~m.extracted /\ ~m.inside => Becomes(r, FeedOutside(m, text))
    <3>1. [a EXCEPT !.pending = <<>>] = m BY Turnings
    <3>2. r = SplitterFeed(a, x) BY <2>1 DEF Becomes
    <3> HIDE DEF m
    <3>3. r = IF m.extracted THEN Output(m, text, <<>>)
              ELSE IF m.inside THEN FeedInside(m, text) ELSE FeedOutside(m, text)
      BY <3>1, <3>2 DEF SplitterFeed, Cat
    <3>4. QED BY <3>3 DEF Becomes
  <2> HIDE DEF m
  <2>3. /\ IsAssembler(m) /\ SameOutput(a, m) /\ SameRest(a, m)
        /\ m.inside = a.inside /\ m.extracted = a.extracted /\ m.pending = <<>>
    BY <1>3 DEF TurnedTo
  <2>4. CASE a.extracted
    <3>1. p = <<>> BY <1>5, <2>4 DEF Splits, IsDone
    <3>2. text = x BY <3>1, CatNothing
    <3>3. Becomes(r, Output(m, x, <<>>))
      <4>1. m.extracted BY <2>3, <2>4
      <4>2. QED BY <2>2, <3>2, <4>1
    <3>4. QED BY <1>3, <2>4, <3>3, PlainSplits
  <2>5. CASE ~a.extracted /\ a.inside
    <3>1. PICK R : IsText(R) /\ Begun(options, T, C, R) /\ Scanned(R, H, p, CloseTag)
      BY <1>5, <2>5 DEF Splits, IsInside
    <3>2. m.inside /\ ~m.extracted BY <2>3, <2>5
    <3>3. Begun(options, Cat(T, x), C, Cat(R, x)) BY <1>1, <3>1, BegunOn
    <3>4. Becomes(r, FeedInside(m, Cat(p, x))) BY <2>2, <3>2
    <3>5. SplitOn(m, r, Cat(T, x), C, H)
      BY <1>1, <1>5, <2>3, <3>1, <3>2, <3>3, <3>4, InsideSplits
    <3>6. QED BY <2>3, <3>5, GaveAlike DEF SplitOn
  <2>6. CASE ~a.extracted /\ ~a.inside
    <3>1. ~options.thinkInitial /\ H = <<>> /\ Scanned(T, C, p, OpenTag)
      BY <1>5, <2>6 DEF Splits, IsOutside
    <3>2. ~m.inside /\ ~m.extracted BY <2>3, <2>6
    <3>4. Becomes(r, FeedOutside(m, Cat(p, x))) BY <2>2, <3>2
    <3>5. SplitOn(m, r, Cat(T, x), C, <<>>)
      BY <1>1, <1>5, <2>3, <3>1, <3>2, <3>4, OutsideSplits
    <3>6. SplitOn(m, r, Cat(T, x), C, H) BY <3>1, <3>5
    <3>7. QED BY <2>3, <3>6, GaveAlike DEF SplitOn
  <2>7. QED BY <1>2, <2>4, <2>5, <2>6
<1>6. QED BY <1>4, <1>5

\* The end of the splitter: what is held is given out.
HeldText(a) == IF a.inside = FALSE THEN a.pending ELSE <<>>
HeldThought(a) == IF a.inside = TRUE THEN a.pending ELSE <<>>
Flushed(a, r) ==
    /\ Gave(a, r, HeldText(a), HeldThought(a))
    /\ r.inside = a.inside /\ r.extracted = a.extracted /\ r.pending = <<>>

\* SplitterFinish gives out what was held.
LEMMA FinishFlushes ==
    ASSUME NEW a, IsAssembler(a), NEW T, NEW C, NEW H, Splits(options, T, a, C, H),
           NEW r, Becomes(r, IF options.thinkTags THEN SplitterFinish(a) ELSE a),
           a.failed = "no", Fits(options, a)
    PROVE  Flushed(a, r)
<1> DEFINE p == a.pending
           m == Turned(a, a.inside, a.extracted, <<>>)
<1>1. IsText(p) BY DEF Splits
<1>2. a.inside \in BOOLEAN /\ a.extracted \in BOOLEAN /\ IsText(a.content) /\ IsThought(a.thinking)
      /\ a.textBytes \in Nat
  BY DEF IsAssembler
<1>3. TurnedTo(a, m, a.inside, a.extracted, <<>>) BY <1>2, TurnedFacts
<1>4. CASE ~options.thinkTags
  <2>1. r = a /\ p = <<>> BY <1>4 DEF Becomes, Splits
  <2>2. HeldText(a) = <<>> /\ HeldThought(a) = <<>> BY <2>1 DEF HeldText, HeldThought
  <2>3. Shown(<<>>) = <<>> BY DEF Shown
  <2>4. Cat(a.content, <<>>) = a.content BY <1>2, CatNothing
  <2>5. Cat(a.thinking, <<>>) = a.thinking BY <1>2, ConcatEmptySeq DEF IsThought, Cat
  <2>6. a.textBytes = a.textBytes + 0 + 0 /\ Len(<<>>) = 0 BY <1>2
  <2>7. GaveAll(a, a, <<>>, <<>>) BY <2>3, <2>4, <2>5, <2>6 DEF GaveAll
  <2>8. Gave(a, a, <<>>, <<>>) BY <2>7 DEF Gave, SameRest
  <2>9. QED BY <2>1, <2>2, <2>8 DEF Flushed
<1>5. CASE options.thinkTags
  <2>1. r = SplitterOutput(m, p)
    <3>1. [a EXCEPT !.pending = <<>>] = m BY Turnings
    <3>2. r = SplitterFinish(a) BY <1>5 DEF Becomes
    <3> HIDE DEF m
    <3>3. QED BY <3>1, <3>2 DEF SplitterFinish
  <2> HIDE DEF m
  <2>2. /\ IsAssembler(m) /\ SameOutput(a, m) /\ SameRest(a, m)
        /\ m.inside = a.inside /\ m.extracted = a.extracted /\ m.pending = <<>>
    BY <1>3 DEF TurnedTo
  <2>3. /\ m.inside => Gave(m, r, <<>>, p)
        /\ ~m.inside => Gave(m, r, p, <<>>)
        /\ SameSplitter(m, r)
    BY <1>1, <2>1, <2>2, SplitterGives
  <2>4. /\ a.inside => Gave(a, r, <<>>, p)
        /\ ~a.inside => Gave(a, r, p, <<>>)
    BY <2>2, <2>3, GaveAlike
  <2>5. r.inside = a.inside /\ r.extracted = a.extracted /\ r.pending = <<>>
    BY <2>2, <2>3 DEF SameSplitter
  <2>6. CASE a.inside
    <3>1. a.inside = TRUE BY <1>2, <2>6
    <3>2. HeldText(a) = <<>> /\ HeldThought(a) = p BY <3>1 DEF HeldText, HeldThought
    <3>3. QED BY <2>4, <2>5, <2>6, <3>2 DEF Flushed
  <2>7. CASE ~a.inside
    <3>1. a.inside = FALSE BY <1>2, <2>7
    <3>2. HeldText(a) = p /\ HeldThought(a) = <<>> BY <3>1 DEF HeldText, HeldThought
    <3>3. QED BY <2>4, <2>5, <2>7, <3>2 DEF Flushed
  <2>8. QED BY <2>6, <2>7
<1>6. QED BY <1>4, <1>5

----------------------------------------------------------------------------
(* The whole text split at once                                             *)

From(o, T) == IF o.thinkInitial THEN 1 ELSE Find(T, OpenTag) + Len(OpenTag)
BehindOpen(o, T) == SubSeq(T, From(o, T), Len(T))
BeforeOpen(o, T) == IF o.thinkInitial THEN <<>> ELSE Before(T, Find(T, OpenTag))
Unopened(o, T) == ~o.thinkTags \/ (Find(T, OpenTag) = 0 /\ ~o.thinkInitial)
ContentOf(o, T) ==
    IF Unopened(o, T) THEN T
    ELSE Cat(BeforeOpen(o, T),
             IF Find(BehindOpen(o, T), CloseTag) = 0 THEN <<>>
             ELSE After(T, From(o, T) + Find(BehindOpen(o, T), CloseTag) - 1, CloseTag))
ThinkingOf(o, T) ==
    IF Unopened(o, T) THEN <<>>
    ELSE IF Find(BehindOpen(o, T), CloseTag) = 0 THEN BehindOpen(o, T)
         ELSE Before(BehindOpen(o, T), Find(BehindOpen(o, T), CloseTag))

\* The reference, of any text.
LEMMA WholesOf ==
    WholeContent = ContentOf(options, fed.text) /\ WholeThinking = ThinkingOf(options, fed.text)
<1>1. WholeContent = ContentOf(options, fed.text)
  BY DEF WholeContent, ContentOf, Unopened, From, BehindOpen, BeforeOpen, Cat
<1>2. WholeThinking = ThinkingOf(options, fed.text)
  BY DEF WholeThinking, ThinkingOf, Unopened, From, BehindOpen
<1>3. QED BY <1>1, <1>2

Opened(o, T, before, B, R) ==
    /\ IsText(before) /\ T = Cat(before, R) /\ From(o, T) = Len(before) + 1
    /\ BehindOpen(o, T) = R /\ BeforeOpen(o, T) = B /\ ~(Find(T, OpenTag) = 0 /\ ~o.thinkInitial)

\* Where the block of a text begins.
LEMMA BegunFacts ==
    ASSUME NEW o, NEW T, IsText(T), NEW B, IsText(B), NEW R, IsText(R), Begun(o, T, B, R)
    PROVE  \E before : Opened(o, T, before, B, R)
<1>1. OpenTag \in Tags /\ IsText(OpenTag) /\ Len(OpenTag) \in Nat BY TagTyped DEF Tags, IsText
<1>2. CASE o.thinkInitial
  <2>1. B = <<>> /\ R = T BY <1>2 DEF Begun
  <2>2. IsText(<<>>) /\ T = Cat(<<>>, T) /\ Len(<<>>) = 0 BY CatNothing
  <2>3. From(o, T) = 1 /\ BeforeOpen(o, T) = <<>> BY <1>2 DEF From, BeforeOpen
  <2>4. BehindOpen(o, T) = T BY <2>3, SubSeqFull DEF BehindOpen, IsText
  <2>5. 1 = Len(<<>>) + 1 BY <2>2
  <2>6. Opened(o, T, <<>>, B, R) BY <1>2, <2>1, <2>2, <2>3, <2>4, <2>5 DEF Opened
  <2>7. QED BY <2>6
<1>3. CASE ~o.thinkInitial
  <2> DEFINE before == Cat(B, OpenTag)
             at == Find(T, OpenTag)
  <2>1. T = Cat(before, R) /\ at = Len(B) + 1 BY <1>3 DEF Begun
  <2>2. IsText(before) /\ Len(before) = Len(B) + Len(OpenTag) /\ Len(B) \in Nat BY <1>1, CatFacts
  <2>3. BeforeOpen(o, T) = B
    <3>1. BeforeOpen(o, T) = Before(T, at) BY <1>3 DEF BeforeOpen
    <3>2. Before(Cat(Cat(B, OpenTag), R), Len(B) + 1) = B BY <1>1, TagBetween DEF Cat, IsText
    <3>3. QED BY <2>1, <3>1, <3>2
  <2>4. From(o, T) = at + Len(OpenTag) BY <1>3 DEF From
  <2> HIDE DEF before, at
  <2>5. From(o, T) = Len(before) + 1 BY <1>1, <2>1, <2>2, <2>4
  <2>6. BehindOpen(o, T) = R
    <3>1. SubSeq(Cat(before, R), Len(before) + 1, Len(Cat(before, R))) = R
      BY <2>2, CutBack DEF Cat, IsText
    <3>2. QED BY <2>1, <2>5, <3>1 DEF BehindOpen
  <2>7. at # 0 BY <2>1, <2>2
  <2>8. Opened(o, T, before, B, R) BY <2>1, <2>2, <2>3, <2>5, <2>6, <2>7 DEF Opened, at
  <2>9. QED BY <2>8
<1>4. QED BY <1>2, <1>3

\* What is given out and what is held are the reference.
LEMMA SplitWhole ==
    ASSUME NEW o, NEW T, IsText(T), NEW a, a.inside \in BOOLEAN, a.extracted \in BOOLEAN,
           NEW C, NEW H, Splits(o, T, a, C, H)
    PROVE  ContentOf(o, T) = Cat(C, HeldText(a)) /\ ThinkingOf(o, T) = Cat(H, HeldThought(a))
<1> DEFINE p == a.pending
<1>1. IsText(C) /\ IsText(H) /\ IsText(p) /\ IsText(<<>>) BY CatNothing DEF Splits
<1>2. Cat(<<>>, <<>>) = <<>> /\ Cat(C, <<>>) = C /\ Cat(H, <<>>) = H BY <1>1, CatNothing
<1>3. CASE ~o.thinkTags
  <2>1. p = <<>> /\ C = T /\ H = <<>> BY <1>3 DEF Splits
  <2>2. HeldText(a) = <<>> /\ HeldThought(a) = <<>> BY <2>1 DEF HeldText, HeldThought
  <2>3. ContentOf(o, T) = T /\ ThinkingOf(o, T) = <<>> BY <1>3 DEF ContentOf, ThinkingOf, Unopened
  <2>4. QED BY <1>2, <2>1, <2>2, <2>3
<1>4. CASE o.thinkTags /\ a.extracted
  <2>1. ~a.inside /\ IsDone(o, T, p, C, H) BY <1>4 DEF Splits
  <2>2. PICK B, R, E : /\ IsText(B) /\ IsText(R) /\ IsText(E) /\ Begun(o, T, B, R)
                       /\ R = Cat(Cat(H, CloseTag), E) /\ Find(R, CloseTag) = Len(H) + 1
                       /\ C = Cat(B, E)
    BY <2>1 DEF IsDone
  <2>3. p = <<>> BY <2>1 DEF IsDone
  <2>4. HeldText(a) = <<>> /\ HeldThought(a) = <<>> BY <2>3 DEF HeldText, HeldThought
  <2>5. PICK before : Opened(o, T, before, B, R) BY <2>2, BegunFacts
  <2>6. /\ IsText(before) /\ T = Cat(before, R) /\ From(o, T) = Len(before) + 1
        /\ BehindOpen(o, T) = R /\ BeforeOpen(o, T) = B /\ ~(Find(T, OpenTag) = 0 /\ ~o.thinkInitial)
    BY <2>5 DEF Opened
  <2>7. CloseTag \in Tags /\ IsText(CloseTag) BY TagTyped DEF Tags, IsText
  <2>8. Len(H) \in Nat /\ Len(before) \in Nat /\ IsText(Cat(before, H)) /\ IsText(Cat(H, CloseTag))
        /\ Len(Cat(before, H)) = Len(before) + Len(H)
    BY <1>1, <2>6, <2>7, CatFacts
  <2>9. Find(R, CloseTag) # 0 BY <2>2, <2>8
  <2>10. Before(R, Find(R, CloseTag)) = H
    BY <1>1, <2>2, <2>7, TagBetween DEF Cat, IsText
  <2>11. After(T, From(o, T) + Find(R, CloseTag) - 1, CloseTag) = E
    <3>1. T = Cat(Cat(Cat(before, H), CloseTag), E)
      <4>1. T = Cat(Cat(before, Cat(H, CloseTag)), E) BY <2>2, <2>6, <2>8, CatAssoc
      <4>2. Cat(before, Cat(H, CloseTag)) = Cat(Cat(before, H), CloseTag)
        BY <1>1, <2>6, <2>7, CatAssoc
      <4>3. QED BY <4>1, <4>2
    <3>2. From(o, T) + Find(R, CloseTag) - 1 = Len(Cat(before, H)) + 1 BY <2>2, <2>6, <2>8
    <3>3. ASSUME NEW s, IsText(s) PROVE After(Cat(Cat(s, CloseTag), E), Len(s) + 1, CloseTag) = E
      BY <2>2, <2>7, <3>3, TagBetween DEF Cat, IsText
    <3>4. After(Cat(Cat(Cat(before, H), CloseTag), E), Len(Cat(before, H)) + 1, CloseTag) = E
      BY <2>8, <3>3
    <3>5. QED BY <3>1, <3>2, <3>4
  <2>12. ~Unopened(o, T) BY <1>4, <2>6 DEF Unopened
  <2>13. ContentOf(o, T) = Cat(B, E) BY <2>6, <2>9, <2>11, <2>12 DEF ContentOf
  <2>14. ThinkingOf(o, T) = H BY <2>6, <2>9, <2>10, <2>12 DEF ThinkingOf
  <2>15. QED BY <1>2, <2>2, <2>4, <2>13, <2>14
<1>5. CASE o.thinkTags /\ ~a.extracted /\ a.inside
  <2>1. PICK R : IsText(R) /\ Begun(o, T, C, R) /\ Scanned(R, H, p, CloseTag)
    BY <1>5 DEF Splits, IsInside
  <2>2. a.inside = TRUE BY <1>5
  <2>3. HeldText(a) = <<>> /\ HeldThought(a) = p BY <2>2 DEF HeldText, HeldThought
  <2>4. PICK before : Opened(o, T, before, C, R) BY <1>1, <2>1, BegunFacts
  <2>5. BehindOpen(o, T) = R /\ BeforeOpen(o, T) = C /\ ~(Find(T, OpenTag) = 0 /\ ~o.thinkInitial)
    BY <2>4 DEF Opened
  <2>6. Find(R, CloseTag) = 0
    <3>1. CloseTag \in Tags BY DEF Tags
    <3>2. NoTag(R, CloseTag) BY <2>1 DEF Scanned
    <3>3. QED BY <2>1, <3>1, <3>2, FindFacts DEF NoTag, IsText
  <2>7. ~Unopened(o, T) BY <1>5, <2>5 DEF Unopened
  <2>8. ContentOf(o, T) = Cat(C, <<>>) BY <2>5, <2>6, <2>7 DEF ContentOf
  <2>9. ThinkingOf(o, T) = R BY <2>5, <2>6, <2>7 DEF ThinkingOf
  <2>10. R = Cat(H, p) BY <2>1 DEF Scanned
  <2>11. QED BY <1>2, <2>3, <2>8, <2>9, <2>10
<1>6. CASE o.thinkTags /\ ~a.extracted /\ ~a.inside
  <2>1. ~o.thinkInitial /\ H = <<>> /\ Scanned(T, C, p, OpenTag)
    BY <1>6 DEF Splits, IsOutside
  <2>2. a.inside = FALSE BY <1>6
  <2>3. HeldText(a) = p /\ HeldThought(a) = <<>> BY <2>2 DEF HeldText, HeldThought
  <2>4. Find(T, OpenTag) = 0
    <3>1. OpenTag \in Tags BY DEF Tags
    <3>2. NoTag(T, OpenTag) BY <2>1 DEF Scanned
    <3>3. QED BY <3>1, <3>2, FindFacts DEF NoTag, IsText
  <2>5. Unopened(o, T) BY <2>1, <2>4 DEF Unopened
  <2>6. ContentOf(o, T) = T /\ ThinkingOf(o, T) = <<>> BY <2>5 DEF ContentOf, ThinkingOf
  <2>7. T = Cat(C, p) BY <2>1 DEF Scanned
  <2>8. QED BY <1>2, <2>1, <2>3, <2>6, <2>7
<1>7. QED BY <1>3, <1>4, <1>5, <1>6

----------------------------------------------------------------------------
(* Lists, element by element                                                *)

\* Induction over sequences.
LEMMA SeqInclusion ==
    ASSUME NEW S, NEW P, <<>> \in P, \A s \in Seq(S), x \in S : s \in P => Append(s, x) \in P
    PROVE  Seq(S) \subseteq P
<1> DEFINE N == {n \in Nat : \A s \in Seq(S) : Len(s) = n => s \in P}
<1>1. 0 \in N
  <2>1. \A s \in Seq(S) : Len(s) = 0 => s = <<>> BY EmptySeq
  <2>2. QED BY <2>1
<1>2. ASSUME NEW n \in Nat, n \in N PROVE n + 1 \in N
  <2> SUFFICES ASSUME NEW s \in Seq(S), Len(s) = n + 1 PROVE s \in P
    OBVIOUS
  <2>1. s # <<>>
    <3>1. Len(<<>>) = 0 OBVIOUS
    <3>2. n + 1 # 0 OBVIOUS
    <3>3. QED BY <3>1, <3>2
  <2>2. PICK u \in Seq(S), x \in S : s = Append(u, x) BY <2>1, SequenceEmptyOrAppend
  <2>3. Len(u) = n
    <3>1. Len(u) \in Nat /\ Len(s) = Len(u) + 1 BY <2>2, LenProperties, AppendProperties
    <3>2. QED BY <3>1
  <2>4. u \in P BY <1>2, <2>3
  <2>5. QED BY <2>2, <2>4
<1> HIDE DEF N
<1>3. Nat \subseteq N BY <1>1, <1>2, NatInclusion
<1>4. ASSUME NEW s \in Seq(S) PROVE s \in P
  <2>1. Len(s) \in N BY <1>3, LenProperties
  <2>2. QED BY <2>1 DEF N
<1>5. QED BY <1>4

LEMMA AppendBehind ==
    ASSUME NEW S, NEW s \in Seq(S), NEW t \in Seq(S), NEW x \in S
    PROVE  Cat(s, Append(t, x)) = Append(Cat(s, t), x) /\ Cat(s, t) \in Seq(S)
<1>1. Append(t, x) = t \o <<x>> /\ s \o t \in Seq(S) BY AppendIsConcat, ConcatProperties
<1>2. <<x>> \in Seq(S) OBVIOUS
<1>3. (s \o t) \o <<x>> = s \o (t \o <<x>>) BY <1>2, ConcatAssociative
<1>4. Append(s \o t, x) = (s \o t) \o <<x>> BY <1>1, AppendIsConcat
<1>5. QED BY <1>1, <1>3, <1>4 DEF Cat

\* The letters among thoughts: what the reasoning of an event adds is none of them.
LettersOf(s) == Gone("letters", <<>>, s, 0)

\* The letters of thinking are those of the text in it; reasoning has none.
LEMMA LettersOn ==
    ASSUME NEW s, IsThought(s)
    PROVE  /\ \A t : IsText(t) => LettersOf(Cat(s, t)) = Cat(LettersOf(s), t)
           /\ \A t \in Seq({"r"}) : LettersOf(Cat(s, t)) = LettersOf(s)
           /\ LettersOf(s) \in Seq(Letters)
<1> DEFINE TextOf == {t \in Seq(Chars) : LettersOf(t) \in Seq(Letters)}
           Same == {t \in Seq({"r"}) : LettersOf(Cat(s, t)) = LettersOf(s)}
           More == {t \in Seq(Letters) : LettersOf(Cat(s, t)) = Cat(LettersOf(s), t)}
<1>1. \A u \in Seq(Chars), x \in Chars :
        LettersOf(Append(u, x)) = IF x = "r" THEN LettersOf(u) ELSE Append(LettersOf(u), x)
  <2> TAKE u \in Seq(Chars), x \in Chars
  <2>1. LettersOf(Append(u, x)) = StepOf("letters", LettersOf(u), x, 0) BY GoneFurther DEF LettersOf
  <2>2. QED BY <2>1 DEF StepOf
<1>2. LettersOf(<<>>) = <<>> BY GoneNowhere DEF LettersOf
<1>3. s \in Seq(Chars) /\ {"r"} \subseteq Chars /\ Letters \subseteq Chars /\ "r" \notin Letters
      /\ \A x \in Chars : x = "r" \/ x \in Letters
  BY DEF IsThought, Chars, Letters
<1> HIDE DEF TextOf, Same, More
<1>4. Seq(Chars) \subseteq TextOf
  <2>1. <<>> \in TextOf
    <3>1. <<>> \in Seq(Chars) /\ <<>> \in Seq(Letters) BY EmptySeq
    <3>2. QED BY <1>2, <3>1 DEF TextOf
  <2>2. ASSUME NEW u \in Seq(Chars), NEW x \in Chars, u \in TextOf PROVE Append(u, x) \in TextOf
    <3>1. LettersOf(u) \in Seq(Letters) BY <2>2 DEF TextOf
    <3>2. Append(u, x) \in Seq(Chars) BY AppendProperties
    <3>3. x # "r" => Append(LettersOf(u), x) \in Seq(Letters) BY <1>3, <3>1, AppendProperties
    <3>4. QED BY <1>1, <3>1, <3>2, <3>3 DEF TextOf
  <2>3. QED BY <2>1, <2>2, SeqInclusion
<1>5. LettersOf(s) \in Seq(Letters) BY <1>3, <1>4 DEF TextOf
<1>6. Cat(s, <<>>) = s /\ Cat(LettersOf(s), <<>>) = LettersOf(s) BY <1>3, <1>5, ConcatEmptySeq DEF Cat
<1>7. Seq({"r"}) \subseteq Same
  <2>1. <<>> \in Same BY <1>6 DEF Same
  <2>2. ASSUME NEW u \in Seq({"r"}), NEW x \in {"r"}, u \in Same PROVE Append(u, x) \in Same
    <3>1. u \in Seq(Chars) /\ x \in Chars /\ Append(u, x) \in Seq({"r"})
      BY <1>3, SeqMonotonic, AppendProperties
    <3>2. Cat(s, Append(u, x)) = Append(Cat(s, u), x) /\ Cat(s, u) \in Seq(Chars)
      BY <1>3, <3>1, AppendBehind
    <3>3. LettersOf(Append(Cat(s, u), x)) = LettersOf(Cat(s, u)) BY <1>1, <3>1, <3>2
    <3>4. QED BY <2>2, <3>1, <3>2, <3>3 DEF Same
  <2>3. QED BY <2>1, <2>2, SeqInclusion
<1>8. Seq(Letters) \subseteq More
  <2>1. <<>> \in More BY <1>6 DEF More
  <2>2. ASSUME NEW u \in Seq(Letters), NEW x \in Letters, u \in More PROVE Append(u, x) \in More
    <3>1. u \in Seq(Chars) /\ x \in Chars /\ x # "r" /\ Append(u, x) \in Seq(Letters)
      BY <1>3, SeqMonotonic, AppendProperties
    <3>2. Cat(s, Append(u, x)) = Append(Cat(s, u), x) /\ Cat(s, u) \in Seq(Chars)
      BY <1>3, <3>1, AppendBehind
    <3>3. LettersOf(Append(Cat(s, u), x)) = Append(LettersOf(Cat(s, u)), x) BY <1>1, <3>1, <3>2
    <3>4. LettersOf(Cat(s, u)) = Cat(LettersOf(s), u) BY <2>2 DEF More
    <3>5. Append(Cat(LettersOf(s), u), x) = Cat(LettersOf(s), Append(u, x)) BY <1>5, AppendBehind
    <3>6. QED BY <3>1, <3>2, <3>3, <3>4, <3>5 DEF More
  <2>3. QED BY <2>1, <2>2, SeqInclusion
<1>9. \A t : IsText(t) => LettersOf(Cat(s, t)) = Cat(LettersOf(s), t) BY <1>8 DEF More, IsText
<1>10. \A t \in Seq({"r"}) : LettersOf(Cat(s, t)) = LettersOf(s) BY <1>7 DEF Same
<1>11. QED BY <1>5, <1>9, <1>10

----------------------------------------------------------------------------
(* The calls that a list of fragments makes                                 *)

Marks == {"{", "}", " "}
IsCall(c) ==
    /\ c = [label |-> c.label, arguments |-> c.arguments]
    /\ c.label \in Seq({"n"}) /\ c.arguments \in Seq(Marks)
JoinedOf(i, list) == Gone("join", NoCall, list, i)
IndexesOf(list) == {list[k].index : k \in DOMAIN list}
Bytes(list) == Gone("size", 0, list, 0)

LEMMA FragmentTyped ==
    ASSUME NEW f \in Fragments
    PROVE  f.index \in Int /\ f.label \in Seq({"n"}) /\ f.arguments \in Seq(Marks) /\ Len(f.arguments) \in Nat
<1>1. f.index \in Int /\ f.label \in Seq({"n"}) /\ f.arguments \in Seq(Marks)
  BY AssemblyAssumption DEF Marks
<1>2. QED BY <1>1, LenProperties

\* One more fragment.
LEMMA OneFurther ==
    ASSUME NEW list \in Seq(Fragments), NEW x \in Fragments
    PROVE  /\ \A i : JoinedOf(i, Append(list, x))
                       = IF x.index = i THEN Join(JoinedOf(i, list), x) ELSE JoinedOf(i, list)
           /\ IndexesOf(Append(list, x)) = IndexesOf(list) \cup {x.index}
           /\ Bytes(Append(list, x)) = Bytes(list) + Len(x.arguments)
<1>1. ASSUME NEW i
      PROVE  JoinedOf(i, Append(list, x))
               = IF x.index = i THEN Join(JoinedOf(i, list), x) ELSE JoinedOf(i, list)
  <2>1. JoinedOf(i, Append(list, x)) = StepOf("join", JoinedOf(i, list), x, i)
    BY GoneFurther DEF JoinedOf
  <2>2. QED BY <2>1 DEF StepOf
<1>2. Bytes(Append(list, x)) = Bytes(list) + Len(x.arguments)
  <2>1. Bytes(Append(list, x)) = StepOf("size", Bytes(list), x, 0) BY GoneFurther DEF Bytes
  <2>2. QED BY <2>1 DEF StepOf
<1>3. IndexesOf(Append(list, x)) = IndexesOf(list) \cup {x.index}
  <2> DEFINE more == Append(list, x)
             last == Len(list)
  <2>1. /\ more \in Seq(Fragments) /\ Len(more) = last + 1 /\ more[last + 1] = x
        /\ \A k \in 1 .. last : more[k] = list[k]
    BY AppendProperties
  <2>2. last \in Nat /\ DOMAIN list = 1 .. last BY LenProperties
  <2>3. DOMAIN more = 1 .. last + 1 BY <2>1, LenProperties
  <2> HIDE DEF more, last
  <2>4. \A k \in 1 .. last + 1 : k \in 1 .. last \/ k = last + 1 BY <2>2
  <2>5. last + 1 \in 1 .. last + 1 /\ \A k \in 1 .. last : k \in 1 .. last + 1 BY <2>2
  <2>6. ASSUME NEW i \in IndexesOf(more) PROVE i \in IndexesOf(list) \cup {x.index}
    <3>1. PICK k \in 1 .. last + 1 : i = more[k].index BY <2>3, <2>6 DEF IndexesOf
    <3>2. CASE k \in 1 .. last
      <4>1. i = list[k].index BY <2>1, <3>1, <3>2
      <4>2. QED BY <2>2, <3>2, <4>1 DEF IndexesOf
    <3>3. CASE k = last + 1 BY <2>1, <3>1, <3>3
    <3>4. QED BY <2>4, <3>2, <3>3
  <2>7. ASSUME NEW i \in IndexesOf(list) PROVE i \in IndexesOf(more)
    <3>1. PICK k \in 1 .. last : i = list[k].index BY <2>2, <2>7 DEF IndexesOf
    <3>2. i = more[k].index /\ k \in 1 .. last + 1 BY <2>1, <2>5, <3>1
    <3>3. QED BY <2>3, <3>2 DEF IndexesOf
  <2>8. x.index \in IndexesOf(more)
    <3>1. x.index = more[last + 1].index BY <2>1
    <3>2. QED BY <2>3, <2>5, <3>1 DEF IndexesOf
  <2>9. QED BY <2>6, <2>7, <2>8 DEF more
<1>4. QED BY <1>1, <1>2, <1>3

\* No fragments.
LEMMA NothingJoined ==
    /\ \A i : JoinedOf(i, <<>>) = NoCall
    /\ IndexesOf(<<>>) = {} /\ Bytes(<<>>) = 0
<1>1. \A i : JoinedOf(i, <<>>) = NoCall BY GoneNowhere DEF JoinedOf
<1>2. Bytes(<<>>) = 0 BY GoneNowhere DEF Bytes
<1>3. DOMAIN <<>> = {} OBVIOUS
<1>4. IndexesOf(<<>>) = {} BY <1>3 DEF IndexesOf
<1>5. QED BY <1>1, <1>2, <1>4

LEMMA JoinTyped ==
    ASSUME NEW c, IsCall(c), NEW x \in Fragments
    PROVE  /\ IsCall(Join(c, x))
           /\ Len(Join(c, x).label) = Len(c.label) + Len(x.label)
           /\ Len(Join(c, x).arguments) = Len(c.arguments) + Len(x.arguments)
           /\ Len(c.label) \in Nat /\ Len(x.label) \in Nat
           /\ Len(c.arguments) \in Nat /\ Len(x.arguments) \in Nat
<1>1. c.label \in Seq({"n"}) /\ x.label \in Seq({"n"}) /\ c.arguments \in Seq(Marks) /\ x.arguments \in Seq(Marks)
  BY FragmentTyped DEF IsCall
<1>2. /\ c.label \o x.label \in Seq({"n"}) /\ Len(c.label \o x.label) = Len(c.label) + Len(x.label)
      /\ Len(c.label) \in Nat /\ Len(x.label) \in Nat
  BY <1>1, ConcatProperties, LenProperties
<1>3. /\ c.arguments \o x.arguments \in Seq(Marks)
      /\ Len(c.arguments \o x.arguments) = Len(c.arguments) + Len(x.arguments)
      /\ Len(c.arguments) \in Nat /\ Len(x.arguments) \in Nat
  BY <1>1, ConcatProperties, LenProperties
<1>4. Join(c, x).label = c.label \o x.label /\ Join(c, x).arguments = c.arguments \o x.arguments
  BY DEF Join
<1>5. Join(c, x) = [label |-> Join(c, x).label, arguments |-> Join(c, x).arguments] BY DEF Join
<1>6. QED BY <1>2, <1>3, <1>4, <1>5 DEF IsCall

\* What fragments join to is a call, and there are finitely many.
LEMMA CallsOfList ==
    ASSUME NEW list \in Seq(Fragments)
    PROVE  /\ \A i \in Int : IsCall(JoinedOf(i, list))
           /\ \A i \in Int : i \notin IndexesOf(list) => JoinedOf(i, list) = NoCall
           /\ IndexesOf(list) \subseteq Int /\ IsFiniteSet(IndexesOf(list))
           /\ Cardinality(IndexesOf(list)) \in Nat /\ Bytes(list) \in Nat
<1> DEFINE Good(l) == /\ \A i \in Int : IsCall(JoinedOf(i, l))
                      /\ \A i \in Int : i \notin IndexesOf(l) => JoinedOf(i, l) = NoCall
                      /\ IndexesOf(l) \subseteq Int /\ IsFiniteSet(IndexesOf(l)) /\ Bytes(l) \in Nat
           P == {l \in Seq(Fragments) : Good(l)}
<1>1. <<>> \in P
  <2>1. NoCall.label = <<>> /\ NoCall.arguments = <<>> /\ NoCall = [label |-> <<>>, arguments |-> <<>>]
    BY DEF NoCall
  <2>2. <<>> \in Seq({"n"}) /\ <<>> \in Seq(Marks) /\ <<>> \in Seq(Fragments) BY EmptySeq
  <2>3. IsCall(NoCall) BY <2>1, <2>2 DEF IsCall
  <2>4. \A i : JoinedOf(i, <<>>) = NoCall BY NothingJoined
  <2>5. IndexesOf(<<>>) = {} /\ Bytes(<<>>) \in Nat BY NothingJoined
  <2>6. IsFiniteSet(IndexesOf(<<>>)) BY <2>5, FS_EmptySet
  <2>7. \A i \in Int : IsCall(JoinedOf(i, <<>>)) BY <2>3, <2>4
  <2>8. Good(<<>>) BY <2>4, <2>5, <2>6, <2>7
  <2> HIDE DEF Good
  <2>9. QED BY <2>2, <2>8
<1>2. ASSUME NEW l \in Seq(Fragments), NEW x \in Fragments, l \in P PROVE Append(l, x) \in P
  <2>1. Append(l, x) \in Seq(Fragments) BY AppendProperties
  <2>2. Good(l) BY <1>2
  <2>3. \A i \in Int : IsCall(JoinedOf(i, Append(l, x)))
    <3> TAKE i \in Int
    <3>1. IsCall(JoinedOf(i, l)) BY <2>2
    <3>2. IsCall(Join(JoinedOf(i, l), x)) BY <3>1, JoinTyped
    <3>3. QED BY <3>1, <3>2, OneFurther
  <2>4. \A i \in Int : i \notin IndexesOf(Append(l, x)) => JoinedOf(i, Append(l, x)) = NoCall
    BY <2>2, OneFurther
  <2>5. IndexesOf(Append(l, x)) \subseteq Int BY <2>2, OneFurther, FragmentTyped
  <2>6. IsFiniteSet(IndexesOf(Append(l, x)))
    <3>1. IsFiniteSet(IndexesOf(l)) BY <2>2
    <3>2. IsFiniteSet(IndexesOf(l) \cup {x.index}) BY <3>1, FS_AddElement
    <3>3. QED BY <3>2, OneFurther
  <2>7. Bytes(Append(l, x)) \in Nat BY <2>2, OneFurther, FragmentTyped
  <2>8. QED BY <2>1, <2>3, <2>4, <2>5, <2>6, <2>7
<1> HIDE DEF P
<1>3. list \in P BY <1>1, <1>2, SeqInclusion
<1>4. Good(list) BY <1>3 DEF P
<1>5. QED BY <1>4, FS_CardinalityType

\* What the accumulator has made of the fragments, within its limits.
Gathered(parts, list) ==
    /\ DOMAIN parts = IndexesOf(list)
    /\ \A i \in IndexesOf(list) : parts[i] = JoinedOf(i, list)
Long(call) == Len(call.label) > MaxToolBytes \/ Len(call.arguments) > MaxToolBytes
Unbounded(o, list) ==
    \/ \E i \in IndexesOf(list) : i < 0
    \/ Cardinality(IndexesOf(list)) > o.maxToolCalls
    \/ \E i \in IndexesOf(list) : Long(JoinedOf(i, list))

\* What has exceeded a bound exceeds it with more fragments.
LEMMA UnboundedOn ==
    ASSUME options \in Assemblies, NEW list \in Seq(Fragments), NEW x \in Fragments, Unbounded(options, list)
    PROVE  Unbounded(options, Append(list, x))
<1>1. IndexesOf(Append(list, x)) = IndexesOf(list) \cup {x.index} BY OneFurther
<1>2. CASE \E i \in IndexesOf(list) : i < 0 BY <1>1, <1>2 DEF Unbounded
<1>3. CASE Cardinality(IndexesOf(list)) > options.maxToolCalls
  <2>1. IsFiniteSet(IndexesOf(list)) /\ Cardinality(IndexesOf(list)) \in Nat /\ options.maxToolCalls \in Nat
    BY CallsOfList, AssemblyAssumption
  <2>2. Cardinality(IndexesOf(list) \cup {x.index})
          = IF x.index \in IndexesOf(list) THEN Cardinality(IndexesOf(list)) ELSE Cardinality(IndexesOf(list)) + 1
    BY <2>1, FS_AddElement
  <2>3. Cardinality(IndexesOf(Append(list, x))) > options.maxToolCalls BY <1>1, <1>3, <2>1, <2>2
  <2>4. QED BY <2>3 DEF Unbounded
<1>4. ASSUME NEW i \in IndexesOf(list), Long(JoinedOf(i, list)) PROVE Unbounded(options, Append(list, x))
  <2>1. i \in Int /\ IsCall(JoinedOf(i, list)) BY CallsOfList
  <2>2. Long(Join(JoinedOf(i, list), x))
    <3> DEFINE c == JoinedOf(i, list)
    <3>1. Len(c.label) > MaxToolBytes \/ Len(c.arguments) > MaxToolBytes BY <1>4 DEF Long
    <3>2. MaxToolBytes \in Nat BY AssemblyAssumption
    <3> HIDE DEF c
    <3>3. /\ Len(Join(c, x).label) = Len(c.label) + Len(x.label)
          /\ Len(Join(c, x).arguments) = Len(c.arguments) + Len(x.arguments)
          /\ Len(c.label) \in Nat /\ Len(x.label) \in Nat
          /\ Len(c.arguments) \in Nat /\ Len(x.arguments) \in Nat
      BY <2>1, JoinTyped DEF c
    <3>4. Len(Join(c, x).label) > MaxToolBytes \/ Len(Join(c, x).arguments) > MaxToolBytes
      <4>1. \A p, q, m \in Nat : p > m => p + q > m OBVIOUS
      <4>2. QED BY <3>1, <3>2, <3>3, <4>1
    <3>5. QED BY <3>4 DEF Long, c
  <2>3. Long(JoinedOf(i, Append(list, x))) BY <1>4, <2>2, OneFurther
  <2>4. QED BY <1>1, <2>3 DEF Unbounded
<1>5. QED BY <1>2, <1>3, <1>4 DEF Unbounded

\* What c has become once all the fragments of a list, of n bytes before, are added.
Assembled(c, r, list, n) ==
    /\ IsAssembler(r) /\ SameSplitter(c, r) /\ r.content = c.content /\ r.thinking = c.thinking
    /\ r.usage = c.usage /\ r.reason = c.reason /\ r.filtered = c.filtered
    /\ r.failed = "no" => Gathered(r.parts, list) /\ ~Unbounded(options, list) /\ r.textBytes = n + Bytes(list)
    /\ r.failed # "no" => Unbounded(options, list)

\* AddFragment joins one more fragment, or fails because the calls exceed a bound.
LEMMA AddOne ==
    ASSUME options \in Assemblies, NEW list \in Seq(Fragments), NEW x \in Fragments, NEW n \in Nat,
           NEW c, NEW a, Assembled(c, a, list, n),
           NEW r, Becomes(r, AddFragment(a, x))
    PROVE  Assembled(c, r, Append(list, x), n)
<1> DEFINE i == x.index
           all == Append(list, x)
           known == i \in DOMAIN a.parts
           new == Join(IF known THEN a.parts[i] ELSE NoCall, x)
           counted == [a EXCEPT !.textBytes = @ + Len(x.arguments)]
           failedAs(why) == [counted EXCEPT !.failed = why, !.parts = <<>>]
           full == ~known /\ Cardinality(DOMAIN a.parts) >= options.maxToolCalls
           long == Len(new.label) > MaxToolBytes \/ Len(new.arguments) > MaxToolBytes
<1>1. r = IF a.failed # "no" THEN a
          ELSE IF i < 0 THEN failedAs("malformed")
          ELSE IF full \/ long THEN failedAs("limit")
          ELSE [counted EXCEPT !.parts = Put(a.parts, i, new)]
  BY DEF Becomes, AddFragment, ToolsFail
<1>2. /\ IsAssembler(a) /\ SameSplitter(c, a) /\ a.content = c.content /\ a.thinking = c.thinking
      /\ a.usage = c.usage /\ a.reason = c.reason /\ a.filtered = c.filtered
      /\ a.failed = "no" => Gathered(a.parts, list) /\ ~Unbounded(options, list) /\ a.textBytes = n + Bytes(list)
      /\ a.failed # "no" => Unbounded(options, list)
  BY DEF Assembled
<1>3. /\ Whole(a) /\ IsText(a.content) /\ IsThought(a.thinking) /\ a.textBytes \in Nat
      /\ a.inside \in BOOLEAN /\ a.extracted \in BOOLEAN
  BY <1>2 DEF IsAssembler
<1>4. i \in Int /\ Len(x.arguments) \in Nat BY FragmentTyped
<1>5. Whole(counted) /\ counted.textBytes = a.textBytes + Len(x.arguments) /\ counted.failed = a.failed
      /\ counted.content = a.content /\ counted.thinking = a.thinking /\ SameSplitter(a, counted)
      /\ counted.usage = a.usage /\ counted.reason = a.reason /\ counted.filtered = a.filtered
  BY <1>3 DEF Whole, SameSplitter
<1>6. counted.textBytes \in Nat BY <1>3, <1>4, <1>5
<1> HIDE DEF counted
<1>7. /\ \A k : JoinedOf(k, all) = IF i = k THEN Join(JoinedOf(k, list), x) ELSE JoinedOf(k, list)
      /\ IndexesOf(all) = IndexesOf(list) \cup {i}
      /\ Bytes(all) = Bytes(list) + Len(x.arguments)
  BY OneFurther
<1>8. /\ \A k \in Int : k \notin IndexesOf(list) => JoinedOf(k, list) = NoCall
      /\ IsFiniteSet(IndexesOf(list)) /\ Cardinality(IndexesOf(list)) \in Nat /\ Bytes(list) \in Nat
      /\ options.maxToolCalls \in Nat
  BY CallsOfList, AssemblyAssumption
<1> HIDE DEF all
<1>9. CASE a.failed # "no"
  <2>1. r = a BY <1>1, <1>9
  <2>2. Unbounded(options, all) BY <1>2, <1>9, UnboundedOn DEF all
  <2>3. QED BY <1>2, <1>9, <2>1, <2>2 DEF Assembled, all
<1>10. CASE a.failed = "no"
  <2>1. Gathered(a.parts, list) /\ ~Unbounded(options, list) /\ a.textBytes = n + Bytes(list) BY <1>2, <1>10
  <2>2. DOMAIN a.parts = IndexesOf(list) /\ \A k \in IndexesOf(list) : a.parts[k] = JoinedOf(k, list)
    BY <2>1 DEF Gathered
  <2>3. new = JoinedOf(i, all)
    <3>1. (IF known THEN a.parts[i] ELSE NoCall) = JoinedOf(i, list) BY <1>4, <1>8, <2>2
    <3>2. QED BY <1>7, <3>1
  <2>4. Cardinality(IndexesOf(all))
          = IF i \in IndexesOf(list) THEN Cardinality(IndexesOf(list)) ELSE Cardinality(IndexesOf(list)) + 1
    BY <1>7, <1>8, FS_AddElement
  <2>5. i \in IndexesOf(all) BY <1>7
  <2>6. Unbounded(options, all) <=> i < 0 \/ full \/ long
    <3>1. long <=> Long(JoinedOf(i, all)) BY <2>3 DEF Long
    <3>2. ASSUME i < 0 \/ full \/ long PROVE Unbounded(options, all)
      <4>1. CASE i < 0 BY <2>5, <4>1 DEF Unbounded
      <4>2. CASE full
        <5>1. Cardinality(IndexesOf(all)) > options.maxToolCalls BY <1>8, <2>2, <2>4, <4>2
        <5>2. QED BY <5>1 DEF Unbounded
      <4>3. CASE long BY <2>5, <3>1, <4>3 DEF Unbounded
      <4>4. QED BY <3>2, <4>1, <4>2, <4>3
    <3>3. ASSUME Unbounded(options, all) PROVE i < 0 \/ full \/ long
      <4>1. CASE \E k \in IndexesOf(all) : k < 0
        <5>1. \A k \in IndexesOf(list) : ~(k < 0) BY <2>1 DEF Unbounded
        <5>2. QED BY <1>7, <4>1, <5>1
      <4>2. CASE Cardinality(IndexesOf(all)) > options.maxToolCalls
        <5>1. ~(Cardinality(IndexesOf(list)) > options.maxToolCalls) BY <2>1 DEF Unbounded
        <5>2. QED BY <1>8, <2>2, <2>4, <4>2, <5>1
      <4>3. CASE \E k \in IndexesOf(all) : Long(JoinedOf(k, all))
        <5>1. PICK k \in IndexesOf(all) : Long(JoinedOf(k, all)) BY <4>3
        <5>2. CASE k = i BY <3>1, <5>1, <5>2
        <5>3. CASE k # i
          <6>1. k \in IndexesOf(list) /\ Long(JoinedOf(k, list)) BY <1>7, <5>1, <5>3
          <6>2. QED BY <2>1, <6>1 DEF Unbounded
        <5>4. QED BY <5>2, <5>3
      <4>4. QED BY <3>3, <4>1, <4>2, <4>3 DEF Unbounded
    <3>4. QED BY <3>2, <3>3
  <2> HIDE DEF new, full, long, known
  <2>7. CASE i < 0 \/ full \/ long
    <3>1. PICK why \in {"malformed", "limit"} : r = failedAs(why) BY <1>1, <1>10, <2>7
    <3>2. Whole(r) /\ r.failed = why /\ r.content = a.content /\ r.thinking = a.thinking
          /\ r.textBytes = counted.textBytes /\ SameSplitter(a, r)
          /\ r.usage = a.usage /\ r.reason = a.reason /\ r.filtered = a.filtered
      BY <1>5, <3>1 DEF Whole, SameSplitter
    <3>3. IsAssembler(r) BY <1>3, <1>6, <3>2 DEF IsAssembler, SameSplitter
    <3>4. r.failed # "no" BY <3>2
    <3>5. QED BY <1>2, <2>6, <2>7, <3>2, <3>3, <3>4 DEF Assembled, SameSplitter, all
  <2>8. CASE ~(i < 0 \/ full \/ long)
    <3>1. r = [counted EXCEPT !.parts = Put(a.parts, i, new)] BY <1>1, <1>10, <2>8
    <3>2. Whole(r) /\ r.failed = "no" /\ r.content = a.content /\ r.thinking = a.thinking
          /\ r.textBytes = counted.textBytes /\ SameSplitter(a, r) /\ r.parts = Put(a.parts, i, new)
          /\ r.usage = a.usage /\ r.reason = a.reason /\ r.filtered = a.filtered
      BY <1>5, <1>10, <3>1 DEF Whole, SameSplitter
    <3>3. IsAssembler(r) BY <1>3, <1>6, <3>2 DEF IsAssembler, SameSplitter
    <3>4. Gathered(r.parts, all)
      <4>1. Put(a.parts, i, new)
              = [k \in IndexesOf(all) |-> IF k = i THEN new ELSE a.parts[k]]
        BY <1>7, <2>2 DEF Put
      <4>2. \A k \in IndexesOf(all) : (IF k = i THEN new ELSE a.parts[k]) = JoinedOf(k, all)
        BY <1>7, <2>2, <2>3
      <4>3. QED BY <3>2, <4>1, <4>2 DEF Gathered
    <3>5. r.textBytes = n + Bytes(all) BY <1>4, <1>5, <1>7, <1>8, <2>1, <3>2
    <3>6. QED BY <1>2, <2>6, <2>8, <3>2, <3>3, <3>4, <3>5 DEF Assembled, SameSplitter, all
  <2>9. QED BY <2>7, <2>8
<1>11. QED BY <1>9, <1>10

\* All the fragments of an event, one after the other.
LEMMA AddMany ==
    ASSUME options \in Assemblies, NEW list \in Seq(Fragments), NEW more \in Seq(Fragments), NEW n \in Nat,
           NEW c, Assembled(c, c, list, n)
    PROVE  Assembled(c, AddAll(c, more), Cat(list, more), n)
<1> DEFINE P == {t \in Seq(Fragments) : Assembled(c, AddAll(c, t), Cat(list, t), n)}
<1>1. <<>> \in P
  <2>1. AddAll(c, <<>>) = c BY Uses, GoneNowhere
  <2>2. Cat(list, <<>>) = list BY ConcatEmptySeq DEF Cat
  <2>3. <<>> \in Seq(Fragments) BY EmptySeq
  <2>4. QED BY <2>1, <2>2, <2>3
<1>2. ASSUME NEW t \in Seq(Fragments), NEW x \in Fragments, t \in P PROVE Append(t, x) \in P
  <2>1. Append(t, x) \in Seq(Fragments) BY AppendProperties
  <2>2. Cat(list, Append(t, x)) = Append(Cat(list, t), x) /\ Cat(list, t) \in Seq(Fragments)
    BY AppendBehind
  <2>3. AddAll(c, Append(t, x)) = AddFragment(AddAll(c, t), x)
    <3>1. Gone("add", c, Append(t, x), options) = StepOf("add", Gone("add", c, t, options), x, options) BY GoneFurther
    <3>2. QED BY <3>1, Uses DEF StepOf, AddFragment, AddUnder
  <2>4. Becomes(AddAll(c, Append(t, x)), AddFragment(AddAll(c, t), x)) BY <2>3 DEF Becomes
  <2>5. Assembled(c, AddAll(c, t), Cat(list, t), n) BY <1>2
  <2>6. Assembled(c, AddAll(c, Append(t, x)), Append(Cat(list, t), x), n)
    BY <2>2, <2>4, <2>5, AddOne
  <2>7. QED BY <2>1, <2>2, <2>6
<1> HIDE DEF P
<1>3. more \in P BY <1>1, <1>2, SeqInclusion
<1>4. QED BY <1>3 DEF P

\* A failed assembler adds nothing.
LEMMA AddNone ==
    ASSUME NEW more \in Seq(Fragments), NEW c, c.failed # "no"
    PROVE  AddAll(c, more) = c
<1> DEFINE P == {t \in Seq(Fragments) : AddAll(c, t) = c}
<1>1. <<>> \in P
  <2>1. AddAll(c, <<>>) = c BY Uses, GoneNowhere
  <2>2. <<>> \in Seq(Fragments) BY EmptySeq
  <2>3. QED BY <2>1, <2>2
<1>2. ASSUME NEW t \in Seq(Fragments), NEW x \in Fragments, t \in P PROVE Append(t, x) \in P
  <2>1. Append(t, x) \in Seq(Fragments) BY AppendProperties
  <2>2. AddAll(c, Append(t, x)) = AddFragment(AddAll(c, t), x)
    <3>1. Gone("add", c, Append(t, x), options) = StepOf("add", Gone("add", c, t, options), x, options) BY GoneFurther
    <3>2. QED BY <3>1, Uses DEF StepOf, AddFragment, AddUnder
  <2>3. AddFragment(c, x) = c BY DEF AddFragment
  <2>4. QED BY <1>2, <2>1, <2>2, <2>3
<1> HIDE DEF P
<1>3. more \in P BY <1>1, <1>2, SeqInclusion
<1>4. QED BY <1>3 DEF P

\* sort.Ints: every index once, in ascending order.
LEMMA AscendingFacts ==
    ASSUME NEW S \in SUBSET Nat, IsFiniteSet(S)
    PROVE  /\ Ascending(S) \in [1 .. Cardinality(S) -> S]
           /\ \A j, k \in 1 .. Cardinality(S) : j < k => Ascending(S)[j] < Ascending(S)[k]
           /\ \A x \in S : \E k \in 1 .. Cardinality(S) : Ascending(S)[k] = x
           /\ Cardinality(S) \in Nat
<1> DEFINE Up(s, n) == \A j, k \in 1 .. n : j < k => s[j] < s[k]
           N == {n \in Nat : \A T \in SUBSET Nat :
                    IsFiniteSet(T) /\ Cardinality(T) = n => \E s \in [1 .. n -> T] : Up(s, n)}
<1>1. 0 \in N
  <2> SUFFICES ASSUME NEW T \in SUBSET Nat PROVE \E s \in [1 .. 0 -> T] : Up(s, 0)
    OBVIOUS
  <2> DEFINE s == [k \in 1 .. 0 |-> 0]
  <2>1. s \in [1 .. 0 -> T] /\ Up(s, 0) OBVIOUS
  <2>2. QED BY <2>1
<1>2. ASSUME NEW n \in Nat, n \in N PROVE n + 1 \in N
  <2> SUFFICES ASSUME NEW T \in SUBSET Nat, IsFiniteSet(T), Cardinality(T) = n + 1
               PROVE  \E s \in [1 .. n + 1 -> T] : Up(s, n + 1)
    OBVIOUS
  <2>1. T # {}
    <3>1. n + 1 # 0 OBVIOUS
    <3>2. QED BY <3>1, FS_EmptySet
  <2>2. PICK m \in T : \A x \in T : m <= x BY <2>1, Least
  <2> DEFINE U == T \ {m}
  <2>3. IsFiniteSet(U) /\ Cardinality(U) = n /\ U \in SUBSET Nat
    <3>1. IsFiniteSet(U) /\ Cardinality(U) = (n + 1) - 1 BY FS_RemoveElement
    <3>2. (n + 1) - 1 = n OBVIOUS
    <3>3. QED BY <3>1, <3>2
  <2>4. PICK s \in [1 .. n -> U] : Up(s, n) BY <1>2, <2>3
  <2> DEFINE t == [k \in 1 .. n + 1 |-> IF k = 1 THEN m ELSE s[k - 1]]
  <2>5. \A k \in 1 .. n + 1 : k # 1 => k - 1 \in 1 .. n /\ s[k - 1] \in U
    <3>1. \A k \in 1 .. n + 1 : k # 1 => k - 1 \in 1 .. n OBVIOUS
    <3>2. QED BY <3>1
  <2>6. t \in [1 .. n + 1 -> T] BY <2>5
  <2>7. ASSUME NEW j \in 1 .. n + 1, NEW k \in 1 .. n + 1, j < k PROVE t[j] < t[k]
    <3>1. k # 1 /\ k - 1 \in 1 .. n BY <2>7
    <3>2. t[k] = s[k - 1] /\ s[k - 1] \in U BY <2>5, <3>1
    <3>3. CASE j = 1
      <4>1. t[j] = m BY <3>3
      <4>2. s[k - 1] \in Nat /\ m \in Nat /\ m <= s[k - 1] /\ m # s[k - 1] BY <2>2, <3>2
      <4>3. QED BY <3>2, <4>1, <4>2
    <3>4. CASE j # 1
      <4>1. t[j] = s[j - 1] /\ j - 1 \in 1 .. n /\ j - 1 < k - 1 BY <2>7, <3>4
      <4>2. s[j - 1] < s[k - 1] BY <2>4, <3>1, <4>1
      <4>3. QED BY <3>2, <4>1, <4>2
    <3>5. QED BY <3>3, <3>4
  <2> HIDE DEF t
  <2>8. QED BY <2>6, <2>7
<1> HIDE DEF N
<1>3. Nat \subseteq N BY <1>1, <1>2, NatInclusion
<1> DEFINE n == Cardinality(S)
           a == Ascending(S)
<1>4. n \in Nat BY FS_CardinalityType
<1>5. n \in N BY <1>3, <1>4
<1>6. \E s \in [1 .. n -> S] : Up(s, n) BY <1>5 DEF N
<1>7. \E s \in [1 .. n -> S] : \A j, k \in DOMAIN s : j < k => s[j] < s[k] BY <1>6
<1>8. a = CHOOSE s \in [1 .. n -> S] : \A j, k \in DOMAIN s : j < k => s[j] < s[k]
  BY DEF Ascending
<1>9. a \in [1 .. n -> S] /\ \A j, k \in DOMAIN a : j < k => a[j] < a[k] BY <1>7, <1>8
<1> HIDE DEF a, n
<1>10. Up(a, n) BY <1>9
<1>11. \A j, k \in 1 .. n : j # k => a[j] # a[k]
  <2> SUFFICES ASSUME NEW j \in 1 .. n, NEW k \in 1 .. n, j # k, a[j] = a[k] PROVE FALSE
    OBVIOUS
  <2>1. a[j] \in Nat /\ a[k] \in Nat BY <1>9
  <2>2. j < k \/ k < j BY <1>4
  <2>3. QED BY <1>10, <2>1, <2>2
<1>12. a \in Surjection(1 .. n, S)
  <2>1. IsInjective(a) BY <1>9, <1>11 DEF IsInjective
  <2>4. a \in Injection(1 .. n, S) BY <1>9, <2>1 DEF Injection
  <2>2. Cardinality(1 .. n) = n
    <3>1. Cardinality(1 .. n) = IF 1 > n THEN 0 ELSE n - 1 + 1 BY <1>4, FS_Interval
    <3>2. QED BY <1>4, <3>1
  <2>3. QED BY <2>2, <2>4, FS_Injection DEF n
<1>13. \A x \in S : \E k \in 1 .. n : a[k] = x BY <1>12 DEF Surjection
<1>14. QED BY <1>4, <1>9, <1>10, <1>13 DEF a, n

Answered(cs, list) ==
    /\ {cs[k].index : k \in DOMAIN cs} = IndexesOf(list)
    /\ \A j, k \in DOMAIN cs : j < k => cs[j].index < cs[k].index
    /\ \A k \in DOMAIN cs :
         LET whole == JoinedOf(cs[k].index, list)
         IN  cs[k].label = whole.label /\ cs[k].arguments = Arguments(whole.arguments)

\* CallsInOrder returns each joined call once, in the order of the indexes.
LEMMA CallsAnswer ==
    ASSUME NEW list \in Seq(Fragments), NEW parts, Gathered(parts, list), ~Unbounded(options, list)
    PROVE  Answered(CallsInOrder(parts), list)
<1> DEFINE S == IndexesOf(list)
           n == Cardinality(S)
           indexes == Ascending(S)
           cs == CallsInOrder(parts)
<1>1. DOMAIN parts = S /\ \A i \in S : parts[i] = JoinedOf(i, list) BY DEF Gathered
<1>2. S \in SUBSET Nat /\ IsFiniteSet(S)
  <2>1. S \subseteq Int /\ IsFiniteSet(S) BY CallsOfList
  <2>2. \A i \in S : ~(i < 0) BY DEF Unbounded
  <2>3. QED BY <2>1, <2>2
<1>3. cs = [k \in 1 .. Len(indexes) |-> CallOf(indexes[k], parts)] BY <1>1 DEF CallsInOrder
<1> HIDE DEF S
<1>4. /\ indexes \in [1 .. n -> S] /\ n \in Nat
      /\ \A j, k \in 1 .. n : j < k => indexes[j] < indexes[k]
      /\ \A x \in S : \E k \in 1 .. n : indexes[k] = x
  BY <1>2, AscendingFacts
<1> HIDE DEF indexes, n, cs
<1>5. Len(indexes) = n BY <1>4
<1>6. DOMAIN cs = 1 .. n BY <1>3, <1>5
<1>7. ASSUME NEW k \in 1 .. n
      PROVE  /\ cs[k].index = indexes[k] /\ indexes[k] \in S
             /\ cs[k].label = JoinedOf(indexes[k], list).label
             /\ cs[k].arguments = Arguments(JoinedOf(indexes[k], list).arguments)
  <2>1. indexes[k] \in S BY <1>4
  <2>2. cs[k] = CallOf(indexes[k], parts) BY <1>3, <1>5
  <2>3. parts[indexes[k]] = JoinedOf(indexes[k], list) BY <1>1, <2>1
  <2>4. QED BY <2>1, <2>2, <2>3 DEF CallOf
<1>8. {cs[k].index : k \in DOMAIN cs} = S
  <2>1. \A k \in DOMAIN cs : cs[k].index \in S BY <1>6, <1>7
  <2>2. \A x \in S : \E k \in DOMAIN cs : cs[k].index = x BY <1>4, <1>6, <1>7
  <2>3. QED BY <2>1, <2>2
<1>9. \A j, k \in DOMAIN cs : j < k => cs[j].index < cs[k].index BY <1>4, <1>6, <1>7
<1>10. \A k \in DOMAIN cs : /\ cs[k].label = JoinedOf(cs[k].index, list).label
                            /\ cs[k].arguments = Arguments(JoinedOf(cs[k].index, list).arguments)
  BY <1>6, <1>7
<1>11. QED BY <1>8, <1>9, <1>10 DEF Answered, S, cs

\* Every call is validated: the first one that is no object, or too long, fails the answer.
ProblemOf(o, text) ==
    IF text # <<>> /\ ~IsObject(text) /\ ~o.wrap THEN "arguments"
    ELSE IF Len(Arguments(text)) > MaxToolBytes THEN "limit" ELSE "no"
Useless(o, list) == \E i \in IndexesOf(list) : ProblemOf(o, JoinedOf(i, list).arguments) # "no"

\* ToolsFinish fails exactly when a call is unusable.
LEMMA FinishValidates ==
    ASSUME NEW list \in Seq(Fragments), NEW a, IsAssembler(a), a.failed = "no",
           Gathered(a.parts, list), ~Unbounded(options, list),
           NEW r, Becomes(r, ToolsFinish(a))
    PROVE  /\ ~Useless(options, list) => r = a
           /\ Useless(options, list) =>
                /\ IsAssembler(r) /\ SameSplitter(a, r) /\ r.content = a.content /\ r.failed # "no"
                /\ r.thinking = a.thinking /\ r.textBytes = a.textBytes
                /\ r.usage = a.usage /\ r.reason = a.reason /\ r.filtered = a.filtered
<1> DEFINE bad == {i \in DOMAIN a.parts : Problem(a.parts[i].arguments) # "no"}
           why == Problem(a.parts[Min(bad)].arguments)
<1>1. DOMAIN a.parts = IndexesOf(list) /\ \A i \in IndexesOf(list) : a.parts[i] = JoinedOf(i, list)
  BY DEF Gathered
<1>7. \A text : Problem(text) = ProblemOf(options, text) BY DEF Problem, ProblemOf
<1>2. bad = {} <=> ~Useless(options, list) BY <1>1, <1>7 DEF Useless
<1>3. r = IF bad = {} THEN a ELSE [a EXCEPT !.failed = why, !.parts = <<>>]
  BY DEF Becomes, ToolsFinish, ToolsFail
<1>4. CASE bad = {} BY <1>2, <1>3, <1>4
<1>5. CASE bad # {}
  <2>1. bad \in SUBSET Nat
    <3>1. IndexesOf(list) \subseteq Int BY CallsOfList
    <3>2. \A i \in IndexesOf(list) : ~(i < 0) BY DEF Unbounded
    <3>3. QED BY <1>1, <3>1, <3>2
  <2>2. Min(bad) \in bad BY <1>5, <2>1, Least
  <2>3. why # "no" BY <2>2
  <2>4. why \in {"no", "limit", "malformed", "arguments"} BY DEF Problem
  <2> HIDE DEF bad, why
  <2>5. r = [a EXCEPT !.failed = why, !.parts = <<>>] BY <1>3, <1>5
  <2>6. Whole(a) BY DEF IsAssembler
  <2>7. Whole(r) /\ r.failed = why /\ r.content = a.content /\ r.thinking = a.thinking
        /\ r.textBytes = a.textBytes /\ SameSplitter(a, r)
        /\ r.usage = a.usage /\ r.reason = a.reason /\ r.filtered = a.filtered
    BY <2>5, <2>6 DEF Whole, SameSplitter
  <2>8. IsAssembler(r) BY <2>4, <2>7 DEF IsAssembler, SameSplitter
  <2>9. QED BY <1>2, <1>5, <2>3, <2>7, <2>8 DEF bad
<1>6. QED BY <1>4, <1>5

----------------------------------------------------------------------------
(* The state between events                                                 *)

Sound(a) ==
    /\ IsAssembler(a) /\ a.reason \in {"stop", "length"} /\ a.usage \in Nat \cup {Absent}
    /\ IsText(a.pending) /\ Len(a.pending) < Len(CloseTag)

\* The thinking is that of the text and n letters of reasoning.
Told(o, thinking, H, n) ==
    IF o.visible THEN LettersOf(thinking) = H /\ Len(thinking) = Len(H) + n ELSE thinking = <<>>

\* Of the text T, n letters of reasoning, the fragments of a list and the usage u.
Feeding(o, a, T, n, list, u) ==
    /\ a.failed = "no" /\ Fits(o, a) /\ a.usage = u
    /\ Gathered(a.parts, list) /\ ~Unbounded(o, list)
    /\ \E H : /\ Splits(o, T, a, a.content, H) /\ Told(o, a.thinking, H, n)
              /\ a.textBytes = (Len(a.content) + Len(H) + n) + Bytes(list)

Over(o, T, n, list) ==
    \/ o.aggregate
       /\ Len(ContentOf(o, T)) + (IF o.visible THEN Len(ThinkingOf(o, T)) + n ELSE 0) > MaxAggregate
    \/ Unbounded(o, list)
Failed(o, a, T, n, list) ==
    a.failed # "no" /\ IsPrefix(a.content, ContentOf(o, T)) /\ (Over(o, T, n, list) \/ Useless(o, list))

LEMMA SplitsAlike ==
    ASSUME NEW o, NEW T, NEW a, NEW b, SameSplitter(a, b), NEW C, NEW H, Splits(o, T, a, C, H)
    PROVE  Splits(o, T, b, C, H)
BY DEF Splits, SameSplitter

LEMMA BeginsTag ==
    ASSUME NEW tag \in Tags, NEW p, IsText(p), Len(p) < Len(tag), p = SubSeq(tag, 1, Len(p))
    PROVE  IsStrictPrefix(p, tag)
<1>1. Len(p) \in Nat /\ Len(tag) \in Nat BY CatFacts, TagTyped
<1>2. SubSeq(p, 1, Len(p)) = p BY SubSeqFull DEF IsText
<1>3. IsPrefix(p, tag) BY <1>1, <1>2 DEF IsPrefix
<1>4. p # tag BY <1>1
<1>5. QED BY <1>3, <1>4 DEF IsStrictPrefix

\* What is held is the beginning of the tag looked for.
LEMMA PendingFacts ==
    ASSUME NEW o, NEW T, NEW a, a.inside \in BOOLEAN, a.extracted \in BOOLEAN,
           NEW C, NEW H, Splits(o, T, a, C, H)
    PROVE  /\ IsText(a.pending) /\ Len(a.pending) < Len(CloseTag)
           /\ IsStrictPrefix(a.pending, IF a.inside THEN CloseTag ELSE OpenTag)
<1> DEFINE p == a.pending
           tag == IF a.inside THEN CloseTag ELSE OpenTag
<1>1. IsText(p) BY DEF Splits
<1>2. OpenTag \in Tags /\ CloseTag \in Tags /\ tag \in Tags BY DEF Tags
<1>3. /\ Len(OpenTag) = 2 /\ Len(CloseTag) = 3
      /\ 0 < Len(CloseTag) /\ 0 < Len(tag) /\ Len(tag) <= 3 /\ Len(tag) \in Nat
  <2>1. Len(OpenTag) = 2 /\ Len(CloseTag) = 3 BY DEF OpenTag, CloseTag
  <2>2. tag = CloseTag \/ tag = OpenTag OBVIOUS
  <2> HIDE DEF tag
  <2>3. \A n : n = 2 \/ n = 3 => 0 < n /\ n <= 3 /\ n \in Nat OBVIOUS
  <2>4. 0 < Len(CloseTag) BY <2>1, <2>3
  <2>5. 0 < Len(tag) /\ Len(tag) <= 3 /\ Len(tag) \in Nat BY <2>1, <2>2, <2>3
  <2>6. QED BY <2>1, <2>4, <2>5
<1>4. CASE p = <<>>
  <2>1. Len(p) = 0 BY <1>4
  <2> HIDE DEF p, tag
  <2>2. Len(p) < Len(CloseTag) BY <1>3, <2>1
  <2>3. Len(p) < Len(tag) BY <1>3, <2>1
  <2>4. SubSeq(tag, 1, 0) = <<>> BY SubSeqEmpty
  <2>5. p = SubSeq(tag, 1, Len(p)) BY <1>4, <2>1, <2>4
  <2>6. IsStrictPrefix(p, tag) BY <1>1, <1>2, <2>3, <2>5, BeginsTag
  <2>7. QED BY <1>1, <2>2, <2>6 DEF p, tag
<1>5. CASE p # <<>>
  <2>1. o.thinkTags /\ ~a.extracted BY <1>5 DEF Splits, IsDone
  <2>2. p \in Seq(Letters) /\ Len(p) < Len(tag) /\ p = SubSeq(tag, 1, Len(p))
    <3>1. CASE a.inside
      <4>1. tag = CloseTag BY <3>1
      <4>2. \E R : Scanned(R, H, p, CloseTag) BY <2>1, <3>1 DEF Splits, IsInside
      <4>3. QED BY <4>1, <4>2 DEF Scanned, Longest
    <3>2. CASE ~a.inside
      <4>1. tag = OpenTag BY <3>2
      <4>2. Scanned(T, C, p, OpenTag) BY <2>1, <3>2 DEF Splits, IsOutside
      <4>3. QED BY <4>1, <4>2 DEF Scanned, Longest
    <3>3. QED BY <3>1, <3>2
  <2>3. Len(p) < Len(CloseTag)
    <3> HIDE DEF p, tag
    <3>1. Len(p) \in Nat BY <1>1, CatFacts
    <3>2. \A i, j \in Nat : i < j /\ j <= 3 => i < 3 OBVIOUS
    <3>3. QED BY <1>3, <2>2, <3>1, <3>2
  <2>4. IsStrictPrefix(p, tag) BY <1>1, <1>2, <2>2, BeginsTag
  <2>5. QED BY <1>1, <2>3, <2>4
<1>6. QED BY <1>4, <1>5

IsEvent(e) ==
    /\ IsText(e.content) /\ e.reasoning \in Nat /\ e.parts \in Seq(Fragments)
    /\ e.usage \in Nat \cup {Absent}

LEMMA EventTyped ==
    ASSUME NEW e \in Events
    PROVE  IsEvent(e)
<1>1. CASE e \in Remarks
  <2>1. e.content = <<>> /\ e.reasoning = 0 /\ e.parts = <<>> /\ e.usage \in Counts \cup {Absent}
    BY <1>1 DEF Remarks
  <2>2. <<>> \in Seq(Fragments) /\ IsText(<<>>) BY EmptySeq DEF IsText
  <2>3. IsText(e.content) /\ e.parts \in Seq(Fragments) BY <2>1, <2>2
  <2>4. Counts \subseteq Nat BY AssemblyAssumption
  <2>5. e.usage \in Counts \cup {Absent} BY <2>1
  <2>6. e.usage \in Nat \cup {Absent} BY <2>4, <2>5
  <2>7. e.reasoning \in Nat BY <2>1
  <2>8. QED BY <2>3, <2>6, <2>7 DEF IsEvent
<1>2. CASE e \notin Remarks
  <2>1. PICK n \in 0 .. MaxAnswer - SizeFed : e \in Pieces(n) BY <1>2 DEF Events
  <2>2. /\ e.content \in [1 .. n -> Letters] /\ e.reasoning \in 0 .. 1 /\ e.usage = Absent
        /\ e.parts \in BoundedSeq(Fragments, Min({2, (MaxAnswer - SizeFed - n) \div 2}))
    BY <2>1 DEF Pieces
  <2>3. n \in Nat BY <2>1
  <2>4. e.content \in Seq(Letters) BY <2>2, <2>3
  <2>5. PICK k \in 0 .. Min({2, (MaxAnswer - SizeFed - n) \div 2}) : e.parts \in [1 .. k -> Fragments]
    BY <2>2 DEF BoundedSeq, SeqOf
  <2>6. k \in Nat BY <2>5
  <2>7. e.parts \in Seq(Fragments) BY <2>5, <2>6
  <2>8. QED BY <2>2, <2>4, <2>7 DEF IsEvent, IsText
<1>3. QED BY <1>1, <1>2

NotedAs(a, b, e) ==
    /\ IsAssembler(b) /\ SameOutput(a, b) /\ SameSplitter(a, b) /\ b.parts = a.parts
    /\ b.usage = (IF e.usage = Absent THEN a.usage ELSE e.usage) /\ b.reason \in {"stop", "length"}

\* What Noted changes.
LEMMA NotedFacts ==
    ASSUME NEW a, IsAssembler(a), a.reason \in {"stop", "length"}, NEW e
    PROVE  NotedAs(a, Noted(a, e), e)
<1> DEFINE b == IF e.usage = Absent THEN a ELSE [a EXCEPT !.usage = e.usage]
           cut == IF e.finish = "length" THEN "length" ELSE "stop"
           r == Noted(a, e)
<1>1. Whole(a) BY DEF IsAssembler
<1>2. r = IF e.finish = "null" THEN b
          ELSE [b EXCEPT !.reason = cut, !.filtered = @ \/ e.finish = "content_filter"]
  BY DEF Noted
<1>3. /\ Whole(b) /\ SameOutput(a, b) /\ SameSplitter(a, b) /\ b.parts = a.parts
      /\ b.usage = (IF e.usage = Absent THEN a.usage ELSE e.usage) /\ b.reason = a.reason
  BY <1>1 DEF Whole, SameOutput, SameSplitter
<1> HIDE DEF b, r
<1>4. /\ Whole(r) /\ SameOutput(b, r) /\ SameSplitter(b, r) /\ r.parts = b.parts
      /\ r.usage = b.usage /\ r.reason \in {b.reason, cut}
  <2>1. CASE e.finish = "null" BY <1>2, <1>3, <2>1 DEF SameOutput, SameSplitter
  <2>2. CASE e.finish # "null"
    <3>1. PICK y : r = [b EXCEPT !.reason = cut, !.filtered = y] BY <1>2, <2>2
    <3> HIDE DEF cut
    <3>2. Whole(r) BY <1>3, <3>1 DEF Whole
    <3>3. SameOutput(b, r) /\ SameSplitter(b, r) BY <1>3, <3>1 DEF Whole, SameOutput, SameSplitter
    <3>4. r.parts = b.parts /\ r.usage = b.usage BY <1>3, <3>1 DEF Whole
    <3>5. r.reason = cut BY <1>3, <3>1 DEF Whole
    <3>6. QED BY <3>2, <3>3, <3>4, <3>5
  <2>3. QED BY <2>1, <2>2
<1>5. SameOutput(a, r) /\ SameSplitter(a, r) BY <1>3, <1>4 DEF SameOutput, SameSplitter
<1>6. IsAssembler(r) BY <1>4, <1>5 DEF IsAssembler, SameOutput, SameSplitter
<1>7. NotedAs(a, r, e) BY <1>3, <1>4, <1>5, <1>6 DEF NotedAs
<1>8. QED BY <1>7 DEF r

\* Giving out c and t tells of the thinking what was told before, and t.
LEMMA ToldOn ==
    ASSUME NEW th, IsThought(th), NEW H, NEW n \in Nat, Told(options, th, H, n),
           NEW s \in Seq({"r"}), NEW t, IsText(t), IsText(H)
    PROVE  /\ Told(options, Cat(th, Shown(Cat(s, t))), Cat(H, t), n + Len(s))
           /\ IsThought(Cat(s, t)) /\ Len(Cat(s, t)) = Len(s) + Len(t) /\ Len(s) \in Nat /\ Len(t) \in Nat
<1>1. IsThought(s) /\ IsThought(t)
  <2>1. {"r"} \subseteq Chars BY DEF Chars
  <2>2. QED BY <2>1, SeqMonotonic, ThoughtFacts DEF IsThought
<1>2. /\ IsThought(Cat(s, t)) /\ Len(Cat(s, t)) = Len(s) + Len(t) /\ Len(s) \in Nat /\ Len(t) \in Nat
      /\ Len(th) \in Nat
  BY <1>1, ThoughtFacts
<1>3. CASE options.visible
  <2>1. LettersOf(th) = H /\ Len(th) = Len(H) + n BY <1>3 DEF Told
  <2>2. Cat(th, Cat(s, t)) = Cat(Cat(th, s), t) /\ IsThought(Cat(th, s)) BY <1>1, ThoughtFacts
  <2>3. LettersOf(Cat(Cat(th, s), t)) = Cat(LettersOf(Cat(th, s)), t) BY <2>2, LettersOn
  <2>4. LettersOf(Cat(th, s)) = LettersOf(th) BY LettersOn
  <2>5. LettersOf(Cat(th, Cat(s, t))) = Cat(H, t) BY <2>1, <2>2, <2>3, <2>4
  <2>6. Len(Cat(th, Cat(s, t))) = Len(th) + (Len(s) + Len(t)) BY <1>2, ThoughtFacts
  <2>7. Len(Cat(H, t)) = Len(H) + Len(t) /\ Len(H) \in Nat BY CatFacts
  <2>8. Len(Cat(th, Cat(s, t))) = Len(Cat(H, t)) + (n + Len(s)) BY <2>1, <2>6, <2>7
  <2>9. Shown(Cat(s, t)) = Cat(s, t) BY <1>3 DEF Shown
  <2>10. QED BY <1>2, <1>3, <2>5, <2>8, <2>9 DEF Told
<1>4. CASE ~options.visible
  <2>1. th = <<>> BY <1>4 DEF Told
  <2>2. Shown(Cat(s, t)) = <<>> BY <1>4 DEF Shown
  <2>3. Cat(<<>>, <<>>) = <<>> BY ConcatEmptySeq, EmptySeq DEF Cat
  <2>4. Cat(th, Shown(Cat(s, t))) = <<>> BY <2>1, <2>2, <2>3
  <2>5. QED BY <1>2, <1>4, <2>4 DEF Told
<1>5. QED BY <1>3, <1>4

\* An output that is refused is too large for the whole answer to be kept.
Consists(o, T, content, thinking) == ContentOf(o, T) = content /\ ThinkingOf(o, T) = thinking

\* An answer that Output gives up is too large as a whole.
LEMMA GivenUp ==
    ASSUME options \in Assemblies, NEW T, NEW x, IsText(x), NEW y, IsText(y),
           NEW C, IsText(C), NEW H, IsText(H), NEW d, IsText(d), NEW t, IsText(t),
           Consists(options, T, Cat(Cat(C, d), x), Cat(Cat(H, t), y)),
           NEW a, IsAssembler(a), a.content = C, NEW n \in Nat, Told(options, a.thinking, H, n),
           NEW s \in Seq({"r"}), NEW r, GaveUp(a, r, d, Cat(s, t)), NEW list
    PROVE  Failed(options, r, T, n + Len(s), list)
<1>1. ContentOf(options, T) = Cat(Cat(C, d), x) /\ ThinkingOf(options, T) = Cat(Cat(H, t), y)
  BY DEF Consists
<1>3. /\ Len(Cat(C, d)) = Len(C) + Len(d) /\ Len(Cat(H, t)) = Len(H) + Len(t)
      /\ IsText(Cat(C, d)) /\ IsText(Cat(H, t))
      /\ Len(C) \in Nat /\ Len(d) \in Nat /\ Len(H) \in Nat /\ Len(t) \in Nat
  BY CatFacts
<1>4. /\ Len(ContentOf(options, T)) >= Len(C) + Len(d) /\ Len(ContentOf(options, T)) \in Nat
      /\ Len(ThinkingOf(options, T)) >= Len(H) + Len(t) /\ Len(ThinkingOf(options, T)) \in Nat
  <2>1. /\ Len(ContentOf(options, T)) = Len(Cat(C, d)) + Len(x)
        /\ Len(ThinkingOf(options, T)) = Len(Cat(H, t)) + Len(y)
        /\ Len(x) \in Nat /\ Len(y) \in Nat
    BY <1>1, <1>3, CatFacts
  <2>2. \A i, j, k, w \in Nat : w = (i + j) + k => w >= i + j OBVIOUS
  <2>3. \A i, j, k \in Nat : (i + j) + k \in Nat OBVIOUS
  <2>4. Len(ContentOf(options, T)) = (Len(C) + Len(d)) + Len(x) BY <1>3, <2>1
  <2>5. Len(ThinkingOf(options, T)) = (Len(H) + Len(t)) + Len(y) BY <1>3, <2>1
  <2>6. Len(ContentOf(options, T)) \in Nat /\ Len(ThinkingOf(options, T)) \in Nat
    <3>1. (Len(C) + Len(d)) + Len(x) \in Nat BY <1>3, <2>1, <2>3
    <3>2. (Len(H) + Len(t)) + Len(y) \in Nat BY <1>3, <2>1, <2>3
    <3>3. QED BY <2>4, <2>5, <3>1, <3>2
  <2>7. QED BY <1>3, <2>1, <2>2, <2>4, <2>5, <2>6
<1>5. IsThought(Cat(s, t)) /\ Len(Cat(s, t)) = Len(s) + Len(t) /\ Len(s) \in Nat
  <2>1. IsThought(a.thinking) BY DEF IsAssembler
  <2>2. QED BY <2>1, ToldOn
<1>6. /\ r.failed = "limit" /\ options.aggregate
      /\ Retained(a) + Len(d) + Len(Shown(Cat(s, t))) > MaxAggregate
      /\ \E e, f : IsText(e) /\ IsText(f) /\ d = Cat(e, f) /\ r.content = Cat(C, e)
  BY DEF GaveUp
<1>7. IsPrefix(r.content, ContentOf(options, T))
  <2>1. PICK e, f : IsText(e) /\ IsText(f) /\ d = Cat(e, f) /\ r.content = Cat(C, e) BY <1>6
  <2>2. IsText(Cat(C, e)) /\ IsText(Cat(f, x)) BY <2>1, CatFacts
  <2>3. ContentOf(options, T) = Cat(Cat(C, e), Cat(f, x))
    <3>1. Cat(C, d) = Cat(Cat(C, e), f) BY <2>1, CatAssoc
    <3>4. ASSUME NEW w, IsText(w) PROVE Cat(Cat(w, f), x) = Cat(w, Cat(f, x))
      BY <2>1, <3>4, CatAssoc
    <3>2. Cat(Cat(Cat(C, e), f), x) = Cat(Cat(C, e), Cat(f, x))
      BY <2>2, <3>4
    <3>3. QED BY <1>1, <3>1, <3>2
  <2>4. ASSUME NEW w, IsText(w), NEW z, IsText(z) PROVE IsPrefix(w, Cat(w, z))
    BY <2>4, CutBack DEF Cat, IsText
  <2>5. IsPrefix(Cat(C, e), Cat(Cat(C, e), Cat(f, x))) BY <2>2, <2>4
  <2>6. QED BY <2>1, <2>3, <2>5
<1>8. Len(ContentOf(options, T))
        + (IF options.visible THEN Len(ThinkingOf(options, T)) + (n + Len(s)) ELSE 0) > MaxAggregate
  <2>1. Retained(a) = Len(C) + Len(a.thinking) BY DEF Retained
  <2>2. MaxAggregate \in Nat BY AssemblyAssumption
  <2>3. CASE options.visible
    <3>1. Len(a.thinking) = Len(H) + n BY <2>3 DEF Told
    <3>2. Len(Shown(Cat(s, t))) = Len(s) + Len(t) BY <1>5, <2>3 DEF Shown
    <3>3. (Len(C) + (Len(H) + n)) + Len(d) + (Len(s) + Len(t)) > MaxAggregate BY <1>6, <2>1, <3>1, <3>2
    <3>4. \A c, h, k, l, m, v, w, z \in Nat, lim \in Nat :
            (c + (h + m)) + k + (l + z) > lim /\ v >= c + k /\ w >= h + z => v + (w + (m + l)) > lim
      OBVIOUS
    <3>5. Len(ContentOf(options, T)) + (Len(ThinkingOf(options, T)) + (n + Len(s))) > MaxAggregate
      BY <1>3, <1>4, <1>5, <2>2, <3>3, <3>4
    <3>6. QED BY <2>3, <3>5
  <2>4. CASE ~options.visible
    <3>1. a.thinking = <<>> BY <2>4 DEF Told
    <3>2. Len(a.thinking) = 0 /\ Len(Shown(Cat(s, t))) = 0 BY <2>4, <3>1 DEF Shown
    <3>3. (Len(C) + 0) + Len(d) + 0 > MaxAggregate BY <1>6, <2>1, <3>2
    <3>4. \A c, k, v \in Nat, lim \in Nat : (c + 0) + k + 0 > lim /\ v >= c + k => v + 0 > lim OBVIOUS
    <3>5. Len(ContentOf(options, T)) + 0 > MaxAggregate BY <1>3, <1>4, <2>2, <3>3, <3>4
    <3>6. QED BY <2>4, <3>5
  <2>5. QED BY <2>3, <2>4
<1>9. r.failed # "no" BY <1>6
<1>10. Over(options, T, n + Len(s), list) BY <1>6, <1>8 DEF Over
<1>11. QED BY <1>7, <1>9, <1>10 DEF Failed

Reasoned(n) == [i \in 1 .. n |-> "r"]

LEMMA ReasonedFacts ==
    ASSUME NEW n \in Nat
    PROVE  Reasoned(n) \in Seq({"r"}) /\ Len(Reasoned(n)) = n /\ IsThought(Reasoned(n))
<1>1. Reasoned(n) \in Seq({"r"}) BY DEF Reasoned
<1>2. Len(Reasoned(n)) = n BY DEF Reasoned
<1>3. {"r"} \subseteq Chars BY DEF Chars
<1>4. QED BY <1>1, <1>2, <1>3, SeqMonotonic DEF IsThought

\* What an event has given out before its fragments are added.
Parsed(b, e) ==
    IF options.thinkTags THEN SplitterFeed(Output(b, <<>>, Reasoned(e.reasoning)), e.content)
    ELSE Output(Output(b, <<>>, Reasoned(e.reasoning)), e.content, <<>>)

LEMMA FedIs ==
    ASSUME NEW a, NEW e
    PROVE  Fed(a, e) = AddAll(Parsed(Noted(a, e), e), e.parts)
BY DEF Fed, Parsed, Reasoned

\* What an event's reasoning and text give out.
LEMMA ParsedGives ==
    ASSUME NEW b, IsAssembler(b), NEW T, IsText(T), NEW C, NEW H, Splits(options, T, b, C, H),
           NEW e, IsEvent(e), NEW c, Becomes(c, Parsed(b, e))
    PROVE  \E d, t : /\ IsText(d) /\ IsText(t) /\ Gave(b, c, d, Cat(Reasoned(e.reasoning), t))
                     /\ Splits(options, Cat(T, e.content), c, Cat(C, d), Cat(H, t))
<1> DEFINE s == Reasoned(e.reasoning)
           m == Output(b, <<>>, s)
           x == e.content
<1>1. IsText(x) /\ e.reasoning \in Nat /\ IsText(<<>>) BY CatNothing DEF IsEvent
<1>2. IsThought(s) BY <1>1, ReasonedFacts
<1>3. Becomes(c, IF options.thinkTags THEN SplitterFeed(m, x) ELSE Output(m, x, <<>>))
  BY DEF Becomes, Parsed
<1> HIDE DEF s
<1>4. Gave(b, m, <<>>, s) /\ SameSplitter(b, m) BY <1>1, <1>2, OutputGives
<1> HIDE DEF m, x
<1>5. IsAssembler(m) BY <1>4 DEF Gave
<1>6. Splits(options, T, m, C, H) BY <1>4, SplitsAlike
<1>7. SplitOn(m, c, Cat(T, x), C, H) BY <1>1, <1>3, <1>5, <1>6, FeedSplits
<1>8. PICK d, t : /\ IsText(d) /\ IsText(t) /\ Gave(m, c, d, t)
                  /\ Splits(options, Cat(T, x), c, Cat(C, d), Cat(H, t))
  BY <1>7 DEF SplitOn
<1>9. Gave(b, c, Cat(<<>>, d), Cat(s, t))
  <2>1. SameOutput(m, m) /\ SameRest(m, m) BY DEF SameOutput, SameRest
  <2>2. IsThought(t) BY <1>8, ThoughtFacts
  <2>3. QED BY <1>1, <1>2, <1>4, <1>8, <2>1, <2>2, GaveTogether
<1>10. Cat(<<>>, d) = d BY <1>8, CatNothing
<1>11. Gave(b, c, d, Cat(s, t)) BY <1>9, <1>10
<1>12. QED BY <1>8, <1>11 DEF s, x

\* One event: the state goes on being that of the answer fed at once, or the answer fails and
\* exceeds a bound.
LEMMA FeedKeeps ==
    ASSUME options \in Assemblies, NEW a, Sound(a), NEW T, IsText(T), NEW n \in Nat,
           NEW list \in Seq(Fragments), NEW u, Feeding(options, a, T, n, list, u),
           NEW e, IsEvent(e), NEW r, Becomes(r, Fed(a, e)),
           NEW more, Becomes(more, Cat(T, e.content)), NEW k, Becomes(k, n + e.reasoning),
           NEW all, Becomes(all, Cat(list, e.parts)),
           NEW v, Becomes(v, IF e.usage = Absent THEN u ELSE e.usage)
    PROVE  Sound(r) /\ (Feeding(options, r, more, k, all, v) \/ Failed(options, r, more, k, all))
<1> DEFINE b == Noted(a, e)
           c == Parsed(b, e)
           s == Reasoned(e.reasoning)
<1>1. /\ IsText(e.content) /\ e.reasoning \in Nat /\ e.parts \in Seq(Fragments)
      /\ e.usage \in Nat \cup {Absent}
  BY DEF IsEvent
<1>2. /\ IsAssembler(a) /\ a.reason \in {"stop", "length"} /\ a.usage \in Nat \cup {Absent}
      /\ IsThought(a.thinking)
  BY DEF Sound, IsAssembler
<1>3. /\ a.failed = "no" /\ a.usage = u /\ Gathered(a.parts, list) /\ ~Unbounded(options, list)
  BY DEF Feeding
<1>4. PICK H : /\ Splits(options, T, a, a.content, H) /\ Told(options, a.thinking, H, n)
               /\ a.textBytes = (Len(a.content) + Len(H) + n) + Bytes(list)
  BY DEF Feeding
<1>5. NotedAs(a, b, e) BY <1>2, NotedFacts
<1>6. r = AddAll(c, e.parts) BY FedIs DEF Becomes
<1> HIDE DEF b
<1>7. /\ IsAssembler(b) /\ SameOutput(a, b) /\ SameSplitter(a, b) /\ b.parts = a.parts
      /\ b.usage = v /\ b.reason \in {"stop", "length"} /\ v \in Nat \cup {Absent}
  <2>1. /\ IsAssembler(b) /\ SameOutput(a, b) /\ SameSplitter(a, b) /\ b.parts = a.parts
        /\ b.usage = (IF e.usage = Absent THEN a.usage ELSE e.usage) /\ b.reason \in {"stop", "length"}
    BY <1>5 DEF NotedAs
  <2>2. v = IF e.usage = Absent THEN u ELSE e.usage BY DEF Becomes
  <2>3. b.usage = v BY <1>3, <2>1, <2>2
  <2>4. v \in Nat \cup {Absent} BY <1>1, <1>2, <1>3, <2>2
  <2>5. QED BY <2>1, <2>3, <2>4
<1>8. Splits(options, T, b, a.content, H) BY <1>4, <1>7, SplitsAlike
<1>9. Becomes(c, Parsed(b, e)) BY DEF Becomes
<1> HIDE DEF c
<1>10. PICK d, t : /\ IsText(d) /\ IsText(t) /\ Gave(b, c, d, Cat(s, t))
                   /\ Splits(options, Cat(T, e.content), c, Cat(a.content, d), Cat(H, t))
  BY <1>7, <1>8, <1>9, ParsedGives
<1>11. s \in Seq({"r"}) /\ Len(s) = e.reasoning BY <1>1, ReasonedFacts
<1> HIDE DEF s
<1>12. IsText(a.content) /\ IsText(H) /\ IsText(Cat(H, t)) BY <1>4, <1>10, CatFacts DEF Splits
<1>13. /\ Told(options, Cat(a.thinking, Shown(Cat(s, t))), Cat(H, t), n + Len(s))
       /\ IsThought(Cat(s, t)) /\ Len(Cat(s, t)) = Len(s) + Len(t) /\ Len(s) \in Nat /\ Len(t) \in Nat
  BY <1>2, <1>4, <1>10, <1>11, <1>12, ToldOn
<1>14. more = Cat(T, e.content) /\ IsText(more) /\ k = n + e.reasoning /\ k \in Nat
       /\ all = Cat(list, e.parts) /\ all \in Seq(Fragments)
  <2>1. more = Cat(T, e.content) /\ k = n + e.reasoning /\ all = Cat(list, e.parts) BY DEF Becomes
  <2>2. IsText(more) BY <1>1, <2>1, CatFacts
  <2>3. n + e.reasoning \in Nat BY <1>1
  <2>4. list \o e.parts \in Seq(Fragments) BY <1>1, ConcatProperties
  <2>5. QED BY <2>1, <2>2, <2>3, <2>4 DEF Cat
<1>15. /\ IsAssembler(c) /\ c.parts = b.parts /\ c.usage = b.usage /\ c.reason = b.reason
       /\ b.failed = "no" /\ (GaveAll(b, c, d, Cat(s, t)) \/ GaveUp(b, c, d, Cat(s, t)))
  <2>1. b.failed = "no" BY <1>3, <1>7 DEF SameOutput
  <2>2. QED BY <1>10, <2>1 DEF Gave, SameRest
<1>16. b.content = a.content /\ b.thinking = a.thinking /\ b.textBytes = a.textBytes BY <1>7 DEF SameOutput
<1>17. Splits(options, more, c, Cat(a.content, d), Cat(H, t)) BY <1>10, <1>14
<1>18. c.inside \in BOOLEAN /\ c.extracted \in BOOLEAN BY <1>15 DEF IsAssembler
<1>19. IsText(c.pending) /\ Len(c.pending) < Len(CloseTag) BY <1>17, <1>18, PendingFacts
<1>20. CASE GaveUp(b, c, d, Cat(s, t))
  <2>1. c.failed # "no" BY <1>20 DEF GaveUp
  <2>2. r = c BY <1>1, <1>6, <2>1, AddNone
  <2>3. Told(options, b.thinking, H, n) BY <1>4, <1>16
  <2>8. Consists(options, more, Cat(Cat(a.content, d), HeldText(c)), Cat(Cat(H, t), HeldThought(c)))
    <3>1. ASSUME NEW x, NEW y, Splits(options, more, c, x, y)
          PROVE  Consists(options, more, Cat(x, HeldText(c)), Cat(y, HeldThought(c)))
      BY <1>14, <1>18, <3>1, SplitWhole DEF Consists
    <3>2. QED BY <1>17, <3>1
  <2>9. IsText(HeldText(c)) /\ IsText(HeldThought(c))
    <3>1. IsText(c.pending) /\ IsText(<<>>) BY <1>12, <1>19, CatNothing
    <3>2. QED BY <3>1 DEF HeldText, HeldThought
  <2>10. GaveUp(b, c, d, Cat(s, t)) BY <1>20
  <2>4. Failed(options, c, more, n + Len(s), all)
    BY <1>7, <1>10, <1>11, <1>12, <1>16, <2>3, <2>8, <2>9, <2>10, GivenUp
  <2>5. Failed(options, r, more, k, all) BY <1>11, <1>14, <2>2, <2>4
  <2>6. Sound(r) BY <1>7, <1>15, <1>19, <2>2 DEF Sound
  <2>7. QED BY <2>5, <2>6
<1>21. CASE GaveAll(b, c, d, Cat(s, t))
  <2> DEFINE C == Cat(a.content, d)
             G == Cat(H, t)
             N == Len(C) + Len(G) + k
  <2>1. /\ c.failed = "no" /\ c.content = C /\ c.thinking = Cat(a.thinking, Shown(Cat(s, t)))
        /\ c.textBytes = a.textBytes + Len(d) + Len(Cat(s, t)) /\ Fits(options, c)
    BY <1>16, <1>21 DEF GaveAll
  <2>2. /\ Len(C) = Len(a.content) + Len(d) /\ Len(G) = Len(H) + Len(t)
        /\ Len(a.content) \in Nat /\ Len(d) \in Nat /\ Len(H) \in Nat /\ IsText(C)
    BY <1>10, <1>12, CatFacts
  <2>3. Bytes(list) \in Nat BY CallsOfList
  <2>4. Told(options, c.thinking, G, k) BY <1>11, <1>13, <1>14, <2>1
  <2>17. Splits(options, more, c, C, G) BY <1>17
  <2> HIDE DEF C, G
  <2>5. N \in Nat /\ c.textBytes = N + Bytes(list)
    <3>1. a.textBytes = (Len(a.content) + Len(H) + n) + Bytes(list) BY <1>4
    <3>3. c.textBytes = ((Len(a.content) + Len(H) + n) + Bytes(list)) + Len(d) + (Len(s) + Len(t))
      BY <1>13, <2>1, <3>1
    <3>4. c.textBytes = ((Len(a.content) + Len(d)) + (Len(H) + Len(t)) + (n + Len(s))) + Bytes(list)
      <4>1. /\ Len(a.content) \in Nat /\ Len(H) \in Nat /\ n \in Nat /\ Bytes(list) \in Nat
            /\ Len(d) \in Nat /\ Len(s) \in Nat /\ Len(t) \in Nat
        BY <1>13, <2>2, <2>3
      <4>2. PICK p \in Nat, q \in Nat, x \in Nat, y \in Nat, z \in Nat, l \in Nat :
              /\ p = Len(a.content) /\ q = Len(H) /\ x = Bytes(list)
              /\ y = Len(d) /\ z = Len(s) /\ l = Len(t)
        BY <4>1
      <4>3. c.textBytes = ((p + q + n) + x) + y + (z + l) BY <3>3, <4>2
      <4>4. ((p + q + n) + x) + y + (z + l) = ((p + y) + (q + l) + (n + z)) + x OBVIOUS
      <4>5. QED BY <4>2, <4>3, <4>4
    <3>5. N = (Len(a.content) + Len(d)) + (Len(H) + Len(t)) + (n + Len(s)) BY <1>11, <1>14, <2>2
    <3>6. N \in Nat
      <4>1. \A x, y, z \in Nat : x + y + z \in Nat OBVIOUS
      <4>2. Len(C) \in Nat /\ Len(G) \in Nat BY <1>13, <2>2
      <4>3. QED BY <1>14, <4>1, <4>2
    <3>7. QED BY <3>4, <3>5, <3>6
  <2> HIDE DEF N
  <2>6. Gathered(c.parts, list) BY <1>3, <1>7, <1>15
  <2>7. Assembled(c, c, list, N) BY <1>3, <1>15, <2>1, <2>5, <2>6 DEF Assembled, SameSplitter
  <2>8. Assembled(c, r, all, N) BY <1>1, <1>6, <1>14, <2>5, <2>7, AddMany
  <2>9. /\ IsAssembler(r) /\ SameSplitter(c, r) /\ r.content = C /\ r.thinking = c.thinking
        /\ r.usage = v /\ r.reason \in {"stop", "length"}
        /\ r.failed = "no" => Gathered(r.parts, all) /\ ~Unbounded(options, all) /\ r.textBytes = N + Bytes(all)
        /\ r.failed # "no" => Unbounded(options, all)
    BY <1>7, <1>15, <2>1, <2>8 DEF Assembled
  <2>10. Splits(options, more, r, C, G) BY <2>9, <2>17, SplitsAlike
  <2>11. Sound(r) BY <1>7, <1>19, <2>9 DEF Sound, SameSplitter
  <2>12. CASE r.failed = "no"
    <3>1. Fits(options, r) BY <2>1, <2>9 DEF Fits, Retained
    <3>2. Told(options, r.thinking, G, k) BY <2>4, <2>9
    <3>3. r.textBytes = (Len(r.content) + Len(G) + k) + Bytes(all) BY <2>9, <2>12 DEF N
    <3>4. Splits(options, more, r, r.content, G) BY <2>9, <2>10
    <3>5. Feeding(options, r, more, k, all, v) BY <2>9, <2>12, <3>1, <3>2, <3>3, <3>4 DEF Feeding
    <3>6. QED BY <2>11, <3>5
  <2>13. CASE r.failed # "no"
    <3>1. ContentOf(options, more) = Cat(C, HeldText(r))
      <4>1. r.inside \in BOOLEAN /\ r.extracted \in BOOLEAN BY <2>9 DEF IsAssembler
      <4>2. QED BY <1>14, <2>10, <4>1, SplitWhole
    <3>2. IsText(HeldText(r))
      <4>1. IsText(r.pending) /\ IsText(<<>>) BY <2>10, <2>2, CatNothing DEF Splits
      <4>2. QED BY <4>1 DEF HeldText
    <3>3. IsPrefix(r.content, ContentOf(options, more))
      <4>1. ASSUME NEW x, IsText(x), NEW y, IsText(y) PROVE IsPrefix(x, Cat(x, y))
        BY <4>1, CutBack DEF Cat, IsText
      <4>2. QED BY <2>2, <2>9, <3>1, <3>2, <4>1
    <3>4. Over(options, more, k, all) BY <2>9, <2>13 DEF Over
    <3>5. Failed(options, r, more, k, all) BY <2>13, <3>3, <3>4 DEF Failed
    <3>6. QED BY <2>11, <3>5
  <2>14. QED BY <2>12, <2>13
<1>22. QED BY <1>15, <1>20, <1>21

LEMMA EstimatedFacts ==
    ASSUME NEW g, IsAssembler(g), NEW r, Becomes(r, [Estimated(g) EXCEPT !.parts = <<>>])
    PROVE  /\ IsAssembler(r) /\ SameOutput(g, r) /\ SameSplitter(g, r)
           /\ r.reason = g.reason
           /\ r.usage = IF g.failed = "no" /\ g.usage = Absent THEN (g.textBytes + 3) \div 4 ELSE g.usage
<1> DEFINE m == Estimated(g)
           count == (g.textBytes \div 4) + (IF g.textBytes % 4 = 0 THEN 0 ELSE 1)
<1>1. Whole(g) /\ g.textBytes \in Nat BY DEF IsAssembler
<1>2. m = IF g.failed # "no" \/ g.usage # Absent THEN g ELSE [g EXCEPT !.usage = count]
  BY DEF Estimated
<1>3. count = (g.textBytes + 3) \div 4
  <2>1. PICK b \in Nat : b = g.textBytes BY <1>1
  <2>2. (b \div 4) + (IF b % 4 = 0 THEN 0 ELSE 1) = (b + 3) \div 4 OBVIOUS
  <2>3. QED BY <2>1, <2>2
<1>4. r = [m EXCEPT !.parts = <<>>] BY DEF Becomes
<1> HIDE DEF m, count
<1>5. /\ Whole(m) /\ SameOutput(g, m) /\ SameSplitter(g, m) /\ m.reason = g.reason
      /\ m.usage = IF g.failed = "no" /\ g.usage = Absent THEN count ELSE g.usage
  <2>1. CASE g.failed # "no" \/ g.usage # Absent
    <3>1. m = g BY <1>2, <2>1
    <3>2. QED BY <1>1, <2>1, <3>1 DEF SameOutput, SameSplitter
  <2>2. CASE ~(g.failed # "no" \/ g.usage # Absent)
    <3>1. m = [g EXCEPT !.usage = count] BY <1>2, <2>2
    <3>2. Whole(m) BY <1>1, <3>1 DEF Whole
    <3>3. SameOutput(g, m) /\ SameSplitter(g, m) BY <1>1, <3>1 DEF Whole, SameOutput, SameSplitter
    <3>4. m.reason = g.reason /\ m.usage = count BY <1>1, <3>1 DEF Whole
    <3>5. QED BY <2>2, <3>2, <3>3, <3>4
  <2>3. QED BY <2>1, <2>2
<1>6. /\ Whole(r) /\ SameOutput(m, r) /\ SameSplitter(m, r) /\ r.reason = m.reason /\ r.usage = m.usage
  BY <1>4, <1>5 DEF Whole, SameOutput, SameSplitter
<1>7. SameOutput(g, r) /\ SameSplitter(g, r) BY <1>5, <1>6 DEF SameOutput, SameSplitter
<1>8. IsAssembler(r) BY <1>6, <1>7 DEF IsAssembler, SameOutput, SameSplitter
<1>9. r.usage = IF g.failed = "no" /\ g.usage = Absent THEN (g.textBytes + 3) \div 4 ELSE g.usage
  BY <1>3, <1>5, <1>6
<1>10. QED BY <1>5, <1>6, <1>7, <1>8, <1>9

\* The answer, once it is whole.
Finished(o, a, T, n, list, u) ==
    /\ a.failed = "no" /\ a.content = ContentOf(o, T) /\ Told(o, a.thinking, ThinkingOf(o, T), n)
    /\ a.textBytes = (Len(ContentOf(o, T)) + Len(ThinkingOf(o, T)) + n) + Bytes(list)
    /\ a.usage = (IF u = Absent THEN (a.textBytes + 3) \div 4 ELSE u)
    /\ ~Over(o, T, n, list) /\ ~Useless(o, list)

\* Finish: what was held is given out, the calls are validated, the usage is estimated.
LEMMA FinishKeeps ==
    ASSUME options \in Assemblies, NEW a, Sound(a), NEW T, IsText(T), NEW n \in Nat,
           NEW list \in Seq(Fragments), NEW u, Feeding(options, a, T, n, list, u),
           NEW f, Becomes(f, IF options.thinkTags THEN SplitterFinish(a) ELSE a),
           NEW g, Becomes(g, ToolsFinish(f)),
           NEW r, Becomes(r, [Estimated(g) EXCEPT !.parts = <<>>])
    PROVE  /\ Sound(r) /\ r.failed = g.failed /\ r.pending = <<>>
           /\ g.failed = "no" =>
                Finished(options, r, T, n, list, u) /\ Answered(CallsInOrder(g.parts), list)
           /\ g.failed # "no" => Failed(options, r, T, n, list)
<1> DEFINE d == HeldText(a)
           t == HeldThought(a)
           C == ContentOf(options, T)
           G == ThinkingOf(options, T)
<1>1. /\ IsAssembler(a) /\ a.reason \in {"stop", "length"} /\ a.usage \in Nat \cup {Absent}
      /\ IsText(a.content) /\ IsThought(a.thinking) /\ IsText(a.pending)
      /\ a.inside \in BOOLEAN /\ a.extracted \in BOOLEAN
  BY DEF Sound, IsAssembler
<1>2. /\ a.failed = "no" /\ a.usage = u /\ Gathered(a.parts, list) /\ ~Unbounded(options, list)
      /\ Fits(options, a)
  BY DEF Feeding
<1>3. PICK H : /\ Splits(options, T, a, a.content, H) /\ Told(options, a.thinking, H, n)
               /\ a.textBytes = (Len(a.content) + Len(H) + n) + Bytes(list)
  BY DEF Feeding
<1>4. IsText(H) /\ IsText(<<>>) /\ IsThought(<<>>) BY <1>3, CatNothing, ThoughtFacts DEF Splits
<1>5. C = Cat(a.content, d) /\ G = Cat(H, t) BY <1>1, <1>3, SplitWhole
<1>6. IsText(d) /\ IsText(t) BY <1>1, <1>4 DEF HeldText, HeldThought
<1>7. Flushed(a, f) BY <1>1, <1>2, <1>3, FinishFlushes
<1>8. Gave(a, f, d, t) /\ f.pending = <<>> BY <1>7 DEF Flushed
<1> HIDE DEF d, t, C, G
<1>9. /\ IsText(C) /\ IsText(G) /\ Len(C) = Len(a.content) + Len(d) /\ Len(G) = Len(H) + Len(t)
      /\ Len(a.content) \in Nat /\ Len(d) \in Nat /\ Len(H) \in Nat /\ Len(t) \in Nat
      /\ Len(C) \in Nat /\ Len(G) \in Nat
  <2>1. IsText(C) /\ IsText(G) BY <1>1, <1>4, <1>5, <1>6, CatFacts
  <2>2. /\ Len(C) = Len(a.content) + Len(d) /\ Len(G) = Len(H) + Len(t)
        /\ Len(a.content) \in Nat /\ Len(d) \in Nat /\ Len(H) \in Nat /\ Len(t) \in Nat
    BY <1>1, <1>4, <1>5, <1>6, CatFacts
  <2>3. QED BY <2>1, <2>2, CatFacts
<1>10. /\ IsAssembler(f) /\ f.parts = a.parts /\ f.usage = u /\ f.reason \in {"stop", "length"}
       /\ (GaveAll(a, f, d, t) \/ GaveUp(a, f, d, t))
  BY <1>1, <1>2, <1>8 DEF Gave, SameRest
<1>11. <<>> \in Seq({"r"}) /\ Len(<<>>) = 0 /\ Cat(<<>>, t) = t /\ n + 0 = n
  BY <1>6, EmptySeq, CatNothing
<1>12. IsAssembler(g) => /\ IsAssembler(r) /\ SameOutput(g, r) /\ SameSplitter(g, r)
                         /\ r.reason = g.reason
                         /\ r.usage = IF g.failed = "no" /\ g.usage = Absent
                                      THEN (g.textBytes + 3) \div 4 ELSE g.usage
  BY EstimatedFacts
<1>13. 0 < Len(CloseTag) BY DEF CloseTag
<1>14. ASSUME IsAssembler(g), g.reason = f.reason, g.usage = f.usage, g.pending = <<>>
       PROVE  Sound(r) /\ r.failed = g.failed /\ r.pending = <<>>
  <2>1. /\ IsAssembler(r) /\ SameOutput(g, r) /\ SameSplitter(g, r) /\ r.reason = g.reason
        /\ r.usage = IF g.failed = "no" /\ g.usage = Absent THEN (g.textBytes + 3) \div 4 ELSE g.usage
    BY <1>12, <1>14
  <2>2. (g.textBytes + 3) \div 4 \in Nat
    <3>1. PICK b \in Nat : b = g.textBytes BY <1>14 DEF IsAssembler
    <3>2. (b + 3) \div 4 \in Nat OBVIOUS
    <3>3. QED BY <3>1, <3>2
  <2>3. r.usage \in Nat \cup {Absent} BY <1>1, <1>2, <1>10, <1>14, <2>1, <2>2
  <2>4. r.pending = <<>> BY <1>14, <2>1 DEF SameSplitter
  <2>5. IsText(r.pending) /\ Len(r.pending) < Len(CloseTag) BY <1>4, <1>11, <1>13, <2>4
  <2>6. r.reason \in {"stop", "length"} BY <1>10, <1>14, <2>1
  <2>7. QED BY <2>1, <2>3, <2>4, <2>5, <2>6 DEF Sound, SameOutput
<1>15. CASE GaveUp(a, f, d, t)
  <2>1. f.failed # "no" BY <1>15 DEF GaveUp
  <2>2. g = f BY <2>1 DEF Becomes, ToolsFinish
  <2>3. Failed(options, f, T, n, list)
    <3>1. GaveUp(a, f, d, Cat(<<>>, t)) BY <1>11, <1>15
    <3>2. Consists(options, T, Cat(Cat(a.content, d), <<>>), Cat(Cat(H, t), <<>>))
      <4>1. Cat(C, <<>>) = C /\ Cat(G, <<>>) = G BY <1>9, CatNothing
      <4>2. QED BY <1>5, <4>1 DEF Consists, C, G
    <3>3. Failed(options, f, T, n + Len(<<>>), list)
      BY <1>1, <1>3, <1>4, <1>6, <1>11, <3>1, <3>2, GivenUp
    <3>4. n + Len(<<>>) = n BY <1>11
    <3>5. QED BY <3>3, <3>4
  <2>4. IsAssembler(g) /\ g.reason = f.reason /\ g.usage = f.usage /\ g.pending = <<>>
    BY <1>8, <1>10, <2>2
  <2>5. Sound(r) /\ r.failed = g.failed /\ r.pending = <<>> BY <1>14, <2>4
  <2>6. r.content = f.content /\ r.failed = f.failed BY <1>12, <2>2, <2>4 DEF SameOutput
  <2>7. Failed(options, r, T, n, list) BY <2>3, <2>6 DEF Failed
  <2>8. QED BY <2>1, <2>2, <2>5, <2>7
<1>16. CASE GaveAll(a, f, d, t)
  <2>1. /\ f.failed = "no" /\ f.content = C /\ f.thinking = Cat(a.thinking, Shown(t))
        /\ f.textBytes = a.textBytes + Len(d) + Len(t) /\ Fits(options, f)
    BY <1>5, <1>16 DEF GaveAll
  <2>2. Told(options, f.thinking, G, n)
    <3>1. Told(options, Cat(a.thinking, Shown(Cat(<<>>, t))), Cat(H, t), n + Len(<<>>))
      BY <1>1, <1>3, <1>4, <1>6, <1>11, ToldOn
    <3>2. n + Len(<<>>) = n BY <1>11
    <3>3. QED BY <1>5, <1>11, <2>1, <3>1, <3>2
  <2>3. f.textBytes = (Len(C) + Len(G) + n) + Bytes(list)
    <3>1. Bytes(list) \in Nat BY CallsOfList
    <3>2. PICK p \in Nat, q \in Nat, x \in Nat, y \in Nat, l \in Nat :
            p = Len(a.content) /\ q = Len(H) /\ x = Bytes(list) /\ y = Len(d) /\ l = Len(t)
      BY <1>9, <3>1
    <3>3. f.textBytes = ((p + q + n) + x) + y + l BY <1>3, <2>1, <3>2
    <3>4. ((p + q + n) + x) + y + l = ((p + y) + (q + l) + n) + x OBVIOUS
    <3>5. QED BY <1>9, <3>2, <3>3, <3>4
  <2>4. Gathered(f.parts, list) BY <1>2, <1>10
  <2>5. /\ ~Useless(options, list) => g = f
        /\ Useless(options, list) =>
                /\ IsAssembler(g) /\ SameSplitter(f, g) /\ g.content = f.content /\ g.failed # "no"
                /\ g.thinking = f.thinking /\ g.textBytes = f.textBytes
                /\ g.usage = f.usage /\ g.reason = f.reason /\ g.filtered = f.filtered
    BY <1>2, <1>10, <2>1, <2>4, FinishValidates
  <2>6. CASE Useless(options, list)
    <3>1. IsAssembler(g) /\ g.reason = f.reason /\ g.usage = f.usage /\ g.pending = <<>>
          /\ g.failed # "no" /\ g.content = C
      BY <1>8, <2>1, <2>5, <2>6 DEF SameSplitter
    <3>2. Sound(r) /\ r.failed = g.failed /\ r.pending = <<>> BY <1>14, <3>1
    <3>3. r.content = C BY <1>12, <3>1 DEF SameOutput
    <3>4. IsPrefix(C, C)
      <4>1. Len(C) <= Len(C) BY <1>9
      <4>2. QED BY <4>1 DEF IsPrefix
    <3>5. Failed(options, r, T, n, list) BY <2>6, <3>1, <3>2, <3>3, <3>4 DEF Failed, C
    <3>6. QED BY <3>1, <3>2, <3>5
  <2>7. CASE ~Useless(options, list)
    <3>1. g = f BY <2>5, <2>7
    <3>2. IsAssembler(g) /\ g.reason = f.reason /\ g.usage = f.usage /\ g.pending = <<>> /\ g.failed = "no"
      BY <1>8, <1>10, <2>1, <3>1
    <3>3. Sound(r) /\ r.failed = g.failed /\ r.pending = <<>> BY <1>14, <3>2
    <3>4. r.content = C /\ r.thinking = f.thinking /\ r.textBytes = f.textBytes /\ r.failed = "no"
          /\ r.usage = IF f.usage = Absent THEN (f.textBytes + 3) \div 4 ELSE f.usage
      BY <1>12, <2>1, <3>1, <3>2 DEF SameOutput
    <3>5. ~Over(options, T, n, list)
      <4>1. options.aggregate => Len(C) + Len(f.thinking) <= MaxAggregate BY <2>1 DEF Fits, Retained
      <4>2. CASE options.visible
        <5>1. Len(f.thinking) = Len(G) + n BY <2>2, <4>2 DEF Told
        <5>2. Len(C) + (Len(G) + n) \in Nat /\ MaxAggregate \in Nat
          <6>1. \A x, y, z \in Nat : x + (y + z) \in Nat OBVIOUS
          <6>2. QED BY <1>9, <6>1, AssemblyAssumption
        <5>3. options.aggregate => ~(Len(C) + (Len(G) + n) > MaxAggregate) BY <4>1, <5>1, <5>2
        <5>4. QED BY <1>2, <4>2, <5>3 DEF Over, C, G
      <4>3. CASE ~options.visible
        <5>1. f.thinking = <<>> BY <2>2, <4>3 DEF Told
        <5>2. Len(f.thinking) = 0 BY <1>11, <5>1
        <5>3. Len(C) + 0 \in Nat /\ MaxAggregate \in Nat
          <6>1. \A x \in Nat : x + 0 \in Nat OBVIOUS
          <6>2. Len(C) + 0 \in Nat BY <1>9, <6>1
          <6>3. MaxAggregate \in Nat BY AssemblyAssumption
          <6>4. QED BY <6>2, <6>3
        <5>4. options.aggregate => ~(Len(C) + 0 > MaxAggregate) BY <4>1, <5>2, <5>3
        <5>5. QED BY <1>2, <4>3, <5>4 DEF Over, C
      <4>4. QED BY <4>2, <4>3
    <3>6. r.usage = (IF u = Absent THEN (r.textBytes + 3) \div 4 ELSE u) BY <1>10, <3>4
    <3>7. Told(options, r.thinking, G, n) BY <2>2, <3>4
    <3>8. r.textBytes = (Len(C) + Len(G) + n) + Bytes(list) BY <2>3, <3>4
    <3>9. Finished(options, r, T, n, list, u) BY <2>7, <3>4, <3>5, <3>6, <3>7, <3>8 DEF Finished, C, G
    <3>10. Answered(CallsInOrder(g.parts), list) BY <1>2, <2>4, <3>1, CallsAnswer
    <3>11. QED BY <3>2, <3>3, <3>9, <3>10
  <2>8. QED BY <2>6, <2>7
<1>17. QED BY <1>10, <1>15, <1>16

----------------------------------------------------------------------------
(* The invariant: the answer so far, fed at once, and what has become of it.*)

HistoryOK(f) ==
    /\ f = [text |-> f.text, reasoning |-> f.reasoning, parts |-> f.parts, usage |-> f.usage,
            events |-> f.events]
    /\ IsText(f.text) /\ f.reasoning \in Nat /\ f.parts \in Seq(Fragments)
    /\ f.usage \in Nat \cup {Absent}

Stands(o, a, cs, ph, f) ==
    /\ ph = "feeding" => Feeding(o, a, f.text, f.reasoning, f.parts, f.usage) /\ cs = <<>>
    /\ ph = "failed" => Failed(o, a, f.text, f.reasoning, f.parts) /\ cs = <<>>
    /\ ph = "finished" =>
        /\ Finished(o, a, f.text, f.reasoning, f.parts, f.usage) /\ Answered(cs, f.parts)
        /\ a.pending = <<>>

AssemblyInv ==
    /\ options \in Assemblies /\ phase \in {"feeding", "finished", "failed"}
    /\ Sound(assembler) /\ HistoryOK(fed)
    /\ Stands(options, assembler, calls, phase, fed)

\* Nothing is given out of nothing.
LEMMA NothingSplits ==
    ASSUME NEW o, NEW a, a.inside = o.thinkInitial, a.extracted = FALSE, a.pending = <<>>,
           o.thinkInitial \in BOOLEAN
    PROVE  Splits(o, <<>>, a, <<>>, <<>>)
<1>1. IsText(<<>>) BY CatNothing, EmptySeq DEF IsText
<1>2. Scanned(<<>>, <<>>, <<>>, OpenTag) /\ Scanned(<<>>, <<>>, <<>>, CloseTag) BY NothingScanned DEF Tags
<1>3. CASE o.thinkInitial
  <2>1. Begun(o, <<>>, <<>>, <<>>) BY <1>3 DEF Begun
  <2>2. IsInside(o, <<>>, <<>>, <<>>, <<>>) BY <1>1, <1>2, <2>1 DEF IsInside
  <2>3. QED BY <1>1, <1>3, <2>2 DEF Splits
<1>4. CASE ~o.thinkInitial
  <2>1. IsOutside(o, <<>>, <<>>, <<>>, <<>>) BY <1>2, <1>4 DEF IsOutside
  <2>2. QED BY <1>1, <1>4, <2>1 DEF Splits
<1>5. QED BY <1>3, <1>4

LEMMA AssemblyStart == AssemblyInit => AssemblyInv
<1> SUFFICES ASSUME AssemblyInit PROVE AssemblyInv
  OBVIOUS
<1>1. /\ options \in Assemblies /\ calls = <<>> /\ phase = "feeding"
      /\ assembler = [content |-> <<>>, thinking |-> <<>>, textBytes |-> 0, failed |-> "no",
                      inside |-> options.thinkInitial, extracted |-> FALSE, pending |-> <<>>,
                      parts |-> <<>>, usage |-> Absent, reason |-> "stop", filtered |-> FALSE]
      /\ fed = [text |-> <<>>, reasoning |-> 0, parts |-> <<>>, usage |-> Absent, events |-> 0]
  BY DEF AssemblyInit
<1>2. /\ options.thinkInitial \in BOOLEAN /\ MaxAggregate \in Nat /\ options.maxToolCalls \in Nat
  BY <1>1, AssemblyAssumption
<1>3. IsText(<<>>) /\ IsThought(<<>>) /\ Len(<<>>) = 0 /\ <<>> \in Seq(Fragments)
  BY ThoughtFacts, EmptySeq DEF IsText
<1>4. /\ Whole(assembler) /\ assembler.inside = options.thinkInitial /\ assembler.extracted = FALSE
      /\ assembler.content = <<>> /\ assembler.thinking = <<>> /\ assembler.pending = <<>>
      /\ assembler.parts = <<>> /\ assembler.usage = Absent /\ assembler.textBytes = 0
      /\ assembler.failed = "no" /\ assembler.reason = "stop"
  BY <1>1 DEF Whole
<1>5. IsAssembler(assembler)
  <2>1. IsText(assembler.content) BY <1>3, <1>4
  <2>2. IsThought(assembler.thinking) BY <1>3, <1>4
  <2>3. assembler.textBytes \in Nat BY <1>4
  <2>4. assembler.inside \in BOOLEAN /\ assembler.extracted \in BOOLEAN BY <1>2, <1>4
  <2>5. assembler.failed \in {"no", "limit", "malformed", "arguments"} BY <1>4
  <2>6. QED BY <1>4, <2>1, <2>2, <2>3, <2>4, <2>5 DEF IsAssembler
<1>6. Len(CloseTag) = 3 BY DEF CloseTag
<1>7. Sound(assembler)
  <2>1. IsText(assembler.pending) BY <1>3, <1>4
  <2>2. Len(assembler.pending) < Len(CloseTag) BY <1>3, <1>4, <1>6
  <2>3. QED BY <1>4, <1>5, <2>1, <2>2 DEF Sound
<1>8. HistoryOK(fed) BY <1>1, <1>3 DEF HistoryOK
<1>9. Feeding(options, assembler, <<>>, 0, <<>>, Absent)
  <2>1. Fits(options, assembler)
    <3>1. Retained(assembler) = 0 + 0 BY <1>3, <1>4 DEF Retained
    <3>2. QED BY <1>2, <3>1 DEF Fits
  <2>2. IndexesOf(<<>>) = {} /\ Bytes(<<>>) = 0 /\ \A i : JoinedOf(i, <<>>) = NoCall BY NothingJoined
  <2>3. Gathered(assembler.parts, <<>>)
    <3>1. DOMAIN <<>> = {} OBVIOUS
    <3>2. QED BY <1>4, <2>2, <3>1 DEF Gathered
  <2>4. ~Unbounded(options, <<>>)
    <3>1. Cardinality(IndexesOf(<<>>)) = 0 BY <2>2, FS_EmptySet
    <3>2. ~(Cardinality(IndexesOf(<<>>)) > options.maxToolCalls) BY <1>2, <3>1
    <3>3. ~\E i \in IndexesOf(<<>>) : i < 0 \/ Long(JoinedOf(i, <<>>)) BY <2>2
    <3>4. QED BY <3>2, <3>3 DEF Unbounded
  <2>5. Splits(options, <<>>, assembler, <<>>, <<>>) BY <1>2, <1>4, NothingSplits
  <2>6. Told(options, <<>>, <<>>, 0)
    <3>1. LettersOf(<<>>) = <<>> BY GoneNowhere DEF LettersOf
    <3>2. 0 = 0 + 0 OBVIOUS
    <3>3. QED BY <1>3, <3>1, <3>2 DEF Told
  <2>7. 0 = (Len(<<>>) + Len(<<>>) + 0) + Bytes(<<>>) BY <1>3, <2>2
  <2>8. QED BY <1>4, <2>1, <2>3, <2>4, <2>5, <2>6, <2>7 DEF Feeding
<1>10. fed.text = <<>> /\ fed.reasoning = 0 /\ fed.parts = <<>> /\ fed.usage = Absent BY <1>1
<1>11. Stands(options, assembler, calls, phase, fed) BY <1>1, <1>9, <1>10 DEF Stands
<1>12. QED BY <1>1, <1>7, <1>8, <1>11 DEF AssemblyInv

LEMMA FeedStep ==
    ASSUME AssemblyInv, NEW e \in Events, Feed(e)
    PROVE  AssemblyInv'
<1>1. /\ options \in Assemblies /\ Sound(assembler) /\ HistoryOK(fed)
      /\ Stands(options, assembler, calls, phase, fed)
  BY DEF AssemblyInv
<1>2. /\ phase = "feeding" /\ options' = options /\ calls' = calls
      /\ assembler' = Fed(assembler, e)
      /\ phase' = (IF assembler'.failed = "no" THEN "feeding" ELSE "failed")
      /\ fed' = [text |-> fed.text \o e.content, reasoning |-> fed.reasoning + e.reasoning,
                 parts |-> fed.parts \o e.parts,
                 usage |-> IF e.usage = Absent THEN fed.usage ELSE e.usage,
                 events |-> fed.events + (IF Size(e) = 0 THEN 1 ELSE 0)]
  BY DEF Feed
<1>3. /\ Feeding(options, assembler, fed.text, fed.reasoning, fed.parts, fed.usage) /\ calls = <<>>
      /\ IsText(fed.text) /\ fed.reasoning \in Nat /\ fed.parts \in Seq(Fragments)
      /\ fed.usage \in Nat \cup {Absent}
  BY <1>1, <1>2 DEF Stands, HistoryOK
<1>4. IsEvent(e) BY EventTyped
<1>5. /\ IsText(e.content) /\ e.reasoning \in Nat /\ e.parts \in Seq(Fragments)
      /\ e.usage \in Nat \cup {Absent}
  BY <1>4 DEF IsEvent
<1>6. /\ fed'.text = Cat(fed.text, e.content) /\ fed'.reasoning = fed.reasoning + e.reasoning
      /\ fed'.parts = Cat(fed.parts, e.parts)
      /\ fed'.usage = (IF e.usage = Absent THEN fed.usage ELSE e.usage)
  BY <1>2 DEF Cat
<1>7. /\ Sound(assembler')
      /\ \/ Feeding(options, assembler', fed'.text, fed'.reasoning, fed'.parts, fed'.usage)
         \/ Failed(options, assembler', fed'.text, fed'.reasoning, fed'.parts)
  <2>1. /\ Becomes(assembler', Fed(assembler, e)) /\ Becomes(fed'.text, Cat(fed.text, e.content))
        /\ Becomes(fed'.reasoning, fed.reasoning + e.reasoning)
        /\ Becomes(fed'.parts, Cat(fed.parts, e.parts))
        /\ Becomes(fed'.usage, IF e.usage = Absent THEN fed.usage ELSE e.usage)
    BY <1>2, <1>6 DEF Becomes
  <2>2. QED BY <1>1, <1>3, <1>4, <2>1, FeedKeeps
<1>8. HistoryOK(fed')
  <2>1. IsText(Cat(fed.text, e.content)) BY <1>3, <1>5, CatFacts
  <2>2. Cat(fed.parts, e.parts) \in Seq(Fragments) BY <1>3, <1>5, ConcatProperties DEF Cat
  <2>3. fed'.reasoning \in Nat BY <1>3, <1>5, <1>6
  <2>4. fed'.usage \in Nat \cup {Absent} BY <1>3, <1>5, <1>6
  <2>5. fed' = [text |-> fed'.text, reasoning |-> fed'.reasoning, parts |-> fed'.parts,
                usage |-> fed'.usage, events |-> fed'.events]
    BY <1>2
  <2>6. QED BY <1>6, <2>1, <2>2, <2>3, <2>4, <2>5 DEF HistoryOK
<1>9. calls' = <<>> BY <1>2, <1>3
<1>10. Stands(options, assembler', calls', phase', fed')
  <2>1. CASE Feeding(options, assembler', fed'.text, fed'.reasoning, fed'.parts, fed'.usage)
    <3>1. phase' = "feeding" BY <1>2, <2>1 DEF Feeding
    <3>2. QED BY <1>9, <2>1, <3>1 DEF Stands
  <2>2. CASE Failed(options, assembler', fed'.text, fed'.reasoning, fed'.parts)
    <3>1. phase' = "failed" BY <1>2, <2>2 DEF Failed
    <3>2. QED BY <1>9, <2>2, <3>1 DEF Stands
  <2>3. QED BY <1>7, <2>1, <2>2
<1>11. phase' \in {"feeding", "finished", "failed"} BY <1>2
<1>12. QED BY <1>1, <1>2, <1>7, <1>8, <1>10, <1>11 DEF AssemblyInv

LEMMA FinishStep == AssemblyInv /\ Finish => AssemblyInv'
<1> SUFFICES ASSUME AssemblyInv, Finish PROVE AssemblyInv'
  OBVIOUS
<1> DEFINE f == IF options.thinkTags THEN SplitterFinish(assembler) ELSE assembler
           g == ToolsFinish(f)
<1>1. /\ options \in Assemblies /\ Sound(assembler) /\ HistoryOK(fed)
      /\ Stands(options, assembler, calls, phase, fed)
  BY DEF AssemblyInv
<1>2. /\ phase = "feeding" /\ options' = options /\ fed' = fed
      /\ assembler' = [Estimated(g) EXCEPT !.parts = <<>>]
      /\ phase' = (IF g.failed = "no" THEN "finished" ELSE "failed")
      /\ calls' = (IF g.failed = "no" THEN CallsInOrder(g.parts) ELSE <<>>)
  BY DEF Finish
<1>3. /\ Feeding(options, assembler, fed.text, fed.reasoning, fed.parts, fed.usage)
      /\ IsText(fed.text) /\ fed.reasoning \in Nat /\ fed.parts \in Seq(Fragments)
  BY <1>1, <1>2 DEF Stands, HistoryOK
<1>4. /\ Becomes(f, IF options.thinkTags THEN SplitterFinish(assembler) ELSE assembler)
      /\ Becomes(g, ToolsFinish(f))
      /\ Becomes(assembler', [Estimated(g) EXCEPT !.parts = <<>>])
  BY <1>2 DEF Becomes
<1> HIDE DEF f, g
<1>5. /\ Sound(assembler') /\ assembler'.failed = g.failed /\ assembler'.pending = <<>>
      /\ g.failed = "no" =>
           /\ Finished(options, assembler', fed.text, fed.reasoning, fed.parts, fed.usage)
           /\ Answered(CallsInOrder(g.parts), fed.parts)
      /\ g.failed # "no" => Failed(options, assembler', fed.text, fed.reasoning, fed.parts)
  BY <1>1, <1>3, <1>4, FinishKeeps
<1>6. Stands(options, assembler', calls', phase', fed)
  <2>1. CASE g.failed = "no"
    <3>1. phase' = "finished" /\ calls' = CallsInOrder(g.parts) BY <1>2, <2>1
    <3>2. QED BY <1>5, <2>1, <3>1 DEF Stands
  <2>2. CASE g.failed # "no"
    <3>1. phase' = "failed" /\ calls' = <<>> BY <1>2, <2>2
    <3>2. QED BY <1>5, <2>2, <3>1 DEF Stands
  <2>3. QED BY <2>1, <2>2
<1>7. phase' \in {"feeding", "finished", "failed"} BY <1>2
<1>8. QED BY <1>1, <1>2, <1>5, <1>6, <1>7 DEF AssemblyInv

\* Whatever comes, what is given out, kept and counted is what the answer at once is
\* split into, joined to and measured as.
THEOREM AssemblyInvariant == AssemblySpec => []AssemblyInv
<1>1. ASSUME AssemblyInv, [AssemblyNext]_assemblyVars PROVE AssemblyInv'
  <2>1. ASSUME NEW e \in Events, Feed(e) PROVE AssemblyInv'
    BY <1>1, <2>1, FeedStep
  <2>2. CASE Finish BY <1>1, <2>2, FinishStep
  <2>3. CASE UNCHANGED assemblyVars BY <1>1, <2>3 DEF AssemblyInv, assemblyVars
  <2>4. QED BY <1>1, <2>1, <2>2, <2>3 DEF AssemblyNext
<1>2. QED BY <1>1, AssemblyStart, PTL DEF AssemblySpec

----------------------------------------------------------------------------
(* What the invariant says of the properties.                               *)

\* The reference is read from the history.
LEMMA HistoryRead ==
    /\ \A i : Joined(i) = JoinedOf(i, fed.parts)
    /\ Indexes = IndexesOf(fed.parts)
    /\ Split = LettersOf(assembler.thinking)
    /\ WholeContent = ContentOf(options, fed.text) /\ WholeThinking = ThinkingOf(options, fed.text)
    /\ TextSize = (Len(WholeContent) + Len(WholeThinking) + fed.reasoning) + Bytes(fed.parts)
    /\ Held(FALSE) = HeldText(assembler) /\ Held(TRUE) = HeldThought(assembler)
<1>1. \A i : Joined(i) = JoinedOf(i, fed.parts) BY Uses DEF JoinedOf
<1>2. Indexes = IndexesOf(fed.parts) BY DEF Indexes, IndexesOf
<1>3. Split = LettersOf(assembler.thinking) BY Uses DEF LettersOf
<1>4. TextSize = (Len(WholeContent) + Len(WholeThinking) + fed.reasoning) + Bytes(fed.parts)
  BY Uses DEF Bytes
<1>5. Held(FALSE) = HeldText(assembler) BY DEF Held, HeldText
<1>6. Held(TRUE) = HeldThought(assembler) BY DEF Held, HeldThought
<1>7. QED BY <1>1, <1>2, <1>3, <1>4, <1>5, <1>6, WholesOf

LEMMA AssemblyTyped == AssemblyInv => AssemblyTypeOK
<1> SUFFICES ASSUME AssemblyInv PROVE AssemblyTypeOK
  OBVIOUS
<1>1. /\ options \in Assemblies /\ phase \in {"feeding", "finished", "failed"}
      /\ Sound(assembler) /\ Stands(options, assembler, calls, phase, fed)
  BY DEF AssemblyInv
<1>2. /\ IsAssembler(assembler) /\ assembler.reason \in {"stop", "length"}
      /\ assembler.usage \in Nat \cup {Absent}
      /\ IsText(assembler.pending) /\ Len(assembler.pending) < Len(CloseTag)
  BY <1>1 DEF Sound
<1>3. /\ IsText(assembler.content) /\ IsThought(assembler.thinking) /\ assembler.textBytes \in Nat
      /\ assembler.failed \in {"no", "limit", "malformed", "arguments"}
  BY <1>2 DEF IsAssembler
<1>4. (assembler.failed # "no") <=> (phase = "failed")
  <2>1. CASE phase = "feeding" BY <1>1, <2>1 DEF Stands, Feeding
  <2>2. CASE phase = "finished" BY <1>1, <2>2 DEF Stands, Finished
  <2>3. CASE phase = "failed" BY <1>1, <2>3 DEF Stands, Failed
  <2>4. QED BY <1>1, <2>1, <2>2, <2>3
<1>5. /\ assembler.content \in Seq(Letters) /\ assembler.thinking \in Seq(Letters \cup {"r"})
      /\ assembler.pending \in Seq(Letters)
  BY <1>2, <1>3 DEF IsText, IsThought, Chars
<1>6. QED BY <1>1, <1>2, <1>3, <1>4, <1>5 DEF AssemblyTypeOK

\* The parts of SplitAsWhole that hold until an answer fails.
SplitSoFar ==
    /\ assembler.content \o Held(FALSE) = WholeContent
    /\ options.visible => /\ Split \o Held(TRUE) = WholeThinking
                          /\ Len(assembler.thinking) = Len(Split) + fed.reasoning
    /\ IsStrictPrefix(assembler.pending, IF assembler.inside THEN CloseTag ELSE OpenTag)
    /\ assembler.textBytes + Len(assembler.pending) = TextSize

LEMMA SplitWhileFeeding ==
    ASSUME AssemblyInv, phase = "feeding"
    PROVE  SplitSoFar /\ IsPrefix(assembler.content, WholeContent)
<1> DEFINE c == assembler.content
           d == HeldText(assembler)
           t == HeldThought(assembler)
           n == fed.reasoning
<1>1. /\ Sound(assembler) /\ HistoryOK(fed)
      /\ Feeding(options, assembler, fed.text, n, fed.parts, fed.usage)
  BY DEF AssemblyInv, Stands
<1>2. /\ IsText(c) /\ assembler.inside \in BOOLEAN /\ assembler.extracted \in BOOLEAN
      /\ IsText(assembler.pending) /\ IsThought(assembler.thinking)
  BY <1>1 DEF Sound, IsAssembler
<1>3. IsText(fed.text) /\ n \in Nat /\ fed.parts \in Seq(Fragments) BY <1>1 DEF HistoryOK
<1>4. PICK H : /\ Splits(options, fed.text, assembler, c, H) /\ Told(options, assembler.thinking, H, n)
               /\ assembler.textBytes = (Len(c) + Len(H) + n) + Bytes(fed.parts)
  BY <1>1 DEF Feeding
<1>5. IsText(H) BY <1>4 DEF Splits
<1>6. ContentOf(options, fed.text) = Cat(c, d) /\ ThinkingOf(options, fed.text) = Cat(H, t)
  BY <1>2, <1>3, <1>4, SplitWhole
<1>7. IsStrictPrefix(assembler.pending, IF assembler.inside THEN CloseTag ELSE OpenTag)
  BY <1>2, <1>4, PendingFacts
<1>8. /\ IsText(d) /\ IsText(t)
      /\ (d = assembler.pending /\ t = <<>>) \/ (d = <<>> /\ t = assembler.pending)
  BY <1>2, CatNothing DEF HeldText, HeldThought
<1>9. Len(d) + Len(t) = Len(assembler.pending)
  <2>1. Len(assembler.pending) \in Nat /\ Len(<<>>) = 0 BY <1>2, CatFacts, CatNothing
  <2>2. CASE d = assembler.pending /\ t = <<>> BY <2>1, <2>2
  <2>3. CASE d = <<>> /\ t = assembler.pending BY <2>1, <2>3
  <2>4. QED BY <1>8, <2>2, <2>3
<1> HIDE DEF d, t
<1>10. /\ Len(Cat(c, d)) = Len(c) + Len(d) /\ Len(Cat(H, t)) = Len(H) + Len(t)
       /\ Len(c) \in Nat /\ Len(d) \in Nat /\ Len(H) \in Nat /\ Len(t) \in Nat
  BY <1>2, <1>5, <1>8, CatFacts
<1>11. WholeContent = Cat(c, d) /\ WholeThinking = Cat(H, t) /\ Held(FALSE) = d /\ Held(TRUE) = t
  BY <1>6, HistoryRead DEF d, t
<1>12. assembler.textBytes + Len(assembler.pending) = TextSize
  <2>1. Bytes(fed.parts) \in Nat BY <1>3, CallsOfList
  <2>2. PICK p \in Nat, q \in Nat, x \in Nat, y \in Nat, l \in Nat :
          p = Len(c) /\ q = Len(H) /\ x = Bytes(fed.parts) /\ y = Len(d) /\ l = Len(t)
    BY <1>10, <2>1
  <2>3. TextSize = ((p + y) + (q + l) + n) + x BY <1>10, <1>11, <2>2, HistoryRead
  <2>4. assembler.textBytes + Len(assembler.pending) = ((p + q + n) + x) + (y + l)
    BY <1>4, <1>9, <2>2
  <2>5. ((p + q + n) + x) + (y + l) = ((p + y) + (q + l) + n) + x BY <1>3
  <2>6. QED BY <2>3, <2>4, <2>5
<1>13. c \o Held(FALSE) = WholeContent BY <1>11 DEF Cat
<1>14. IsPrefix(c, WholeContent)
  <2>1. IsPrefix(c, c \o d) BY <1>2, <1>8, CutBack DEF IsText
  <2>2. QED BY <1>11, <2>1 DEF Cat
<1>15. ASSUME options.visible
       PROVE  /\ Split \o Held(TRUE) = WholeThinking
              /\ Len(assembler.thinking) = Len(Split) + n
  <2>1. LettersOf(assembler.thinking) = H /\ Len(assembler.thinking) = Len(H) + n
    BY <1>4, <1>15 DEF Told
  <2>2. Split = H BY <2>1, HistoryRead
  <2>3. QED BY <1>11, <2>1, <2>2 DEF Cat
<1>16. QED BY <1>7, <1>12, <1>13, <1>14, <1>15 DEF SplitSoFar

LEMMA SplitWhenFinished ==
    ASSUME AssemblyInv, phase = "finished"
    PROVE  /\ SplitSoFar /\ IsPrefix(assembler.content, WholeContent)
           /\ assembler.usage = IF fed.usage = Absent THEN (TextSize + 3) \div 4 ELSE fed.usage
<1>1. /\ Sound(assembler) /\ assembler.pending = <<>>
      /\ Finished(options, assembler, fed.text, fed.reasoning, fed.parts, fed.usage)
  BY DEF AssemblyInv, Stands
<1>2. /\ IsText(assembler.content) /\ assembler.inside \in BOOLEAN /\ assembler.textBytes \in Nat
      /\ IsThought(assembler.thinking)
  BY <1>1 DEF Sound, IsAssembler
<1>3. /\ assembler.content = WholeContent
      /\ Told(options, assembler.thinking, WholeThinking, fed.reasoning)
      /\ assembler.textBytes = TextSize
      /\ assembler.usage = IF fed.usage = Absent THEN (assembler.textBytes + 3) \div 4 ELSE fed.usage
  BY <1>1, HistoryRead DEF Finished
<1>4. Held(FALSE) = <<>> /\ Held(TRUE) = <<>> BY <1>1 DEF Held
<1>5. IsText(<<>>) /\ Len(<<>>) = 0 /\ Cat(assembler.content, <<>>) = assembler.content
  BY <1>2, CatNothing
<1>6. assembler.content \o Held(FALSE) = WholeContent BY <1>3, <1>4, <1>5 DEF Cat
<1>7. IsPrefix(assembler.content, WholeContent)
  <2>1. Len(assembler.content) <= Len(assembler.content) BY <1>2, CatFacts
  <2>2. QED BY <1>3, <2>1 DEF IsPrefix
<1>8. ASSUME options.visible
      PROVE  /\ Split \o Held(TRUE) = WholeThinking
             /\ Len(assembler.thinking) = Len(Split) + fed.reasoning
  <2>1. /\ LettersOf(assembler.thinking) = WholeThinking
        /\ Len(assembler.thinking) = Len(WholeThinking) + fed.reasoning
    BY <1>3, <1>8 DEF Told
  <2>2. Split = WholeThinking BY <2>1, HistoryRead
  <2>3. IsText(Split) BY <1>2, LettersOn, HistoryRead DEF IsText
  <2>4. Cat(Split, <<>>) = Split BY <2>3, CatNothing
  <2>5. QED BY <1>4, <2>1, <2>2, <2>4 DEF Cat
<1>9. IsStrictPrefix(assembler.pending, IF assembler.inside THEN CloseTag ELSE OpenTag)
  <2>1. ASSUME NEW tag \in Tags PROVE IsStrictPrefix(<<>>, tag)
    <3>1. 0 < Len(tag) BY TagTyped
    <3>2. SubSeq(tag, 1, 0) = <<>> OBVIOUS
    <3>3. <<>> = SubSeq(tag, 1, Len(<<>>)) /\ Len(<<>>) < Len(tag) BY <1>5, <3>1, <3>2
    <3>4. QED BY <1>5, <3>3, BeginsTag
  <2>2. IsStrictPrefix(<<>>, CloseTag) /\ IsStrictPrefix(<<>>, OpenTag) BY <2>1 DEF Tags
  <2>3. QED BY <1>1, <2>2
<1>10. assembler.textBytes + Len(assembler.pending) = TextSize
  <2>1. assembler.textBytes + 0 = assembler.textBytes BY <1>2
  <2>2. Len(assembler.pending) = 0 BY <1>1, <1>5
  <2>3. QED BY <1>3, <2>1, <2>2
<1>11. SplitSoFar BY <1>6, <1>8, <1>9, <1>10 DEF SplitSoFar
<1>12. QED BY <1>3, <1>7, <1>11

LEMMA SplitShows == AssemblyInv => SplitAsWhole
<1> SUFFICES ASSUME AssemblyInv PROVE SplitAsWhole
  OBVIOUS
<1>1. phase \in {"feeding", "finished", "failed"} BY DEF AssemblyInv
<1>2. CASE phase = "feeding"
  BY <1>2, SplitWhileFeeding DEF SplitAsWhole, SplitSoFar
<1>3. CASE phase = "finished"
  BY <1>3, SplitWhenFinished DEF SplitAsWhole, SplitSoFar
<1>4. CASE phase = "failed"
  <2>1. IsPrefix(assembler.content, WholeContent)
    BY <1>4, HistoryRead DEF AssemblyInv, Stands, Failed
  <2>2. QED BY <1>4, <2>1 DEF SplitAsWhole
<1>5. QED BY <1>1, <1>2, <1>3, <1>4

LEMMA CallsShow == AssemblyInv => CallsWhole
<1> SUFFICES ASSUME AssemblyInv PROVE CallsWhole
  OBVIOUS
<1>1. phase \in {"feeding", "finished", "failed"} /\ Stands(options, assembler, calls, phase, fed)
  BY DEF AssemblyInv
<1>2. CASE phase = "finished"
  <2>1. Answered(calls, fed.parts) BY <1>1, <1>2 DEF Stands
  <2>2. QED BY <1>2, <2>1, HistoryRead DEF Answered, CallsWhole
<1>3. CASE phase # "finished"
  <2>1. calls = <<>> BY <1>1, <1>3 DEF Stands
  <2>2. QED BY <1>3, <2>1 DEF CallsWhole
<1>4. QED BY <1>2, <1>3

\* What an answer is refused for.
LEMMA MeritOf ==
    /\ TooLarge <=> Over(options, fed.text, fed.reasoning, fed.parts)
    /\ Unusable <=> Useless(options, fed.parts)
<1>1. TooLarge <=> Over(options, fed.text, fed.reasoning, fed.parts)
  BY HistoryRead DEF TooLarge, Over, Unbounded, Long
<1>2. \A text : Problem(text) = ProblemOf(options, text) BY DEF Problem, ProblemOf
<1>3. Unusable <=> Useless(options, fed.parts) BY <1>2, HistoryRead DEF Unusable, Useless
<1>4. QED BY <1>1, <1>3

LEMMA MeritShows == AssemblyInv => RefusedOnMerit
<1> SUFFICES ASSUME AssemblyInv PROVE RefusedOnMerit
  OBVIOUS
<1>1. Stands(options, assembler, calls, phase, fed) BY DEF AssemblyInv
<1>2. phase = "failed" => TooLarge \/ Unusable BY <1>1, MeritOf DEF Stands, Failed
<1>3. phase = "finished" => ~TooLarge /\ ~Unusable BY <1>1, MeritOf DEF Stands, Finished
<1>4. QED BY <1>2, <1>3 DEF RefusedOnMerit

\* The assembler keeps text and counts, holds back less than a tag, and has failed
\* exactly when the answer has (assemble.go, think.go).
THEOREM AssemblyTypeCorrect == AssemblySpec => []AssemblyTypeOK
BY AssemblyInvariant, AssemblyTyped, PTL

\* However the upstream cuts an answer into chunks, and whatever the limits, the text
\* given out with the part held back is the whole text split at its one thinking
\* block, and the usage estimated of it depends on the text alone (Splitter, EstimateUsage).
THEOREM SplitsAsWhole == AssemblySpec => []SplitAsWhole
BY AssemblyInvariant, SplitShows, PTL

\* A finished answer's calls are those of all its fragments, each joined in the order
\* its fragments came and all in the order of the upstream's indexes; an unfinished
\* or failed one's are none (ToolAccumulator).
THEOREM CallsAreWhole == AssemblySpec => []CallsWhole
BY AssemblyInvariant, CallsShow, PTL

\* An answer fails only if as a whole it is too large or its calls are unusable, and
\* one that is does not finish (Assembler.output, ToolAccumulator.Add and Finish).
THEOREM RefusedOnlyOnMerit == AssemblySpec => []RefusedOnMerit
BY AssemblyInvariant, MeritShows, PTL
=============================================================================
