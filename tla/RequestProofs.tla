---------------------------- MODULE RequestProofs ----------------------------
(***************************************************************************)
(* Proofs about what goes upstream: the messages of a chat with their tool *)
(* calls and results (module ToolPairing), for chats of any length, any    *)
(* calls and any results, in any order; and the fields of a body (module   *)
(* RequestBody), for any request and any settings.                         *)
(***************************************************************************)
EXTENDS ToolPairing, RequestBody, FiniteSetTheorems, NaturalsInduction, SequenceTheorems,
        WellFoundedInduction, TLAPS

(* Induction, and sequences                                                 *)

LEMMA Least ==
    ASSUME NEW S \in SUBSET Nat, S # {}
    PROVE  \E n \in S : \A m \in S : n <= m
<1> DEFINE R == OpToRel(<, Nat)
<1>1. IsWellFoundedOn(R, Nat)
  BY NatLessThanWellFounded
<1>2. \A x, y \in Nat : <<x, y>> \in R <=> x < y
  BY DEF OpToRel
<1> HIDE DEF R
<1>3. PICK n \in S : \A m \in S : ~(<<m, n>> \in R)
  BY <1>1, WFMin
<1>4. \A m \in S : n <= m
  <2> TAKE m \in S
  <2>1. m \in Nat /\ n \in Nat /\ ~(m < n) BY <1>2, <1>3
  <2>2. QED BY <2>1
<1>5. QED BY <1>4

\* A set of numbers with 0 and with every successor has them all.
LEMMA NatInclusion ==
    ASSUME NEW S, 0 \in S, \A n \in Nat : n \in S => n + 1 \in S
    PROVE  Nat \subseteq S
<1> SUFFICES ASSUME Nat \ S # {} PROVE FALSE
  OBVIOUS
<1>1. PICK n \in Nat \ S : \A m \in Nat \ S : n <= m
  <2>1. Nat \ S \in SUBSET Nat OBVIOUS
  <2>2. QED BY <2>1, Least
<1>2. n - 1 \in Nat /\ n - 1 + 1 = n /\ ~(n <= n - 1)
  OBVIOUS
<1>3. n - 1 \in S
  BY <1>1, <1>2
<1>4. QED BY <1>2, <1>3

IsSeq(s) == s \in Seq(ToSet(s))

LEMMA SeqFacts ==
    ASSUME NEW s, IsSeq(s)
    PROVE  Len(s) \in Nat /\ DOMAIN s = 1 .. Len(s)
BY DEF IsSeq

LEMMA AppendFacts ==
    ASSUME NEW s, IsSeq(s), NEW x
    PROVE  /\ IsSeq(Append(s, x)) /\ Len(Append(s, x)) = Len(s) + 1
           /\ DOMAIN Append(s, x) = 1 .. Len(s) + 1
           /\ Append(s, x)[Len(s) + 1] = x
           /\ \A k \in 1 .. Len(s) : Append(s, x)[k] = s[k]
<1> DEFINE S == ToSet(s) \cup {x}
<1>1. s \in Seq(S)
  <2>1. Len(s) \in Nat /\ s \in [1 .. Len(s) -> ToSet(s)] BY DEF IsSeq
  <2>2. s \in [1 .. Len(s) -> S] BY <2>1
  <2>3. QED BY <2>1, <2>2
<1>2. x \in S OBVIOUS
<1> HIDE DEF S
<1>3. /\ Append(s, x) \in Seq(S) /\ Len(Append(s, x)) = Len(s) + 1
      /\ Append(s, x)[Len(s) + 1] = x
      /\ \A k \in 1 .. Len(s) : Append(s, x)[k] = s[k]
  BY <1>1, <1>2
<1>4. Len(s) \in Nat BY <1>1
<1> DEFINE t == Append(s, x)
<1>5. DOMAIN t = 1 .. Len(s) + 1 BY <1>3, <1>4
<1>6. t \in [1 .. Len(t) -> ToSet(t)] /\ Len(t) \in Nat
  <2> HIDE DEF t
  <2>1. t \in Seq(S) BY <1>3 DEF t
  <2>2. Len(t) \in Nat /\ t = [k \in 1 .. Len(t) |-> t[k]] /\ DOMAIN t = 1 .. Len(t) BY <2>1
  <2>3. \A k \in 1 .. Len(t) : t[k] \in ToSet(t) BY <2>2 DEF ToSet
  <2>4. QED BY <2>2, <2>3
<1> HIDE DEF t
<1>7. IsSeq(t) BY <1>6 DEF IsSeq
<1>8. QED BY <1>3, <1>5, <1>7 DEF t

LEMMA EmptyFacts == IsSeq(<<>>) /\ Len(<<>>) = 0 /\ DOMAIN <<>> = {}
BY DEF IsSeq, ToSet

\* Appending to the second of two joined sequences is appending to both.
LEMMA JoinAppend ==
    ASSUME NEW s, NEW t, NEW x, IsSeq(s), IsSeq(t)
    PROVE  s \o Append(t, x) = Append(s \o t, x) /\ s \o <<>> = s
<1> DEFINE S == ToSet(s) \cup ToSet(t) \cup {x}
<1>1. s \in Seq(S) /\ t \in Seq(S) /\ x \in S
  <2>1. /\ Len(s) \in Nat /\ s \in [1 .. Len(s) -> ToSet(s)]
        /\ Len(t) \in Nat /\ t \in [1 .. Len(t) -> ToSet(t)] BY DEF IsSeq
  <2>2. s \in [1 .. Len(s) -> S] /\ t \in [1 .. Len(t) -> S] BY <2>1
  <2>3. QED BY <2>1, <2>2
<1> HIDE DEF S
<1>2. QED BY <1>1, AppendIsConcat, ConcatAssociative, ConcatEmptySeq
----------------------------------------------------------------------------
(* Which call a result answers                                              *)

Distinct(list) == \A j, k \in DOMAIN list : list[j].id = list[k].id => j = k
Open == {k \in 1 .. Len(pending) : Free(pending[k])}

LEMMA Choice ==
    ASSUME IsSeq(pending), Distinct(pending), NEW result
    PROVE  /\ Chosen(result) # 0 =>
                /\ Chosen(result) \in Open
                /\ \A h \in Open : ~Rather(result, pending, h, Chosen(result))
           /\ Chosen(result) = 0 => Open = {}
<1> DEFINE First(S) == IF S # {} THEN Min(S) ELSE 0
           byId(k) == result.id # NoId /\ pending[k].id = result.id
           byName(k) == result.name # NoName /\ pending[k].name = result.name
           I == {k \in 1 .. Len(pending) : Free(pending[k]) /\ byId(k)}
           N == {k \in 1 .. Len(pending) : Free(pending[k]) /\ byName(k)}
<1>1. Chosen(result) = IF First(I) # 0 THEN First(I)
                       ELSE IF First(N) # 0 THEN First(N) ELSE First(Open)
  BY DEF Chosen, SelectInSeq, Open
<1>2. ASSUME NEW S \in SUBSET (1 .. Len(pending))
      PROVE  IF S # {} THEN First(S) \in S /\ First(S) # 0 /\ \A k \in S : ~(k < First(S))
             ELSE First(S) = 0
  <2>1. CASE S # {}
    <3>1. S \in SUBSET Nat OBVIOUS
    <3>2. \E n \in S : \A m \in S : n <= m BY <2>1, <3>1, Least
    <3>3. Min(S) \in S /\ \A m \in S : Min(S) <= m BY <3>2 DEF Min
    <3>4. \A k \in S : ~(k < Min(S))
      <4> DEFINE least == Min(S)
      <4> HIDE DEF least
      <4>1. least \in Nat /\ \A k \in S : k \in Nat /\ least <= k BY <3>1, <3>3 DEF least
      <4>2. \A k \in S : ~(k < least) BY <4>1
      <4>3. QED BY <4>2 DEF least
    <3>5. Min(S) # 0
      <4>1. 0 \notin S OBVIOUS
      <4>2. QED BY <3>3, <4>1
    <3>6. QED BY <2>1, <3>3, <3>4, <3>5
  <2>2. QED BY <2>1
<1>3. I \in SUBSET (1 .. Len(pending)) /\ N \in SUBSET (1 .. Len(pending))
      /\ Open \in SUBSET (1 .. Len(pending)) /\ I \subseteq Open /\ N \subseteq Open
  BY DEF Open
<1>4. /\ \A k \in Open : k \in I <=> byId(k)
      /\ \A k \in Open : k \in N <=> byName(k)
  BY DEF Open
<1>5. \A h, i \in Open : Rather(result, pending, h, i) <=>
        \/ byId(h) /\ ~byId(i)
        \/ (byId(h) <=> byId(i)) /\ byName(h) /\ ~byName(i)
        \/ (byId(h) <=> byId(i)) /\ (byName(h) <=> byName(i)) /\ h < i
  BY DEF Rather
<1>6. \A h, i \in Open : byId(h) /\ byId(i) => h = i
  <2>1. Open \subseteq DOMAIN pending BY <1>3, SeqFacts
  <2>2. QED BY <2>1 DEF Distinct
<1> HIDE DEF First, I, N, byId, byName
<1>7. /\ IF I # {} THEN First(I) \in I /\ First(I) # 0 ELSE First(I) = 0
      /\ IF N # {} THEN First(N) \in N /\ First(N) # 0 /\ \A k \in N : ~(k < First(N))
         ELSE First(N) = 0
      /\ IF Open # {} THEN First(Open) \in Open /\ First(Open) # 0 /\ \A k \in Open : ~(k < First(Open))
         ELSE First(Open) = 0
  BY <1>2, <1>3
<1>8. CASE I # {}
  <2>1. Chosen(result) \in I BY <1>1, <1>7, <1>8
  <2>2. Chosen(result) \in Open /\ byId(Chosen(result)) BY <1>3, <1>4, <2>1
  <2>3. ASSUME NEW h \in Open PROVE ~Rather(result, pending, h, Chosen(result))
    <3>1. CASE h = Chosen(result)
      <4>1. h \in Nat BY <1>3
      <4>2. ~(h < h) BY <4>1
      <4>3. QED BY <1>5, <2>2, <3>1, <4>2
    <3>2. CASE h # Chosen(result)
      <4>1. ~byId(h) BY <1>6, <2>2, <3>2
      <4>2. QED BY <1>5, <2>2, <4>1
    <3>3. QED BY <3>1, <3>2
  <2>4. Chosen(result) # 0 BY <1>1, <1>7, <1>8
  <2>5. QED BY <2>2, <2>3, <2>4
<1>9. CASE I = {} /\ N # {}
  <2>1. Chosen(result) = First(N) /\ Chosen(result) \in N /\ Chosen(result) # 0
    BY <1>1, <1>7, <1>9
  <2>2. Chosen(result) \in Open /\ byName(Chosen(result)) BY <1>3, <1>4, <2>1
  <2>3. \A h \in Open : ~byId(h) BY <1>4, <1>9
  <2>4. ASSUME NEW h \in Open PROVE ~Rather(result, pending, h, Chosen(result))
    <3>1. byName(h) => ~(h < Chosen(result)) BY <1>4, <1>7, <1>9, <2>1
    <3>2. QED BY <1>5, <2>2, <2>3, <3>1
  <2>5. QED BY <2>1, <2>2, <2>4
<1>10. CASE I = {} /\ N = {}
  <2>1. Chosen(result) = First(Open) BY <1>1, <1>7, <1>10
  <2>2. \A h \in Open : ~byId(h) /\ ~byName(h) BY <1>4, <1>10
  <2>3. CASE Open # {}
    <3>1. Chosen(result) \in Open /\ \A h \in Open : ~(h < Chosen(result)) BY <1>7, <2>1, <2>3
    <3>2. \A h \in Open : ~Rather(result, pending, h, Chosen(result)) BY <1>5, <2>2, <3>1
    <3>3. QED BY <1>7, <2>1, <2>3, <3>1, <3>2
  <2>4. CASE Open = {} BY <1>7, <2>1, <2>4
  <2>5. QED BY <2>3, <2>4
<1>11. QED BY <1>8, <1>9, <1>10
----------------------------------------------------------------------------
(* Turns and their answers                                                  *)

AnswersIn(out, p) == {q \in p + 1 .. Len(out) : \A r \in p + 1 .. q : out[r].role = "tool"}

\* The turn at position p has one answer at most for each of its calls and, if missing
\* results are made up, one for each that is not open any more.
TurnFits(pol, out, p, open) ==
    /\ IsSeq(out[p].calls) /\ Distinct(out[p].calls)
    /\ \A q \in AnswersIn(out, p) : out[q].id \in IdsOf(out[p].calls)
    /\ \A q, r \in AnswersIn(out, p) : out[q].id = out[r].id => q = r
    /\ pol.synthesize =>
         \A id \in IdsOf(out[p].calls) \ open : \E q \in AnswersIn(out, p) : out[q].id = id

\* The calls that are open are those of one turn, which nothing but answers follow.
OpenAtEnd(out, open) ==
    open # {} =>
        \E p \in DOMAIN out :
            /\ out[p].role = "assistant" /\ open \subseteq IdsOf(out[p].calls)
            /\ \A r \in p + 1 .. Len(out) : out[r].role = "tool" /\ out[r].id \notin open

Turns(pol, out, open) ==
    /\ IsSeq(out)
    /\ \A p \in DOMAIN out : out[p].role = "assistant" => TurnFits(pol, out, p, open)
    /\ \A p, q \in DOMAIN out :
         out[p].role = "assistant" /\ out[q].role = "assistant" /\ p # q =>
            IdsOf(out[p].calls) \cap IdsOf(out[q].calls) = {}
    /\ \A q \in DOMAIN out : out[q].role = "tool" =>
         q > 1 /\ out[q - 1].role \in {"assistant", "tool"}
    /\ OpenAtEnd(out, open)

\* What follows a turn changes only by an answer right behind its answers.
LEMMA AnswersAppended ==
    ASSUME NEW out, IsSeq(out), NEW m, NEW p \in 1 .. Len(out)
    PROVE  LET n == Len(out) + 1
           IN  /\ AnswersIn(Append(out, m), p) =
                    IF m.role = "tool" /\ \A r \in p + 1 .. Len(out) : out[r].role = "tool"
                    THEN AnswersIn(out, p) \cup {n} ELSE AnswersIn(out, p)
               /\ AnswersIn(out, p) \subseteq p + 1 .. Len(out)
<1> DEFINE n == Len(out) + 1
           new == Append(out, m)
<1>1. Len(out) \in Nat BY SeqFacts
<1>2. Len(new) = n /\ new[n] = m /\ \A k \in 1 .. Len(out) : new[k] = out[k]
  BY AppendFacts
<1> HIDE DEF new
<1>3. AnswersIn(out, p) \subseteq p + 1 .. Len(out) BY DEF AnswersIn
<1>4. ASSUME NEW q \in p + 1 .. Len(out)
      PROVE  q \in AnswersIn(new, p) <=> q \in AnswersIn(out, p)
  <2>1. \A r \in p + 1 .. q : r \in 1 .. Len(out) /\ new[r] = out[r] BY <1>1, <1>2
  <2>2. q \in p + 1 .. Len(new) BY <1>1, <1>2
  <2>3. QED BY <2>1, <2>2 DEF AnswersIn
<1>5. n \in AnswersIn(new, p) <=>
        m.role = "tool" /\ \A r \in p + 1 .. Len(out) : out[r].role = "tool"
  <2>1. n \in p + 1 .. Len(new) BY <1>1, <1>2
  <2>2. n \in AnswersIn(new, p) <=> \A r \in p + 1 .. n : new[r].role = "tool"
    BY <2>1 DEF AnswersIn
  <2>3. \A r \in p + 1 .. n : r = n \/ (r \in p + 1 .. Len(out) /\ new[r] = out[r])
    BY <1>1, <1>2
  <2>4. n \in p + 1 .. n /\ \A r \in p + 1 .. Len(out) : r \in p + 1 .. n /\ new[r] = out[r]
    BY <1>1, <1>2
  <2>5. QED BY <1>2, <2>2, <2>3, <2>4
<1>6. AnswersIn(new, p) \subseteq (p + 1 .. Len(out)) \cup {n}
  <2>1. AnswersIn(new, p) \subseteq p + 1 .. n BY <1>2 DEF AnswersIn
  <2>2. \A q \in p + 1 .. n : q \in p + 1 .. Len(out) \/ q = n BY <1>1
  <2>3. QED BY <2>1, <2>2
<1>7. n \notin p + 1 .. Len(out) BY <1>1
<1>8. CASE m.role = "tool" /\ \A r \in p + 1 .. Len(out) : out[r].role = "tool"
  <2>1. AnswersIn(new, p) = AnswersIn(out, p) \cup {n} BY <1>3, <1>4, <1>5, <1>6, <1>8
  <2>2. QED BY <1>3, <1>8, <2>1 DEF new
<1>9. CASE ~(m.role = "tool" /\ \A r \in p + 1 .. Len(out) : out[r].role = "tool")
  <2>1. AnswersIn(new, p) = AnswersIn(out, p) BY <1>3, <1>4, <1>5, <1>6, <1>9
  <2>2. QED BY <1>3, <1>9, <2>1 DEF new
<1>10. QED BY <1>8, <1>9

\* A message that is no answer ends the turn, whose calls all have theirs, and may
\* begin one of its own.
LEMMA TurnsClosed ==
    ASSUME NEW pol, NEW out, Turns(pol, out, {}), NEW m, m.role # "tool", NEW open,
           IF m.role = "assistant"
           THEN /\ IsSeq(m.calls) /\ Distinct(m.calls) /\ open = IdsOf(m.calls)
                /\ \A p \in DOMAIN out : out[p].role = "assistant" =>
                     IdsOf(out[p].calls) \cap IdsOf(m.calls) = {}
           ELSE open = {}
    PROVE  Turns(pol, Append(out, m), open)
<1> DEFINE n == Len(out) + 1
           new == Append(out, m)
<1>1. IsSeq(out) /\ Len(out) \in Nat /\ DOMAIN out = 1 .. Len(out)
  BY SeqFacts DEF Turns
<1>2. /\ IsSeq(new) /\ Len(new) = n /\ DOMAIN new = 1 .. n /\ new[n] = m
      /\ \A k \in 1 .. Len(out) : new[k] = out[k]
  BY <1>1, AppendFacts
<1>3. \A p \in 1 .. Len(out) : AnswersIn(new, p) = AnswersIn(out, p)
                               /\ AnswersIn(out, p) \subseteq p + 1 .. Len(out)
  BY <1>1, AnswersAppended
<1> HIDE DEF new
<1>4. ASSUME NEW p \in 1 .. Len(out), out[p].role = "assistant" PROVE TurnFits(pol, new, p, open)
  <2>1. TurnFits(pol, out, p, {}) BY <1>1, <1>4 DEF Turns
  <2>2. \A q \in AnswersIn(out, p) : new[q] = out[q]
    <3>1. AnswersIn(out, p) \subseteq 1 .. Len(out) BY <1>1, <1>3
    <3>2. QED BY <1>2, <3>1
  <2>3. new[p] = out[p] BY <1>2
  <2>4. QED BY <1>3, <2>1, <2>2, <2>3 DEF TurnFits
<1>5. AnswersIn(new, n) = {} BY <1>1, <1>2 DEF AnswersIn
<1>6. ASSUME m.role = "assistant" PROVE TurnFits(pol, new, n, open)
  BY <1>2, <1>5, <1>6 DEF TurnFits
<1>7. \A p \in DOMAIN new : p = n \/ p \in 1 .. Len(out) BY <1>1, <1>2
<1>8. \A p \in DOMAIN new : new[p].role = "assistant" => TurnFits(pol, new, p, open)
  BY <1>2, <1>4, <1>6, <1>7
<1>9. ASSUME NEW q \in DOMAIN new, new[q].role = "tool"
      PROVE  q > 1 /\ new[q - 1].role \in {"assistant", "tool"}
  <2>1. q \in 1 .. Len(out) /\ out[q].role = "tool" BY <1>2, <1>7, <1>9
  <2>2. q > 1 /\ out[q - 1].role \in {"assistant", "tool"} BY <1>1, <2>1 DEF Turns
  <2>3. q - 1 \in 1 .. Len(out) BY <1>1, <2>1, <2>2
  <2>4. QED BY <1>2, <2>2, <2>3
<1>10. OpenAtEnd(new, open)
  <2>1. CASE m.role = "assistant"
    <3>1. n \in DOMAIN new /\ new[n].role = "assistant" /\ open \subseteq IdsOf(new[n].calls)
      BY <1>1, <1>2, <2>1
    <3>2. n + 1 .. Len(new) = {} BY <1>1, <1>2
    <3>3. QED BY <3>1, <3>2 DEF OpenAtEnd
  <2>2. CASE m.role # "assistant" BY <2>2 DEF OpenAtEnd
  <2>3. QED BY <2>1, <2>2
<1>11. \A p, q \in DOMAIN new :
         new[p].role = "assistant" /\ new[q].role = "assistant" /\ p # q =>
            IdsOf(new[p].calls) \cap IdsOf(new[q].calls) = {}
  BY <1>1, <1>2, <1>7 DEF Turns
<1>12. QED BY <1>2, <1>8, <1>9, <1>10, <1>11 DEF Turns, new

\* An answer to an open call stands right behind the turn and closes the call.
LEMMA TurnsContinued ==
    ASSUME NEW pol, NEW out, NEW open, Turns(pol, out, open), NEW m, m.role = "tool", m.id \in open
    PROVE  Turns(pol, Append(out, m), open \ {m.id})
<1> DEFINE n == Len(out) + 1
           new == Append(out, m)
           rest == open \ {m.id}
<1>1. IsSeq(out) /\ Len(out) \in Nat /\ DOMAIN out = 1 .. Len(out)
  BY SeqFacts DEF Turns
<1>2. /\ IsSeq(new) /\ Len(new) = n /\ DOMAIN new = 1 .. n /\ new[n] = m
      /\ \A k \in 1 .. Len(out) : new[k] = out[k]
  BY <1>1, AppendFacts
<1>3. PICK t \in 1 .. Len(out) :
        /\ out[t].role = "assistant" /\ open \subseteq IdsOf(out[t].calls)
        /\ \A r \in t + 1 .. Len(out) : out[r].role = "tool" /\ out[r].id \notin open
  BY <1>1 DEF Turns, OpenAtEnd
<1>4. \A p \in 1 .. Len(out) : AnswersIn(out, p) \subseteq p + 1 .. Len(out)
  BY <1>1, AnswersAppended
<1>5. AnswersIn(new, t) = AnswersIn(out, t) \cup {n}
  BY <1>1, <1>3, AnswersAppended
<1>6. ASSUME NEW p \in 1 .. Len(out), p # t, out[p].role = "assistant"
      PROVE  AnswersIn(new, p) = AnswersIn(out, p)
  <2>1. CASE p < t
    <3>1. t \in p + 1 .. Len(out) /\ out[t].role # "tool" BY <1>1, <1>3, <2>1
    <3>2. QED BY <1>1, <3>1, AnswersAppended
  <2>2. CASE p > t
    <3>1. p \in t + 1 .. Len(out) BY <1>1, <2>2
    <3>2. QED BY <1>3, <1>6, <3>1
  <2>3. QED BY <1>1, <1>6, <2>1, <2>2
<1> HIDE DEF new, rest
<1>7. \A p \in 1 .. Len(out) : \A q \in AnswersIn(out, p) : new[q] = out[q]
  <2> TAKE p \in 1 .. Len(out)
  <2>1. AnswersIn(out, p) \subseteq 1 .. Len(out) BY <1>1, <1>4
  <2>2. QED BY <1>2, <2>1
<1>8. ASSUME NEW p \in 1 .. Len(out), out[p].role = "assistant" PROVE TurnFits(pol, new, p, rest)
  <2>1. TurnFits(pol, out, p, open) BY <1>1, <1>8 DEF Turns
  <2>2. new[p] = out[p] BY <1>2
  <2>3. CASE p # t
    <3>1. AnswersIn(new, p) = AnswersIn(out, p) BY <1>6, <1>8, <2>3
    <3>2. IsSeq(new[p].calls) /\ Distinct(new[p].calls) BY <2>1, <2>2 DEF TurnFits
    <3>3. \A q \in AnswersIn(new, p) : new[q].id \in IdsOf(new[p].calls)
      BY <1>7, <2>1, <2>2, <3>1 DEF TurnFits
    <3>4. \A q, r \in AnswersIn(new, p) : new[q].id = new[r].id => q = r
      BY <1>7, <2>1, <2>2, <3>1 DEF TurnFits
    <3>5. m.id \notin IdsOf(out[p].calls)
      <4>1. IdsOf(out[p].calls) \cap IdsOf(out[t].calls) = {}
        BY <1>1, <1>3, <1>8, <2>3 DEF Turns
      <4>2. QED BY <1>3, <4>1
    <3>6. pol.synthesize =>
            \A id \in IdsOf(new[p].calls) \ rest : \E q \in AnswersIn(new, p) : new[q].id = id
      BY <1>7, <2>1, <2>2, <3>1, <3>5 DEF TurnFits, rest
    <3>7. QED BY <3>2, <3>3, <3>4, <3>6 DEF TurnFits
  <2>4. CASE p = t
    <3>1. AnswersIn(new, p) = AnswersIn(out, p) \cup {n} BY <1>5, <2>4
    <3>2. \A q \in AnswersIn(out, p) : out[q].id # m.id
      BY <1>3, <1>4, <2>4
    <3>3. IsSeq(new[p].calls) /\ Distinct(new[p].calls) BY <2>1, <2>2 DEF TurnFits
    <3>4. m.id \in IdsOf(new[p].calls) BY <1>3, <2>2, <2>4
    <3>5. \A q \in AnswersIn(new, p) : new[q].id \in IdsOf(new[p].calls)
      BY <1>2, <1>7, <2>1, <2>2, <3>1, <3>4 DEF TurnFits
    <3>6. \A q, r \in AnswersIn(new, p) : new[q].id = new[r].id => q = r
      BY <1>2, <1>7, <2>1, <3>1, <3>2 DEF TurnFits
    <3>7. pol.synthesize =>
            \A id \in IdsOf(new[p].calls) \ rest : \E q \in AnswersIn(new, p) : new[q].id = id
      BY <1>2, <1>7, <2>1, <2>2, <3>1 DEF TurnFits, rest
    <3>8. QED BY <3>3, <3>5, <3>6, <3>7 DEF TurnFits
  <2>5. QED BY <2>3, <2>4
<1>9. \A p \in DOMAIN new : p = n \/ p \in 1 .. Len(out) BY <1>1, <1>2
<1>10. \A p \in DOMAIN new : new[p].role = "assistant" =>
         /\ TurnFits(pol, new, p, rest)
         /\ \A q \in DOMAIN new : new[q].role = "assistant" /\ p # q =>
              IdsOf(new[p].calls) \cap IdsOf(new[q].calls) = {}
  BY <1>1, <1>2, <1>8, <1>9 DEF Turns
<1>11. ASSUME NEW q \in DOMAIN new, new[q].role = "tool"
       PROVE  q > 1 /\ new[q - 1].role \in {"assistant", "tool"}
  <2>1. CASE q = n
    <3>1. n > 1 /\ n - 1 \in 1 .. Len(out) /\ n - 1 = Len(out) BY <1>1
    <3>2. out[Len(out)].role \in {"assistant", "tool"}
      <4>1. \A j \in Nat : \A k \in 1 .. j : j = k \/ j \in k + 1 .. j OBVIOUS
      <4>2. Len(out) = t \/ Len(out) \in t + 1 .. Len(out) BY <1>1, <4>1
      <4>3. QED BY <1>3, <4>2
    <3>3. QED BY <1>2, <2>1, <3>1, <3>2
  <2>2. CASE q # n
    <3>1. q \in 1 .. Len(out) /\ out[q].role = "tool" BY <1>2, <1>9, <1>11, <2>2
    <3>2. q > 1 /\ out[q - 1].role \in {"assistant", "tool"} BY <1>1, <3>1 DEF Turns
    <3>3. q - 1 \in 1 .. Len(out) BY <1>1, <3>1, <3>2
    <3>4. QED BY <1>2, <3>2, <3>3
  <2>3. QED BY <2>1, <2>2
<1>12. OpenAtEnd(new, rest)
  <2>1. t \in DOMAIN new /\ new[t] = out[t] BY <1>1, <1>2
  <2>2. rest \subseteq IdsOf(new[t].calls) BY <1>3, <2>1 DEF rest
  <2>3. ASSUME NEW k \in t + 1 .. Len(new) PROVE new[k].role = "tool" /\ new[k].id \notin rest
    <3>1. k = n \/ (k \in t + 1 .. Len(out) /\ new[k] = out[k]) BY <1>1, <1>2
    <3>2. QED BY <1>2, <1>3, <3>1 DEF rest
  <2>4. QED BY <1>3, <2>1, <2>2, <2>3 DEF OpenAtEnd
<1>13. QED BY <1>2, <1>10, <1>11, <1>12 DEF Turns, new, rest
----------------------------------------------------------------------------
(* What became of the results                                               *)

SentOf(out, k) == {q \in DOMAIN out : out[q].from = k}

\* Dropped as a repetition of what an earlier result has said of the same call.
SaidBefore(in, out, k) ==
    \E q \in DOMAIN out :
        /\ out[q].from \in 1 .. k - 1
        /\ out[q].id = in[k].id /\ out[q].content = in[k].content

ResultKept(in, out, k) ==
    \/ /\ \E q \in SentOf(out, k) : out[q].content = in[k].content
       /\ \A q, r \in SentOf(out, k) : q = r
    \/ SentOf(out, k) = {} /\ SaidBefore(in, out, k)

\* Every answered call was answered with the content recorded for it.
Kept(in, out, said) ==
    /\ IsSeq(in) /\ IsSeq(out)
    /\ \A q \in DOMAIN out : out[q].from \in 0 .. Len(in)
    /\ \A q, r \in DOMAIN out :
         q < r /\ out[q].from # 0 /\ out[r].from # 0 => out[q].from < out[r].from
    /\ \A k \in DOMAIN in : in[k].role = "tool" => ResultKept(in, out, k)
    /\ \A id \in DOMAIN said : \E q \in DOMAIN out :
         out[q].from # 0 /\ out[q].id = id /\ out[q].content = said[id]

\* A message that comes from none of the input leaves it so.
LEMMA KeptBesides ==
    ASSUME NEW in, NEW out, NEW said, Kept(in, out, said), NEW m, m.from = 0
    PROVE  Kept(in, Append(out, m), said)
<1> DEFINE n == Len(out) + 1
           new == Append(out, m)
<1>1. /\ IsSeq(in) /\ Len(in) \in Nat /\ DOMAIN in = 1 .. Len(in)
      /\ IsSeq(out) /\ Len(out) \in Nat /\ DOMAIN out = 1 .. Len(out)
  BY SeqFacts DEF Kept
<1>2. /\ IsSeq(new) /\ DOMAIN new = 1 .. n /\ new[n] = m
      /\ \A k \in DOMAIN out : new[k] = out[k]
  BY <1>1, AppendFacts
<1>3. /\ \A q \in DOMAIN new : q = n \/ q \in DOMAIN out
      /\ \A q \in DOMAIN out : q \in DOMAIN new
  BY <1>1, <1>2
<1> HIDE DEF new, n
<1>4. \A k \in DOMAIN in : SentOf(new, k) = SentOf(out, k)
  <2> TAKE k \in DOMAIN in
  <2>1. k # 0 BY <1>1
  <2>2. QED BY <1>2, <1>3, <2>1 DEF SentOf
<1>5. \A k \in DOMAIN in : SaidBefore(in, out, k) => SaidBefore(in, new, k)
  BY <1>2, <1>3 DEF SaidBefore
<1>6. ASSUME NEW k \in DOMAIN in, in[k].role = "tool" PROVE ResultKept(in, new, k)
  <2>1. ResultKept(in, out, k) BY <1>6 DEF Kept
  <2>2. SentOf(out, k) \subseteq DOMAIN out BY DEF SentOf
  <2>3. QED BY <1>2, <1>4, <1>5, <2>1, <2>2 DEF ResultKept
<1>7. \A q \in DOMAIN new : new[q].from \in 0 .. Len(in)
  BY <1>1, <1>2, <1>3 DEF Kept
<1>8. \A q, r \in DOMAIN new :
        q < r /\ new[q].from # 0 /\ new[r].from # 0 => new[q].from < new[r].from
  BY <1>2, <1>3 DEF Kept
<1>9. \A id \in DOMAIN said : \E q \in DOMAIN new :
        new[q].from # 0 /\ new[q].id = id /\ new[q].content = said[id]
  BY <1>2, <1>3 DEF Kept
<1>10. QED BY <1>1, <1>2, <1>6, <1>7, <1>8, <1>9 DEF Kept, new

\* An input message that is no result, or repeats what has been said, needs none.
LEMMA KeptUnsent ==
    ASSUME NEW in, NEW out, NEW said, Kept(in, out, said), NEW x,
           x.role = "tool" => x.id \in DOMAIN said /\ said[x.id] = x.content
    PROVE  Kept(Append(in, x), out, said)
<1> DEFINE n == Len(in) + 1
           new == Append(in, x)
<1>1. /\ IsSeq(in) /\ Len(in) \in Nat /\ DOMAIN in = 1 .. Len(in)
      /\ IsSeq(out) /\ Len(out) \in Nat /\ DOMAIN out = 1 .. Len(out)
  BY SeqFacts DEF Kept
<1>2. /\ IsSeq(new) /\ Len(new) = n /\ DOMAIN new = 1 .. n /\ new[n] = x
      /\ \A k \in DOMAIN in : new[k] = in[k]
  BY <1>1, AppendFacts
<1> HIDE DEF new
<1>3. \A q \in DOMAIN out : out[q].from \in 0 .. Len(in) BY DEF Kept
<1>4. ASSUME NEW k \in DOMAIN new, new[k].role = "tool" PROVE ResultKept(new, out, k)
  <2>1. CASE k \in DOMAIN in
    <3>1. ResultKept(in, out, k) BY <1>2, <1>4, <2>1 DEF Kept
    <3>2. SaidBefore(in, out, k) => SaidBefore(new, out, k) BY <1>2, <2>1 DEF SaidBefore
    <3>3. QED BY <1>2, <2>1, <3>1, <3>2 DEF ResultKept
  <2>2. CASE k \notin DOMAIN in
    <3>1. k = n BY <1>1, <1>2, <2>2
    <3>2. x.id \in DOMAIN said /\ said[x.id] = x.content BY <1>2, <1>4, <3>1
    <3>3. PICK q \in DOMAIN out :
            out[q].from # 0 /\ out[q].id = x.id /\ out[q].content = said[x.id]
      BY <3>2 DEF Kept
    <3>4. out[q].from \in 1 .. n - 1 BY <1>1, <1>3, <3>3
    <3>5. SaidBefore(new, out, k) BY <1>2, <3>1, <3>2, <3>3, <3>4 DEF SaidBefore
    <3>6. SentOf(out, k) = {}
      <4>1. \A r \in DOMAIN out : out[r].from # n BY <1>1, <1>3
      <4>2. QED BY <3>1, <4>1 DEF SentOf
    <3>7. QED BY <3>5, <3>6 DEF ResultKept
  <2>3. QED BY <2>1, <2>2
<1>5. \A q \in DOMAIN out : out[q].from \in 0 .. Len(new) BY <1>1, <1>2, <1>3
<1>6. QED BY <1>1, <1>2, <1>4, <1>5 DEF Kept, new

\* A message that is sent on has its place behind all others, and a result its content.
LEMMA KeptSent ==
    ASSUME NEW in, NEW out, NEW said, Kept(in, out, said), NEW x, NEW m, NEW next,
           m.from = Len(in) + 1, x.role = "tool" => m.content = x.content,
           \A id \in DOMAIN next :
              \/ id = m.id /\ next[id] = m.content
              \/ id \in DOMAIN said /\ next[id] = said[id]
    PROVE  Kept(Append(in, x), Append(out, m), next)
<1> DEFINE n == Len(in) + 1
           new == Append(in, x)
           last == Len(out) + 1
           sent == Append(out, m)
<1>1. /\ IsSeq(in) /\ Len(in) \in Nat /\ DOMAIN in = 1 .. Len(in)
      /\ IsSeq(out) /\ Len(out) \in Nat /\ DOMAIN out = 1 .. Len(out)
  BY SeqFacts DEF Kept
<1>2. /\ IsSeq(new) /\ Len(new) = n /\ DOMAIN new = 1 .. n /\ new[n] = x
      /\ \A k \in DOMAIN in : new[k] = in[k]
  BY <1>1, AppendFacts
<1>3. /\ IsSeq(sent) /\ DOMAIN sent = 1 .. last /\ sent[last] = m
      /\ \A k \in DOMAIN out : sent[k] = out[k]
  BY <1>1, AppendFacts
<1> HIDE DEF new, sent
<1>4. \A q \in DOMAIN out : out[q].from \in 0 .. Len(in) BY DEF Kept
<1>5. /\ \A q \in DOMAIN sent : q = last \/ q \in DOMAIN out
      /\ \A q \in DOMAIN out : q \in DOMAIN sent /\ q < last
      /\ last \in DOMAIN sent
  BY <1>1, <1>3
<1>6. \A q \in DOMAIN sent : sent[q].from \in 0 .. n
  BY <1>1, <1>3, <1>4, <1>5
<1>7. ASSUME NEW q \in DOMAIN sent, NEW r \in DOMAIN sent, q < r,
             sent[q].from # 0, sent[r].from # 0
      PROVE  sent[q].from < sent[r].from
  <2>1. CASE r \in DOMAIN out
    <3>1. q \in DOMAIN out BY <1>1, <1>3, <1>7, <2>1
    <3>2. QED BY <1>3, <1>7, <2>1, <3>1 DEF Kept
  <2>2. CASE r = last
    <3>1. q \in DOMAIN out BY <1>1, <1>3, <1>7, <2>2
    <3>2. sent[q].from \in 0 .. Len(in) /\ sent[r].from = n BY <1>3, <1>4, <2>2, <3>1
    <3>3. QED BY <1>1, <3>2
  <2>3. QED BY <1>5, <2>1, <2>2
<1>8. ASSUME NEW k \in DOMAIN new, new[k].role = "tool" PROVE ResultKept(new, sent, k)
  <2>1. CASE k \in DOMAIN in
    <3>1. ResultKept(in, out, k) BY <1>2, <1>8, <2>1 DEF Kept
    <3>2. SaidBefore(in, out, k) => SaidBefore(new, sent, k)
      BY <1>2, <1>3, <1>5, <2>1 DEF SaidBefore
    <3>3. k # n BY <1>1, <2>1
    <3>4. SentOf(sent, k) = SentOf(out, k) BY <1>3, <1>5, <3>3 DEF SentOf
    <3>5. SentOf(out, k) \subseteq DOMAIN out BY DEF SentOf
    <3>6. QED BY <1>2, <1>3, <2>1, <3>1, <3>2, <3>4, <3>5 DEF ResultKept
  <2>2. CASE k \notin DOMAIN in
    <3>1. k = n BY <1>1, <1>2, <2>2
    <3>2. \A r \in DOMAIN out : out[r].from # n BY <1>1, <1>4
    <3>3. SentOf(sent, k) = {last}
      <4>1. \A r \in DOMAIN sent : sent[r].from = n <=> r = last BY <1>3, <1>5, <3>2
      <4>2. QED BY <1>5, <3>1, <4>1 DEF SentOf
    <3>4. QED BY <1>2, <1>3, <1>8, <3>1, <3>3 DEF ResultKept
  <2>3. QED BY <2>1, <2>2
<1>9. ASSUME NEW id \in DOMAIN next
      PROVE  \E q \in DOMAIN sent : sent[q].from # 0 /\ sent[q].id = id /\ sent[q].content = next[id]
  <2>1. CASE id = m.id /\ next[id] = m.content
    <3>1. n # 0 BY <1>1
    <3>2. QED BY <1>3, <1>5, <2>1, <3>1
  <2>2. CASE id \in DOMAIN said /\ next[id] = said[id]
    BY <1>3, <1>5, <2>2 DEF Kept
  <2>3. QED BY <2>1, <2>2
<1>10. QED BY <1>2, <1>3, <1>6, <1>7, <1>8, <1>9 DEF Kept, new, sent
----------------------------------------------------------------------------
(* Results and the calls they belong to                                     *)

\* The input after position p is results of its turn, or moved to the front.
Behind(pol, in, p, k) ==
    \A j \in p + 1 .. k : in[j].role = "tool" \/ (in[j].role = "system" /\ pol.sort)
Following(pol, in, p) == {k \in p + 1 .. Len(in) : in[k].role = "tool" /\ Behind(pol, in, p, k)}

TakenIn(out, p, k) ==
    {out[q].id : q \in {r \in DOMAIN out : out[r].role = "tool" /\ out[r].from \in p + 1 .. k - 1}}

AllHome(pol, in, out) ==
    \A p \in DOMAIN in : in[p].role = "assistant" =>
        \A k \in Following(pol, in, p) : \A q \in DOMAIN out : out[q].from = k =>
            Belongs(in[k], WithIds(in[p].calls, p), out[q], TakenIn(out, p, k))

\* A turn that may still get results asks for its calls, and those that are answered
\* were taken by results behind it.
AllWaiting(pol, in, out, asked, said) ==
    \A p \in DOMAIN in : in[p].role = "assistant" /\ Behind(pol, in, p, Len(in)) =>
        /\ asked = WithIds(in[p].calls, p)
        /\ IdsOf(asked) \cap DOMAIN said \subseteq TakenIn(out, p, Len(in) + 1)

\* What was taken stays taken as the output and the input grow.
LEMMA TakenGrows ==
    ASSUME NEW out, NEW longer, NEW p, NEW k, NEW n, p + 1 .. k - 1 \subseteq p + 1 .. n - 1,
           \A q \in DOMAIN out : q \in DOMAIN longer /\ longer[q] = out[q]
    PROVE  TakenIn(out, p, k) \subseteq TakenIn(longer, p, n)
BY DEF TakenIn

LEMMA BelongsStill ==
    ASSUME NEW result, NEW calls, NEW message, NEW taken, NEW more,
           Belongs(result, calls, message, taken), taken \subseteq more
    PROVE  Belongs(result, calls, message, more)
BY DEF Belongs

LEMMA FollowingAppended ==
    ASSUME NEW pol, NEW in, IsSeq(in), NEW x, NEW p \in DOMAIN in
    PROVE  LET n == Len(in) + 1
               moved == x.role = "tool" \/ (x.role = "system" /\ pol.sort)
           IN  /\ Following(pol, Append(in, x), p) =
                    IF x.role = "tool" /\ Behind(pol, in, p, Len(in))
                    THEN Following(pol, in, p) \cup {n} ELSE Following(pol, in, p)
               /\ Behind(pol, Append(in, x), p, n) <=> Behind(pol, in, p, Len(in)) /\ moved
               /\ Following(pol, in, p) \subseteq p + 1 .. Len(in)
<1> DEFINE n == Len(in) + 1
           new == Append(in, x)
           moved == x.role = "tool" \/ (x.role = "system" /\ pol.sort)
<1>1. Len(in) \in Nat /\ DOMAIN in = 1 .. Len(in) BY SeqFacts
<1>2. Len(new) = n /\ new[n] = x /\ \A k \in 1 .. Len(in) : new[k] = in[k]
  BY AppendFacts
<1>p. p \in Nat /\ p <= Len(in) /\ p >= 1 BY <1>1
<1> HIDE DEF new
<1>3. Following(pol, in, p) \subseteq p + 1 .. Len(in) BY DEF Following
<1>4. \A k \in p .. Len(in) : Behind(pol, new, p, k) <=> Behind(pol, in, p, k)
  <2> TAKE k \in p .. Len(in)
  <2>1. \A j \in p + 1 .. k : new[j] = in[j] BY <1>1, <1>2, <1>p
  <2>2. QED BY <2>1 DEF Behind
<1>5. Behind(pol, new, p, n) <=> Behind(pol, in, p, Len(in)) /\ moved
  <2>1. /\ \A j \in p + 1 .. n : j = n \/ j \in p + 1 .. Len(in)
        /\ n \in p + 1 .. n /\ \A j \in p + 1 .. Len(in) : j \in p + 1 .. n
    BY <1>1, <1>p
  <2>2. Behind(pol, new, p, Len(in)) <=> Behind(pol, in, p, Len(in))
    <3>1. Len(in) \in p .. Len(in) BY <1>1, <1>p
    <3>2. QED BY <1>4, <3>1
  <2>3. Behind(pol, new, p, n) <=> Behind(pol, new, p, Len(in)) /\ moved
    BY <1>2, <2>1 DEF Behind
  <2>4. QED BY <2>2, <2>3
<1>6. \A k \in p + 1 .. Len(in) : k \in Following(pol, new, p) <=> k \in Following(pol, in, p)
  <2> TAKE k \in p + 1 .. Len(in)
  <2>1. k \in p .. Len(in) /\ new[k] = in[k] /\ k \in p + 1 .. Len(new) BY <1>1, <1>2, <1>p
  <2>2. QED BY <1>4, <2>1 DEF Following
<1>7. n \in Following(pol, new, p) <=> x.role = "tool" /\ Behind(pol, in, p, Len(in))
  <2>1. n \in p + 1 .. Len(new) BY <1>1, <1>2, <1>p
  <2>2. QED BY <1>2, <1>5, <2>1 DEF Following
<1>8. Following(pol, new, p) \subseteq (p + 1 .. Len(in)) \cup {n}
  <2>1. Following(pol, new, p) \subseteq p + 1 .. n BY <1>2 DEF Following
  <2>2. \A k \in p + 1 .. n : k \in p + 1 .. Len(in) \/ k = n BY <1>1, <1>p
  <2>3. QED BY <2>1, <2>2
<1>9. Following(pol, new, p) =
        IF x.role = "tool" /\ Behind(pol, in, p, Len(in)) THEN Following(pol, in, p) \cup {n} ELSE Following(pol, in, p)
  <2>1. n \notin p + 1 .. Len(in) BY <1>1
  <2>2. CASE x.role = "tool" /\ Behind(pol, in, p, Len(in))
    BY <1>3, <1>6, <1>7, <1>8, <2>1, <2>2
  <2>3. CASE ~(x.role = "tool" /\ Behind(pol, in, p, Len(in)))
    <3>1. Following(pol, new, p) \subseteq p + 1 .. Len(in) BY <1>7, <1>8, <2>3
    <3>2. Following(pol, new, p) = Following(pol, in, p) BY <1>3, <1>6, <3>1
    <3>3. QED BY <2>3, <3>2
  <2>4. QED BY <2>2, <2>3
<1>10. QED BY <1>3, <1>5, <1>9 DEF new

\* What is sent for a message of the input leaves the others where they belong.
LEMMA HomeExtended ==
    ASSUME NEW pol, NEW in, NEW out, NEW x, NEW longer, IsSeq(in), AllHome(pol, in, out),
           \A q \in DOMAIN out : out[q].from \in 0 .. Len(in),
           \A q \in DOMAIN out : q \in DOMAIN longer /\ longer[q] = out[q],
           \A q \in DOMAIN longer \ DOMAIN out : longer[q].from = Len(in) + 1,
           \A p \in DOMAIN in :
              x.role = "tool" /\ in[p].role = "assistant" /\ Behind(pol, in, p, Len(in))
              => \A q \in DOMAIN longer \ DOMAIN out :
                    Belongs(x, WithIds(in[p].calls, p), longer[q], TakenIn(out, p, Len(in) + 1))
    PROVE  AllHome(pol, Append(in, x), longer)
<1> DEFINE n == Len(in) + 1
           new == Append(in, x)
<1>1. Len(in) \in Nat /\ DOMAIN in = 1 .. Len(in) BY SeqFacts
<1>2. /\ Len(new) = n /\ DOMAIN new = 1 .. n /\ new[n] = x
      /\ \A k \in 1 .. Len(in) : new[k] = in[k]
  BY AppendFacts
<1> HIDE DEF new
<1>3. ASSUME NEW p \in DOMAIN new, new[p].role = "assistant",
             NEW k \in Following(pol, new, p), NEW q \in DOMAIN longer, longer[q].from = k
      PROVE  Belongs(new[k], WithIds(new[p].calls, p), longer[q], TakenIn(longer, p, k))
  <2>1. p # n
    <3>1. p = n => Following(pol, new, p) = {} BY <1>1, <1>2 DEF Following
    <3>2. QED BY <1>3, <3>1
  <2>2. p \in DOMAIN in /\ new[p] = in[p] BY <1>1, <1>2, <2>1
  <2>3. /\ Following(pol, new, p) =
              IF x.role = "tool" /\ Behind(pol, in, p, Len(in))
              THEN Following(pol, in, p) \cup {n} ELSE Following(pol, in, p)
        /\ Following(pol, in, p) \subseteq p + 1 .. Len(in)
    BY <2>2, FollowingAppended DEF new
  <2>4. TakenIn(out, p, k) \subseteq TakenIn(longer, p, k) BY TakenGrows
  <2>5. CASE q \in DOMAIN out
    <3>1. out[q].from = k /\ longer[q] = out[q] /\ k # n BY <1>1, <1>3, <2>5
    <3>2. k \in Following(pol, in, p) BY <1>3, <2>3, <3>1
    <3>3. k \in 1 .. Len(in) BY <1>1, <2>2, <2>3, <3>2
    <3>4. new[k] = in[k] BY <1>2, <3>3
    <3>5. Belongs(in[k], WithIds(in[p].calls, p), out[q], TakenIn(out, p, k))
      BY <1>3, <2>2, <2>5, <3>1, <3>2 DEF AllHome
    <3>6. QED BY <2>2, <2>4, <3>1, <3>4, <3>5, BelongsStill
  <2>6. CASE q \notin DOMAIN out
    <3>1. k = n BY <1>3, <2>6
    <3>2. n \notin Following(pol, in, p) BY <1>1, <2>3
    <3>3. x.role = "tool" /\ Behind(pol, in, p, Len(in)) BY <1>3, <2>3, <3>1, <3>2
    <3>4. Belongs(x, WithIds(in[p].calls, p), longer[q], TakenIn(out, p, n))
      BY <1>3, <2>2, <2>6, <3>3
    <3>5. QED BY <1>2, <2>2, <2>4, <3>1, <3>4, BelongsStill
  <2>7. QED BY <2>5, <2>6
<1>4. QED BY <1>3 DEF AllHome, new

\* What an answer is recorded for was taken by the message that was just mapped.
LEMMA WaitingContinued ==
    ASSUME NEW pol, NEW in, NEW out, NEW longer, NEW asked, NEW said, NEW next, NEW x,
           IsSeq(in), x.role # "assistant", AllWaiting(pol, in, out, asked, said),
           \A q \in DOMAIN out : q \in DOMAIN longer /\ longer[q] = out[q],
           \A id \in DOMAIN next : id \in DOMAIN said \/ \E q \in DOMAIN longer :
              longer[q].role = "tool" /\ longer[q].id = id /\ longer[q].from = Len(in) + 1
    PROVE  AllWaiting(pol, Append(in, x), longer, asked, next)
<1> DEFINE n == Len(in) + 1
           new == Append(in, x)
<1>1. Len(in) \in Nat /\ DOMAIN in = 1 .. Len(in) BY SeqFacts
<1>2. /\ Len(new) = n /\ DOMAIN new = 1 .. n /\ new[n] = x
      /\ \A k \in 1 .. Len(in) : new[k] = in[k]
  BY AppendFacts
<1> HIDE DEF new
<1>3. ASSUME NEW p \in DOMAIN new, new[p].role = "assistant", Behind(pol, new, p, n)
      PROVE  /\ asked = WithIds(new[p].calls, p)
             /\ IdsOf(asked) \cap DOMAIN next \subseteq TakenIn(longer, p, n + 1)
  <2>1. p \in DOMAIN in /\ new[p] = in[p]
    <3>1. p # n BY <1>2, <1>3
    <3>2. QED BY <1>1, <1>2, <3>1
  <2>2. Behind(pol, in, p, Len(in)) BY <1>3, <2>1, FollowingAppended DEF new
  <2>3. /\ asked = WithIds(in[p].calls, p)
        /\ IdsOf(asked) \cap DOMAIN said \subseteq TakenIn(out, p, n)
    BY <1>3, <2>1, <2>2 DEF AllWaiting
  <2>4. TakenIn(out, p, n) \subseteq TakenIn(longer, p, n + 1)
    <3>1. p + 1 .. n - 1 \subseteq p + 1 .. (n + 1) - 1 BY <1>1, <2>1
    <3>2. QED BY <3>1, TakenGrows
  <2>5. ASSUME NEW id \in IdsOf(asked) \cap DOMAIN next PROVE id \in TakenIn(longer, p, n + 1)
    <3>1. CASE id \in DOMAIN said BY <2>3, <2>4, <2>5, <3>1
    <3>2. CASE \E q \in DOMAIN longer :
                longer[q].role = "tool" /\ longer[q].id = id /\ longer[q].from = n
      <4>1. n \in p + 1 .. (n + 1) - 1 BY <1>1, <2>1
      <4>2. QED BY <3>2, <4>1 DEF TakenIn
    <3>3. QED BY <2>5, <3>1, <3>2
  <2>6. QED BY <2>1, <2>3, <2>5
<1>4. QED BY <1>2, <1>3 DEF AllWaiting, new

\* A message that ends the turn may begin one of its own, with calls not answered yet.
LEMMA WaitingBegun ==
    ASSUME NEW pol, NEW in, NEW out, NEW asked, NEW said, NEW x, IsSeq(in),
           x.role # "tool", ~(x.role = "system" /\ pol.sort),
           x.role = "assistant" =>
             asked = WithIds(x.calls, Len(in) + 1) /\ IdsOf(asked) \cap DOMAIN said = {}
    PROVE  AllWaiting(pol, Append(in, x), out, asked, said)
<1> DEFINE n == Len(in) + 1
           new == Append(in, x)
<1>1. Len(in) \in Nat /\ DOMAIN in = 1 .. Len(in) BY SeqFacts
<1>2. Len(new) = n /\ DOMAIN new = 1 .. n /\ new[n] = x BY AppendFacts
<1> HIDE DEF new
<1>3. \A p \in DOMAIN in : ~Behind(pol, new, p, n) BY FollowingAppended DEF new
<1>4. \A p \in DOMAIN new : Behind(pol, new, p, n) => p = n
  <2>1. \A p \in DOMAIN new : p \in DOMAIN in \/ p = n BY <1>1, <1>2
  <2>2. QED BY <1>3, <2>1
<1>5. QED BY <1>2, <1>4 DEF AllWaiting, new
----------------------------------------------------------------------------
(* What is appended for the calls left without a result                     *)

FlushStep(before, k) ==
    IF Free(pending[k]) THEN Append(before, Placeholder(pending[k])) ELSE before
FlushSteps(n, f) == f[0] = <<>> /\ \A k \in 1 .. n : f[k] = FlushStep(f[k - 1], k)

LEMMA FlushExists ==
    ASSUME IsSeq(pending)
    PROVE  \E f : FlushSteps(Len(pending), f) /\ DOMAIN f = 0 .. Len(pending)
<1> DEFINE S == {n \in Nat : \E f : FlushSteps(n, f) /\ DOMAIN f = 0 .. n}
<1>1. 0 \in S
  <2> DEFINE f == [k \in 0 .. 0 |-> <<>>]
  <2>1. FlushSteps(0, f) /\ DOMAIN f = 0 .. 0 BY DEF FlushSteps
  <2>2. QED BY <2>1
<1>2. ASSUME NEW n \in Nat, n \in S PROVE n + 1 \in S
  <2>1. PICK f : FlushSteps(n, f) /\ DOMAIN f = 0 .. n BY <1>2
  <2> DEFINE last == FlushStep(f[n], n + 1)
             next == [k \in 0 .. n + 1 |-> IF k = n + 1 THEN last ELSE f[k]]
  <2> HIDE DEF last
  <2>2. next[0] = <<>> BY <2>1 DEF FlushSteps
  <2>3. ASSUME NEW k \in 1 .. n + 1 PROVE next[k] = FlushStep(next[k - 1], k)
    <3>1. CASE k = n + 1
      <4>1. next[k - 1] = f[n] /\ next[k] = last BY <3>1
      <4>2. QED BY <3>1, <4>1 DEF last
    <3>2. CASE k # n + 1
      <4>1. k \in 1 .. n /\ next[k] = f[k] /\ next[k - 1] = f[k - 1] BY <3>2
      <4>2. QED BY <2>1, <4>1 DEF FlushSteps
    <3>3. QED BY <3>1, <3>2
  <2>4. DOMAIN next = 0 .. n + 1 OBVIOUS
  <2> HIDE DEF next
  <2>5. FlushSteps(n + 1, next) BY <2>2, <2>3 DEF FlushSteps
  <2>6. QED BY <2>4, <2>5
<1> HIDE DEF S
<1>3. Nat \subseteq S BY <1>1, <1>2, NatInclusion
<1>4. Len(pending) \in S BY <1>3, SeqFacts
<1>5. QED BY <1>4 DEF S

LEMMA FlushedByStep ==
    ASSUME IsSeq(pending)
    PROVE  \E f : /\ FlushSteps(Len(pending), f)
                 /\ Flushed = IF policy.synthesize THEN f[Len(pending)] ELSE <<>>
<1> DEFINE upTo == CHOOSE f : f = [n \in 0 .. Len(pending) |->
                        IF n = 0 THEN <<>>
                        ELSE IF Free(pending[n]) THEN Append(f[n - 1], Placeholder(pending[n]))
                        ELSE f[n - 1]]
           body(f, n) == IF n = 0 THEN <<>> ELSE FlushStep(f[n - 1], n)
<1>0. Len(pending) \in Nat BY SeqFacts
<1>1. PICK f : FlushSteps(Len(pending), f) /\ DOMAIN f = 0 .. Len(pending) BY FlushExists
<1>2. \E g : g = [n \in 0 .. Len(pending) |-> body(g, n)]
  <2>1. \A n \in 0 .. Len(pending) : f[n] = body(f, n)
    <3> TAKE n \in 0 .. Len(pending)
    <3>1. CASE n = 0 BY <1>1, <3>1 DEF FlushSteps
    <3>2. CASE n # 0
      <4>1. n \in 1 .. Len(pending) BY <1>0, <3>2
      <4>2. QED BY <1>1, <3>2, <4>1 DEF FlushSteps
    <3>3. QED BY <3>1, <3>2
  <2> HIDE DEF body
  <2>2. f = [n \in 0 .. Len(pending) |-> body(f, n)]
    BY <1>1, <2>1
  <2>3. QED BY <2>2
<1>3. upTo = [n \in 0 .. Len(pending) |-> body(upTo, n)] BY <1>2 DEF FlushStep
<1>4. Flushed = IF policy.synthesize THEN upTo[Len(pending)] ELSE <<>> BY DEF Flushed
<1> HIDE DEF upTo
<1>5. ASSUME NEW n \in 0 .. Len(pending) PROVE upTo[n] = body(upTo, n)
  <2> HIDE DEF body
  <2>1. QED BY <1>3
<1>6. FlushSteps(Len(pending), upTo)
  <2>1. upTo[0] = <<>> BY <1>0, <1>5
  <2>2. \A n \in 1 .. Len(pending) : n \in 0 .. Len(pending) /\ n # 0 BY <1>0
  <2>3. \A n \in 1 .. Len(pending) : upTo[n] = FlushStep(upTo[n - 1], n) BY <1>5, <2>2
  <2>4. QED BY <2>1, <2>3 DEF FlushSteps
<1>7. QED BY <1>4, <1>6

\* The output so far, of which the calls `open` still wait for their results.
CallsKnown(out, ids) ==
    \A p \in DOMAIN out :
        /\ out[p].role \in {"system", "user", "assistant", "tool"}
        /\ out[p].role = "assistant" => IdsOf(out[p].calls) \subseteq ids
Fine(pol, in, out, said, ids, open) ==
    /\ Turns(pol, out, open) /\ Kept(in, out, said) /\ AllHome(pol, in, out)
    /\ CallsKnown(out, ids)

\* A made-up result keeps it in order and closes its call.
LEMMA PlaceholderFits ==
    ASSUME NEW pol, NEW in, NEW out, NEW said, NEW ids, NEW open,
           Fine(pol, in, out, said, ids, open), NEW call, call.id \in open
    PROVE  Fine(pol, in, Append(out, Placeholder(call)), said, ids, open \ {call.id})
<1> DEFINE m == Placeholder(call)
           new == Append(out, m)
<1>1. m.role = "tool" /\ m.id = call.id /\ m.from = 0 BY DEF Placeholder, Outgoing
<1> HIDE DEF m
<1>2. IsSeq(out) /\ Len(out) \in Nat /\ DOMAIN out = 1 .. Len(out) BY SeqFacts DEF Fine, Turns
<1>3. /\ DOMAIN new = 1 .. Len(out) + 1 /\ new[Len(out) + 1] = m
      /\ \A k \in 1 .. Len(out) : new[k] = out[k]
  BY <1>2, AppendFacts
<1>4. Turns(pol, new, open \ {call.id}) BY <1>1, TurnsContinued DEF Fine
<1>5. Kept(in, new, said) BY <1>1, KeptBesides DEF Fine
<1> HIDE DEF new
<1>6. \A q \in DOMAIN out : q \in DOMAIN new /\ new[q] = out[q] BY <1>2, <1>3
<1>7. AllHome(pol, in, new)
  <2>1. AllHome(pol, in, out) BY DEF Fine
  <2>2. ASSUME NEW p \in DOMAIN in, in[p].role = "assistant",
               NEW k \in Following(pol, in, p), NEW q \in DOMAIN new, new[q].from = k
        PROVE  Belongs(in[k], WithIds(in[p].calls, p), new[q], TakenIn(new, p, k))
    <3>1. k # 0
      <4>1. DOMAIN in = 1 .. Len(in) /\ Len(in) \in Nat BY SeqFacts DEF Fine, Kept
      <4>2. QED BY <2>2, <4>1 DEF Following
    <3>2. q \in DOMAIN out /\ new[q] = out[q] BY <1>1, <1>2, <1>3, <2>2, <3>1
    <3>3. Belongs(in[k], WithIds(in[p].calls, p), out[q], TakenIn(out, p, k))
      BY <2>1, <2>2, <3>2 DEF AllHome
    <3>4. TakenIn(out, p, k) \subseteq TakenIn(new, p, k) BY <1>6, TakenGrows
    <3>5. QED BY <3>2, <3>3, <3>4, BelongsStill
  <2>3. QED BY <2>2 DEF AllHome
<1>8. CallsKnown(new, ids)
  <2>1. CallsKnown(out, ids) BY DEF Fine
  <2>2. \A p \in DOMAIN new : p = Len(out) + 1 \/ (p \in DOMAIN out /\ new[p] = out[p])
    BY <1>2, <1>3
  <2>3. QED BY <1>1, <1>3, <2>1, <2>2 DEF CallsKnown
<1>9. QED BY <1>4, <1>5, <1>7, <1>8 DEF Fine, new, m

OpenIds == IdsOf(pending) \ DOMAIN consumed

\* When the turn ends every call of it has its answer, if missing ones are made up.
LEMMA FlushCloses ==
    ASSUME IsSeq(pending), Distinct(pending),
           Fine(policy, input, output, consumed, allIDs, OpenIds)
    PROVE  IsSeq(Flushed) /\ Fine(policy, input, output \o Flushed, consumed, allIDs, {})
<1>0. Len(pending) \in Nat /\ DOMAIN pending = 1 .. Len(pending) BY SeqFacts
<1>1. PICK f : /\ FlushSteps(Len(pending), f)
               /\ Flushed = IF policy.synthesize THEN f[Len(pending)] ELSE <<>>
  BY FlushedByStep
<1>2. IsSeq(output) BY DEF Fine, Turns
<1>3. output \o <<>> = output BY <1>2, EmptyFacts, JoinAppend
<1> DEFINE filled(n) == {pending[k].id : k \in 1 .. n}
           S == {n \in Nat : n <= Len(pending) =>
                    /\ IsSeq(f[n])
                    /\ Fine(policy, input, output \o f[n], consumed, allIDs, OpenIds \ filled(n))}
<1>4. 0 \in S
  <2>1. f[0] = <<>> BY <1>1 DEF FlushSteps
  <2>2. OpenIds \ filled(0) = OpenIds OBVIOUS
  <2> HIDE DEF filled
  <2>3. QED BY <1>3, <2>1, <2>2, EmptyFacts
<1>5. ASSUME NEW n \in Nat, n \in S PROVE n + 1 \in S
  <2> SUFFICES ASSUME n + 1 <= Len(pending)
               PROVE  /\ IsSeq(f[n + 1])
                      /\ Fine(policy, input, output \o f[n + 1], consumed, allIDs,
                              OpenIds \ filled(n + 1))
    OBVIOUS
  <2> DEFINE call == pending[n + 1]
  <2>1. n + 1 \in 1 .. Len(pending) /\ (n + 1) - 1 = n /\ n <= Len(pending) BY <1>0
  <2>2. /\ IsSeq(f[n])
        /\ Fine(policy, input, output \o f[n], consumed, allIDs, OpenIds \ filled(n))
    BY <1>5, <2>1
  <2>3. f[n + 1] = FlushStep(f[n], n + 1) BY <1>1, <2>1 DEF FlushSteps
  <2>4. filled(n + 1) = filled(n) \cup {call.id}
    <3>1. \A k \in 1 .. n + 1 : k \in 1 .. n \/ k = n + 1 OBVIOUS
    <3>2. n + 1 \in 1 .. n + 1 /\ \A k \in 1 .. n : k \in 1 .. n + 1 OBVIOUS
    <3>3. QED BY <3>1, <3>2
  <2>5. call.id \notin filled(n)
    <3>1. \A k \in 1 .. n : k \in DOMAIN pending /\ k # n + 1 BY <1>0, <2>1
    <3>2. n + 1 \in DOMAIN pending BY <1>0, <2>1
    <3>3. QED BY <3>1, <3>2 DEF Distinct
  <2>6. call.id \in IdsOf(pending) BY <1>0, <2>1 DEF IdsOf
  <2> HIDE DEF filled
  <2>7. CASE Free(pending[n + 1])
    <3>1. f[n + 1] = Append(f[n], Placeholder(call)) BY <2>3, <2>7 DEF FlushStep
    <3>2. call.id \in OpenIds \ filled(n) BY <2>5, <2>6, <2>7 DEF OpenIds, Free
    <3>3. output \o f[n + 1] = Append(output \o f[n], Placeholder(call))
      BY <1>2, <2>2, <3>1, JoinAppend
    <3>4. (OpenIds \ filled(n)) \ {call.id} = OpenIds \ filled(n + 1) BY <2>4
    <3>5. Fine(policy, input, output \o f[n + 1], consumed, allIDs,
               (OpenIds \ filled(n)) \ {call.id})
      <4> DEFINE open == OpenIds \ filled(n)
                 out == output \o f[n]
      <4> HIDE DEF open, out, call
      <4>1. Fine(policy, input, out, consumed, allIDs, open) BY <2>2 DEF open, out
      <4>2. call.id \in open BY <3>2 DEF open
      <4>3. Fine(policy, input, Append(out, Placeholder(call)), consumed, allIDs, open \ {call.id})
        BY <4>1, <4>2, PlaceholderFits
      <4>4. QED BY <3>3, <4>3 DEF open, out
    <3>6. IsSeq(f[n + 1]) BY <2>2, <3>1, AppendFacts
    <3>7. QED BY <3>4, <3>5, <3>6
  <2>8. CASE ~Free(pending[n + 1])
    <3>1. f[n + 1] = f[n] BY <2>3, <2>8 DEF FlushStep
    <3>2. OpenIds \ filled(n + 1) = OpenIds \ filled(n)
      BY <2>4, <2>8 DEF OpenIds, Free
    <3>3. QED BY <2>2, <3>1, <3>2
  <2>9. QED BY <2>7, <2>8
<1>6. CASE policy.synthesize
  <2> HIDE DEF S
  <2>1. Nat \subseteq S BY <1>4, <1>5, NatInclusion
  <2>2. Len(pending) \in S BY <1>0, <2>1
  <2>3. /\ IsSeq(f[Len(pending)])
        /\ Fine(policy, input, output \o f[Len(pending)], consumed, allIDs,
                OpenIds \ filled(Len(pending)))
    BY <1>0, <2>2 DEF S
  <2>4. OpenIds \ filled(Len(pending)) = {} BY <1>0 DEF OpenIds, IdsOf
  <2>5. QED BY <1>1, <1>6, <2>3, <2>4
<1>7. CASE ~policy.synthesize
  <2>1. Turns(policy, output, OpenIds) BY DEF Fine
  <2>2. \A p \in DOMAIN output : TurnFits(policy, output, p, OpenIds) => TurnFits(policy, output, p, {})
    BY <1>7 DEF TurnFits
  <2>3. OpenAtEnd(output, {}) BY DEF OpenAtEnd
  <2>4. Turns(policy, output, {}) BY <2>1, <2>2, <2>3 DEF Turns
  <2>5. Flushed = <<>> BY <1>1, <1>7
  <2>6. QED BY <1>3, <2>4, <2>5, EmptyFacts DEF Fine
<1>8. QED BY <1>6, <1>7
----------------------------------------------------------------------------
(* One message of the input                                                 *)

LEMMA SentOn ==
    ASSUME NEW pol, NEW in, NEW out, NEW said, NEW ids, NEW open,
           Fine(pol, in, out, said, ids, open), NEW x, NEW m, NEW next, NEW more, NEW still,
           Turns(pol, Append(out, m), still),
           m.role \in {"system", "user", "assistant", "tool"}, m.from = Len(in) + 1,
           x.role = "tool" => m.content = x.content,
           \A id \in DOMAIN next :
              \/ id = m.id /\ next[id] = m.content
              \/ id \in DOMAIN said /\ next[id] = said[id],
           ids \subseteq more, m.role = "assistant" => IdsOf(m.calls) \subseteq more,
           \A p \in DOMAIN in :
              x.role = "tool" /\ in[p].role = "assistant" /\ Behind(pol, in, p, Len(in))
              => Belongs(x, WithIds(in[p].calls, p), m, TakenIn(out, p, Len(in) + 1))
    PROVE  Fine(pol, Append(in, x), Append(out, m), next, more, still)
<1> DEFINE last == Len(out) + 1
           new == Append(out, m)
<1>1. /\ IsSeq(out) /\ Len(out) \in Nat /\ DOMAIN out = 1 .. Len(out) /\ IsSeq(in)
  BY SeqFacts DEF Fine, Turns, Kept
<1>2. /\ DOMAIN new = 1 .. last /\ new[last] = m /\ \A k \in 1 .. Len(out) : new[k] = out[k]
  BY <1>1, AppendFacts
<1>3. Kept(Append(in, x), new, next) BY KeptSent DEF Fine
<1> HIDE DEF new
<1>4. /\ \A q \in DOMAIN out : q \in DOMAIN new /\ new[q] = out[q]
      /\ \A q \in DOMAIN new : q = last \/ q \in DOMAIN out
      /\ last \in DOMAIN new
  BY <1>1, <1>2
<1>5. AllHome(pol, Append(in, x), new)
  <2>1. \A q \in DOMAIN new \ DOMAIN out : new[q] = m BY <1>2, <1>4
  <2>2. AllHome(pol, in, out) /\ \A q \in DOMAIN out : out[q].from \in 0 .. Len(in)
    BY DEF Fine, Kept
  <2>3. \A q \in DOMAIN new \ DOMAIN out : new[q].from = Len(in) + 1 BY <2>1
  <2>4. \A p \in DOMAIN in :
          x.role = "tool" /\ in[p].role = "assistant" /\ Behind(pol, in, p, Len(in))
          => \A q \in DOMAIN new \ DOMAIN out :
                Belongs(x, WithIds(in[p].calls, p), new[q], TakenIn(out, p, Len(in) + 1))
    BY <2>1
  <2>5. QED BY <1>1, <1>4, <2>2, <2>3, <2>4, HomeExtended
<1>6. CallsKnown(new, more)
  <2>1. CallsKnown(out, ids) BY DEF Fine
  <2>2. ASSUME NEW p \in DOMAIN new
        PROVE  /\ new[p].role \in {"system", "user", "assistant", "tool"}
               /\ new[p].role = "assistant" => IdsOf(new[p].calls) \subseteq more
    <3>1. CASE p = last BY <1>2, <3>1
    <3>2. CASE p \in DOMAIN out BY <1>4, <2>1, <3>2 DEF CallsKnown
    <3>3. QED BY <1>4, <3>1, <3>2
  <2>3. QED BY <2>2 DEF CallsKnown
<1>7. QED BY <1>3, <1>5, <1>6 DEF Fine, new

LEMMA NotSent ==
    ASSUME NEW pol, NEW in, NEW out, NEW said, NEW ids, NEW open,
           Fine(pol, in, out, said, ids, open), NEW x,
           x.role = "tool" => x.id \in DOMAIN said /\ said[x.id] = x.content
    PROVE  Fine(pol, Append(in, x), out, said, ids, open)
<1>1. Kept(Append(in, x), out, said) BY KeptUnsent DEF Fine
<1>2. AllHome(pol, Append(in, x), out)
  <2>1. IsSeq(in) /\ AllHome(pol, in, out) /\ \A q \in DOMAIN out : out[q].from \in 0 .. Len(in)
    BY DEF Fine, Kept
  <2>2. QED BY <2>1, HomeExtended
<1>3. QED BY <1>1, <1>2 DEF Fine

\* A call of the message itself keeps its id; one without gets an id.
LEMMA WithIdsFacts ==
    ASSUME NEW calls, IsSeq(calls), NEW index
    PROVE  /\ IsSeq(WithIds(calls, index)) /\ DOMAIN WithIds(calls, index) = DOMAIN calls
           /\ IdsAreNew(WithIds(calls, index)) =>
                /\ Distinct(WithIds(calls, index))
                /\ IdsOf(WithIds(calls, index)) \cap allIDs = {}
<1> DEFINE w == WithIds(calls, index)
           e(k) == [id |-> IF calls[k].id = NoId THEN <<index, k, calls[k].name>> ELSE calls[k].id,
                    name |-> calls[k].name]
<1>1. Len(calls) \in Nat /\ DOMAIN calls = 1 .. Len(calls) BY SeqFacts
<1>2. w = [k \in DOMAIN calls |-> e(k)] BY DEF WithIds
<1> HIDE DEF e, w
<1>3. DOMAIN w = DOMAIN calls BY <1>2
<1>4. w \in [1 .. Len(calls) -> ToSet(w)]
  <2>1. \A k \in DOMAIN w : w[k] \in ToSet(w) BY DEF ToSet
  <2>2. w = [k \in 1 .. Len(calls) |-> w[k]] BY <1>1, <1>2
  <2>3. QED BY <1>1, <1>3, <2>1, <2>2
<1>5. w \in Seq(ToSet(w)) BY <1>1, <1>4
<1>6. IdsAreNew(w) => Distinct(w) /\ IdsOf(w) \cap allIDs = {}
  BY DEF IdsAreNew, Distinct, IdsOf
<1>7. QED BY <1>3, <1>5, <1>6 DEF IsSeq, w
----------------------------------------------------------------------------
(* The invariant                                                            *)

PairingInv ==
    /\ IsSeq(input) /\ IsSeq(pending) /\ Distinct(pending)
    /\ mapping \in {"going", "done", "refused"}
    /\ IdsOf(pending) \subseteq allIDs /\ DOMAIN consumed \subseteq allIDs
    /\ mapping # "refused" => Fine(policy, input, output, consumed, allIDs, OpenIds)
    /\ mapping = "going" => AllWaiting(policy, input, output, pending, consumed)
    /\ mapping = "done" => pending = <<>>

LEMMA NothingSent ==
    ASSUME NEW pol PROVE Fine(pol, <<>>, <<>>, <<>>, {}, {})
<1>1. Turns(pol, <<>>, {}) BY EmptyFacts DEF Turns, OpenAtEnd
<1>2. Kept(<<>>, <<>>, <<>>) BY EmptyFacts DEF Kept
<1>3. QED BY <1>1, <1>2, EmptyFacts DEF Fine, AllHome, CallsKnown

LEMMA PairingStarts == PairingInit => PairingInv
<1> SUFFICES ASSUME PairingInit PROVE PairingInv
  OBVIOUS
<1>1. input = <<>> /\ pending = <<>> /\ consumed = <<>> /\ allIDs = {} /\ mapping = "going"
  BY DEF PairingInit
<1>2. Distinct(<<>>) /\ IdsOf(<<>>) = {} BY EmptyFacts DEF Distinct, IdsOf
<1>3. AllWaiting(policy, <<>>, output, <<>>, <<>>) BY EmptyFacts DEF AllWaiting
<1>4. Fine(policy, <<>>, output, <<>>, {}, {})
  <2> DEFINE m == Plain("system", 0)
  <2>1. CASE output = <<>> BY <2>1, NothingSent
  <2>2. CASE output = <<m>>
    <3>1. m.role = "system" /\ m.from = 0 BY DEF Plain, Outgoing
    <3> HIDE DEF m
    <3>2. <<m>> = Append(<<>>, m) OBVIOUS
    <3>3. /\ Turns(policy, <<>>, {}) /\ Kept(<<>>, <<>>, <<>>) BY NothingSent DEF Fine
    <3>4. Turns(policy, output, {})
      <4>1. m.role # "tool" /\ m.role # "assistant" BY <3>1
      <4>2. QED BY <2>2, <3>2, <3>3, <4>1, TurnsClosed
    <3>5. Kept(<<>>, output, <<>>) BY <2>2, <3>1, <3>2, <3>3, KeptBesides
    <3>6. CallsKnown(output, {}) BY <2>2, <3>1 DEF CallsKnown
    <3>7. AllHome(policy, <<>>, output) BY EmptyFacts DEF AllHome
    <3>8. QED BY <3>4, <3>5, <3>6, <3>7 DEF Fine
  <2>3. QED BY <2>1, <2>2 DEF PairingInit
<1>5. OpenIds = {} BY <1>1, <1>2 DEF OpenIds
<1>6. DOMAIN consumed = {} BY <1>1, EmptyFacts
<1>7. QED BY <1>1, <1>2, <1>3, <1>4, <1>5, <1>6, EmptyFacts DEF PairingInv

LEMMA IncomingFacts ==
    ASSUME NEW message \in Incoming
    PROVE  /\ message.role \in {"system", "user", "assistant", "tool"}
           /\ message.role = "assistant" => IsSeq(message.calls)
<1>1. \A calls \in CallLists : IsSeq(calls) BY PairingAssumption DEF IsSeq
<1>2. QED BY <1>1 DEF Incoming, Message

LEMMA SystemKeeps ==
    ASSUME PairingInv, mapping = "going", UNCHANGED <<policy, hasSystem>>,
           NEW message \in Incoming, MapSystem(message)
    PROVE  PairingInv'
<1>1. /\ message.role = "system" /\ policy.sort /\ input' = Append(input, message)
      /\ UNCHANGED <<output, pending, consumed, allIDs, mapping>> /\ policy' = policy
  BY DEF MapSystem
<1>2. /\ IsSeq(input) /\ Fine(policy, input, output, consumed, allIDs, OpenIds)
      /\ AllWaiting(policy, input, output, pending, consumed)
  BY DEF PairingInv
<1>3. message.role # "tool" /\ message.role # "assistant" BY <1>1
<1>4. Fine(policy, Append(input, message), output, consumed, allIDs, OpenIds)
  BY <1>2, <1>3, NotSent
<1>5. AllWaiting(policy, Append(input, message), output, pending, consumed)
  BY <1>2, <1>3, WaitingContinued
<1>6. IsSeq(input') BY <1>1, <1>2, AppendFacts
<1>7. OpenIds' = OpenIds BY <1>1 DEF OpenIds
<1>8. Fine(policy', input', output', consumed', allIDs', OpenIds') BY <1>1, <1>4, <1>7
<1>9. AllWaiting(policy', input', output', pending', consumed') BY <1>1, <1>5
<1>10. QED BY <1>1, <1>6, <1>8, <1>9 DEF PairingInv

LEMMA RefusalKeeps ==
    ASSUME PairingInv, NEW message, RefuseChat(message)
    PROVE  PairingInv'
<1>1. /\ mapping' = "refused" /\ input' = Append(input, message)
      /\ UNCHANGED <<output, pending, consumed, allIDs>>
  BY DEF RefuseChat
<1>2. IsSeq(input') BY <1>1, AppendFacts DEF PairingInv
<1>3. QED BY <1>1, <1>2 DEF PairingInv

LEMMA TextKeeps ==
    ASSUME PairingInv, mapping = "going", UNCHANGED <<policy, hasSystem>>,
           NEW message \in Incoming, MapText(message), ~message.malformed
    PROVE  PairingInv'
<1> DEFINE m == Plain(message.role, Len(input) + 1)
           out == output \o Flushed
<1>1. /\ message.role = "user" \/ (message.role = "system" /\ ~policy.sort)
      /\ output' = output \o Append(Flushed, m) /\ pending' = <<>>
      /\ input' = Append(input, message)
      /\ UNCHANGED <<consumed, allIDs, mapping>> /\ policy' = policy
  BY DEF MapText
<1>2. /\ IsSeq(input) /\ IsSeq(pending) /\ Distinct(pending)
      /\ Fine(policy, input, output, consumed, allIDs, OpenIds)
  BY DEF PairingInv
<1>3. IsSeq(Flushed) /\ Fine(policy, input, out, consumed, allIDs, {}) BY <1>2, FlushCloses
<1>4. m.role = message.role /\ m.from = Len(input) + 1 BY DEF Plain, Outgoing
<1>5. message.role # "tool" /\ message.role # "assistant" BY <1>1
<1> HIDE DEF m
<1>6. output' = Append(out, m) BY <1>1, <1>2, <1>3, JoinAppend DEF Fine, Turns
<1> HIDE DEF out
<1>7. Turns(policy, Append(out, m), {})
  <2>1. Turns(policy, out, {}) BY <1>3 DEF Fine
  <2>2. QED BY <1>4, <1>5, <2>1, TurnsClosed
<1>8. Fine(policy, Append(input, message), Append(out, m), consumed, allIDs, {})
  <2>1. m.role \in {"system", "user", "assistant", "tool"} BY <1>1, <1>4
  <2>2. QED BY <1>3, <1>4, <1>5, <1>7, <2>1, SentOn
<1>9. AllWaiting(policy, Append(input, message), output', <<>>, consumed)
  <2>1. ~(message.role = "system" /\ policy.sort) BY <1>1
  <2>2. QED BY <1>2, <1>5, <2>1, WaitingBegun
<1>10. OpenIds' = {} /\ Distinct(pending') /\ IdsOf(pending') = {} /\ IsSeq(pending')
  BY <1>1, EmptyFacts DEF OpenIds, IdsOf, Distinct
<1>11. IsSeq(input') BY <1>1, <1>2, AppendFacts
<1>12. Fine(policy', input', output', consumed', allIDs', OpenIds') BY <1>1, <1>6, <1>8, <1>10
<1>13. AllWaiting(policy', input', output', pending', consumed') BY <1>1, <1>9
<1>14. QED BY <1>1, <1>10, <1>11, <1>12, <1>13 DEF PairingInv

LEMMA AssistantKeeps ==
    ASSUME PairingInv, mapping = "going", UNCHANGED <<policy, hasSystem>>,
           NEW message \in Incoming, MapAssistant(message), ~message.malformed,
           IdsAreNew(WithIds(message.calls, Len(input) + 1))
    PROVE  PairingInv'
<1> DEFINE index == Len(input) + 1
           calls == WithIds(message.calls, index)
           m == Outgoing("assistant", NoId, "text", index, calls)
           out == output \o Flushed
<1>1. /\ message.role = "assistant"
      /\ output' = output \o Append(Flushed, m) /\ pending' = calls
      /\ allIDs' = allIDs \cup {calls[k].id : k \in DOMAIN calls}
      /\ input' = Append(input, message)
      /\ UNCHANGED <<consumed, mapping>> /\ policy' = policy
  BY DEF MapAssistant
<1>2. /\ IsSeq(input) /\ IsSeq(pending) /\ Distinct(pending) /\ DOMAIN consumed \subseteq allIDs
      /\ Fine(policy, input, output, consumed, allIDs, OpenIds)
  BY DEF PairingInv
<1>3. IsSeq(calls) /\ Distinct(calls) /\ IdsOf(calls) \cap allIDs = {}
  <2>1. IsSeq(message.calls) BY <1>1, IncomingFacts
  <2>2. QED BY <2>1, WithIdsFacts
<1>4. IsSeq(Flushed) /\ Fine(policy, input, out, consumed, allIDs, {}) BY <1>2, FlushCloses
<1>5. m.role = "assistant" /\ m.from = index /\ m.calls = calls BY DEF Outgoing
<1>6. allIDs' = allIDs \cup IdsOf(calls) BY <1>1 DEF IdsOf
<1> HIDE DEF m, calls
<1>7. output' = Append(out, m) BY <1>1, <1>2, <1>4, JoinAppend DEF Fine, Turns
<1> HIDE DEF out
<1>8. Turns(policy, Append(out, m), IdsOf(calls))
  <2>1. Turns(policy, out, {}) BY <1>4 DEF Fine
  <2>2. \A p \in DOMAIN out : out[p].role = "assistant" => IdsOf(out[p].calls) \cap IdsOf(m.calls) = {}
    BY <1>3, <1>4, <1>5 DEF Fine, CallsKnown
  <2>3. m.role # "tool" /\ m.role = "assistant" /\ IsSeq(m.calls) /\ Distinct(m.calls)
        /\ IdsOf(calls) = IdsOf(m.calls)
    BY <1>3, <1>5
  <2>4. QED BY <2>1, <2>2, <2>3, TurnsClosed
<1>9. Fine(policy, Append(input, message), Append(out, m), consumed, allIDs', IdsOf(calls))
  <2>1. message.role # "tool" BY <1>1
  <2>2. allIDs \subseteq allIDs' /\ IdsOf(m.calls) \subseteq allIDs' BY <1>5, <1>6
  <2>3. m.role \in {"system", "user", "assistant", "tool"} /\ m.from = Len(input) + 1
    BY <1>5
  <2> DEFINE more == allIDs'
  <2> HIDE DEF more
  <2>4. allIDs \subseteq more /\ IdsOf(m.calls) \subseteq more BY <2>2 DEF more
  <2>5. Fine(policy, Append(input, message), Append(out, m), consumed, more, IdsOf(calls))
    BY <1>4, <1>8, <2>1, <2>3, <2>4, SentOn
  <2>6. QED BY <2>5 DEF more
<1>10. AllWaiting(policy, Append(input, message), output', calls, consumed)
  <2>1. message.role # "tool" /\ message.role # "system" BY <1>1
  <2>2. calls = WithIds(message.calls, Len(input) + 1) BY DEF calls
  <2>3. IdsOf(calls) \cap DOMAIN consumed = {} BY <1>2, <1>3
  <2>4. QED BY <1>2, <2>1, <2>2, <2>3, WaitingBegun
<1>11. OpenIds' = IdsOf(calls)
  <2>1. IdsOf(calls) \ DOMAIN consumed = IdsOf(calls) BY <1>2, <1>3
  <2>2. IdsOf(pending)' = IdsOf(calls) BY <1>1 DEF IdsOf
  <2>3. OpenIds' = IdsOf(pending)' \ DOMAIN consumed' BY DEF OpenIds
  <2>4. QED BY <1>1, <2>1, <2>2, <2>3
<1>12. IsSeq(input') BY <1>1, <1>2, AppendFacts
<1>13. Fine(policy', input', output', consumed', allIDs', OpenIds') BY <1>1, <1>7, <1>9, <1>11
<1>14. AllWaiting(policy', input', output', pending', consumed') BY <1>1, <1>10
<1>15. IsSeq(pending') /\ Distinct(pending') /\ IdsOf(pending') \subseteq allIDs'
       /\ DOMAIN consumed' \subseteq allIDs'
  BY <1>1, <1>2, <1>3, <1>6
<1>16. QED BY <1>1, <1>12, <1>13, <1>14, <1>15 DEF PairingInv

\* A result behind a turn finds the turn's calls, less those that were taken.
LEMMA ChoiceBelongs ==
    ASSUME PairingInv, mapping = "going", NEW message, NEW sent, NEW p \in DOMAIN input,
           input[p].role = "assistant", Behind(policy, input, p, Len(input)),
           \/ Chosen(message) = 0 /\ sent.role = "user"
           \/ /\ Chosen(message) # 0 /\ sent.role = "tool"
              /\ sent.id = pending[Chosen(message)].id
    PROVE  Belongs(message, WithIds(input[p].calls, p), sent, TakenIn(output, p, Len(input) + 1))
<1> DEFINE taken == TakenIn(output, p, Len(input) + 1)
           i == Chosen(message)
<1>1. /\ IsSeq(pending) /\ Distinct(pending)
      /\ AllWaiting(policy, input, output, pending, consumed)
  BY DEF PairingInv
<1>2. pending = WithIds(input[p].calls, p) /\ IdsOf(pending) \cap DOMAIN consumed \subseteq taken
  BY <1>1 DEF AllWaiting
<1>3. DOMAIN pending = 1 .. Len(pending) BY <1>1, SeqFacts
<1>4. /\ i # 0 => i \in Open /\ \A h \in Open : ~Rather(message, pending, h, i)
      /\ i = 0 => Open = {}
  BY <1>1, Choice
<1> HIDE DEF taken, i
<1>5. \A h \in DOMAIN pending : h \in Open \/ pending[h].id \in taken
  BY <1>2, <1>3 DEF Open, Free, IdsOf
<1>6. Belongs(message, pending, sent, taken)
  <2>1. CASE i = 0
    <3>1. IdsOf(pending) \subseteq taken BY <1>4, <1>5, <2>1 DEF IdsOf
    <3>2. QED BY <2>1, <3>1 DEF Belongs, i
  <2>2. CASE i # 0
    <3>1. i \in DOMAIN pending BY <1>3, <1>4, <2>2 DEF Open
    <3>2. \A h \in DOMAIN pending : Rather(message, pending, h, i) => pending[h].id \in taken
      BY <1>4, <1>5, <2>2
    <3>3. sent.role = "tool" /\ sent.id = pending[i].id BY <2>2 DEF i
    <3>4. QED BY <3>1, <3>2, <3>3 DEF Belongs
  <2>3. QED BY <2>1, <2>2
<1>7. QED BY <1>2, <1>6 DEF taken

LEMMA DropKeeps ==
    ASSUME PairingInv, mapping = "going", UNCHANGED <<policy, hasSystem>>,
           NEW message \in Incoming, DropRepeated(message)
    PROVE  PairingInv'
<1>1. /\ message.role = "tool" /\ Repeats(message) /\ input' = Append(input, message)
      /\ UNCHANGED <<output, pending, consumed, allIDs, mapping>> /\ policy' = policy
  BY DEF DropRepeated
<1>2. /\ IsSeq(input) /\ Fine(policy, input, output, consumed, allIDs, OpenIds)
      /\ AllWaiting(policy, input, output, pending, consumed)
  BY DEF PairingInv
<1>3. message.id \in DOMAIN consumed /\ consumed[message.id] = message.content
  BY <1>1 DEF Repeats
<1>4. Fine(policy, Append(input, message), output, consumed, allIDs, OpenIds)
  BY <1>2, <1>3, NotSent
<1>5. AllWaiting(policy, Append(input, message), output, pending, consumed)
  <2>1. message.role # "assistant" BY <1>1
  <2>2. QED BY <1>2, <2>1, WaitingContinued
<1>6. IsSeq(input') BY <1>1, <1>2, AppendFacts
<1>7. OpenIds' = OpenIds BY <1>1 DEF OpenIds
<1>8. Fine(policy', input', output', consumed', allIDs', OpenIds') BY <1>1, <1>4, <1>7
<1>9. AllWaiting(policy', input', output', pending', consumed') BY <1>1, <1>5
<1>10. QED BY <1>1, <1>6, <1>8, <1>9 DEF PairingInv

LEMMA OrphanKeeps ==
    ASSUME PairingInv, mapping = "going", UNCHANGED <<policy, hasSystem>>,
           NEW message \in Incoming, MapOrphan(message), ~policy.orphanError
    PROVE  PairingInv'
<1> DEFINE m == Outgoing("user", NoId, message.content, Len(input) + 1, <<>>)
<1>1. /\ message.role = "tool" /\ Chosen(message) = 0
      /\ output' = Append(output, m) /\ input' = Append(input, message)
      /\ UNCHANGED <<pending, consumed, allIDs, mapping>> /\ policy' = policy
  BY DEF MapOrphan
<1>2. /\ IsSeq(input) /\ IsSeq(pending) /\ Distinct(pending) /\ IsSeq(output)
      /\ Fine(policy, input, output, consumed, allIDs, OpenIds)
      /\ AllWaiting(policy, input, output, pending, consumed)
  BY DEF PairingInv, Fine, Kept
<1>3. OpenIds = {}
  <2>1. Open = {} BY <1>1, <1>2, Choice
  <2>2. DOMAIN pending = 1 .. Len(pending) BY <1>2, SeqFacts
  <2>3. QED BY <2>1, <2>2 DEF Open, OpenIds, Free, IdsOf
<1>4. m.role = "user" /\ m.from = Len(input) + 1 /\ m.content = message.content
  BY DEF Outgoing
<1> HIDE DEF m
<1>5. Turns(policy, Append(output, m), {})
  <2>1. Turns(policy, output, {}) BY <1>2, <1>3 DEF Fine
  <2>2. m.role # "tool" /\ m.role # "assistant" BY <1>4
  <2>3. QED BY <2>1, <2>2, TurnsClosed
<1>6. ASSUME NEW p \in DOMAIN input, input[p].role = "assistant",
             Behind(policy, input, p, Len(input))
      PROVE  Belongs(message, WithIds(input[p].calls, p), m, TakenIn(output, p, Len(input) + 1))
  BY <1>1, <1>4, <1>6, ChoiceBelongs
<1>7. Fine(policy, Append(input, message), Append(output, m), consumed, allIDs, {})
  <2>1. m.role \in {"system", "user", "assistant", "tool"} /\ m.role # "assistant" BY <1>4
  <2>2. QED BY <1>2, <1>4, <1>5, <1>6, <2>1, SentOn
<1>8. AllWaiting(policy, Append(input, message), Append(output, m), pending, consumed)
  <2>1. message.role # "assistant" BY <1>1
  <2>2. \A q \in DOMAIN output :
          q \in DOMAIN Append(output, m) /\ Append(output, m)[q] = output[q]
    BY <1>2, AppendFacts, SeqFacts
  <2>3. QED BY <1>2, <2>1, <2>2, WaitingContinued
<1>9. IsSeq(input') BY <1>1, <1>2, AppendFacts
<1>10. OpenIds' = {} BY <1>1, <1>3 DEF OpenIds
<1>11. Fine(policy', input', output', consumed', allIDs', OpenIds') BY <1>1, <1>7, <1>10
<1>12. AllWaiting(policy', input', output', pending', consumed') BY <1>1, <1>8
<1>13. QED BY <1>1, <1>9, <1>11, <1>12 DEF PairingInv

LEMMA ResultKeeps ==
    ASSUME PairingInv, mapping = "going", UNCHANGED <<policy, hasSystem>>,
           NEW message \in Incoming, MapResult(message)
    PROVE  PairingInv'
<1> DEFINE id == pending[Chosen(message)].id
           m == Outgoing("tool", id, message.content, Len(input) + 1, <<>>)
           next == [x \in DOMAIN consumed \cup {id} |->
                        IF x = id THEN message.content ELSE consumed[x]]
<1>1. /\ message.role = "tool" /\ Chosen(message) # 0
      /\ output' = Append(output, m) /\ consumed' = next /\ input' = Append(input, message)
      /\ UNCHANGED <<pending, allIDs, mapping>> /\ policy' = policy
  BY DEF MapResult
<1>2. /\ IsSeq(input) /\ IsSeq(pending) /\ Distinct(pending) /\ IsSeq(output)
      /\ Fine(policy, input, output, consumed, allIDs, OpenIds)
      /\ AllWaiting(policy, input, output, pending, consumed)
      /\ IdsOf(pending) \subseteq allIDs /\ DOMAIN consumed \subseteq allIDs
  BY DEF PairingInv, Fine, Kept
<1>3. id \in OpenIds
  <2>1. Chosen(message) \in Open BY <1>1, <1>2, Choice
  <2>2. DOMAIN pending = 1 .. Len(pending) BY <1>2, SeqFacts
  <2>3. QED BY <2>1, <2>2 DEF Open, OpenIds, Free, IdsOf
<1>4. /\ m.role = "tool" /\ m.id = id /\ m.from = Len(input) + 1
      /\ m.content = message.content
  BY DEF Outgoing
<1>5. /\ DOMAIN next = DOMAIN consumed \cup {id} /\ next[id] = m.content
      /\ \A x \in DOMAIN consumed : x # id => next[x] = consumed[x]
  BY <1>4
<1> HIDE DEF m, next
<1>6. ASSUME NEW p \in DOMAIN input, input[p].role = "assistant",
             Behind(policy, input, p, Len(input))
      PROVE  Belongs(message, WithIds(input[p].calls, p), m, TakenIn(output, p, Len(input) + 1))
  BY <1>1, <1>4, <1>6, ChoiceBelongs
<1> HIDE DEF id
<1>7. Turns(policy, Append(output, m), OpenIds \ {id})
  <2>1. Turns(policy, output, OpenIds) BY <1>2 DEF Fine
  <2>2. QED BY <1>3, <1>4, <2>1, TurnsContinued
<1>8. Fine(policy, Append(input, message), Append(output, m), next, allIDs, OpenIds \ {id})
  <2>1. m.role \in {"system", "user", "assistant", "tool"} /\ m.role # "assistant" BY <1>4
  <2>2. \A x \in DOMAIN next :
          \/ x = m.id /\ next[x] = m.content
          \/ x \in DOMAIN consumed /\ next[x] = consumed[x]
    BY <1>4, <1>5
  <2>3. \A p \in DOMAIN input :
          message.role = "tool" /\ input[p].role = "assistant" /\ Behind(policy, input, p, Len(input))
          => Belongs(message, WithIds(input[p].calls, p), m, TakenIn(output, p, Len(input) + 1))
    BY <1>6
  <2>4. m.from = Len(input) + 1 /\ (message.role = "tool" => m.content = message.content)
    BY <1>4
  <2>5. QED BY <1>2, <1>7, <2>1, <2>2, <2>3, <2>4, SentOn
<1>9. AllWaiting(policy, Append(input, message), Append(output, m), pending, next)
  <2> DEFINE new == Append(output, m)
             last == Len(output) + 1
  <2>1. message.role # "assistant" BY <1>1
  <2>2. /\ \A q \in DOMAIN output : q \in DOMAIN new /\ new[q] = output[q]
        /\ last \in DOMAIN new /\ new[last] = m
    <3>1. Len(output) \in Nat /\ DOMAIN output = 1 .. Len(output) BY <1>2, SeqFacts
    <3>2. /\ DOMAIN new = 1 .. last /\ new[last] = m /\ \A k \in 1 .. Len(output) : new[k] = output[k]
      BY <1>2, AppendFacts
    <3>3. QED BY <3>1, <3>2
  <2> HIDE DEF new, last
  <2>3. \A x \in DOMAIN next : x \in DOMAIN consumed \/ \E q \in DOMAIN new :
          new[q].role = "tool" /\ new[q].id = x /\ new[q].from = Len(input) + 1
    BY <1>4, <1>5, <2>2
  <2>4. AllWaiting(policy, Append(input, message), new, pending, next)
    BY <1>2, <2>1, <2>2, <2>3, WaitingContinued
  <2>5. QED BY <2>4 DEF new
<1>10. IsSeq(input') BY <1>1, <1>2, AppendFacts
<1>11. OpenIds' = OpenIds \ {id} BY <1>1, <1>5 DEF OpenIds
<1>12. Fine(policy', input', output', consumed', allIDs', OpenIds') BY <1>1, <1>8, <1>11
<1>13. AllWaiting(policy', input', output', pending', consumed') BY <1>1, <1>9
<1>14. DOMAIN consumed' \subseteq allIDs' BY <1>1, <1>2, <1>3, <1>5 DEF OpenIds
<1>15. QED BY <1>1, <1>10, <1>12, <1>13, <1>14 DEF PairingInv

LEMMA FinishKeeps ==
    ASSUME PairingInv, FinishMapping
    PROVE  PairingInv'
<1>1. /\ mapping = "going" /\ mapping' = "done"
      /\ output' = output \o Flushed /\ pending' = <<>>
      /\ UNCHANGED <<policy, input, consumed, allIDs>>
  BY DEF FinishMapping
<1>2. Fine(policy, input, output \o Flushed, consumed, allIDs, {})
  BY <1>1, FlushCloses DEF PairingInv
<1>3. OpenIds' = {} /\ Distinct(pending') /\ IdsOf(pending') = {} /\ IsSeq(pending')
  BY <1>1, EmptyFacts DEF OpenIds, IdsOf, Distinct
<1>4. Fine(policy', input', output', consumed', allIDs', OpenIds') BY <1>1, <1>2, <1>3
<1>5. QED BY <1>1, <1>3, <1>4 DEF PairingInv

LEMMA PairingKeeps == PairingInv /\ [PairingNext]_pairingVars => PairingInv'
<1> SUFFICES ASSUME PairingInv, [PairingNext]_pairingVars PROVE PairingInv'
  OBVIOUS
<1>1. CASE MapMessage
  <2>1. mapping = "going" /\ UNCHANGED <<policy, hasSystem>> BY <1>1 DEF MapMessage
  <2>2. PICK message \in Incoming :
          \/ MapSystem(message) \/ MapText(message) \/ MapAssistant(message)
          \/ DropRepeated(message) \/ MapResult(message) \/ MapOrphan(message)
    BY <1>1 DEF MapMessage
  <2>3. CASE MapSystem(message) BY <2>1, <2>3, SystemKeeps
  <2>4. CASE MapText(message)
    <3>1. CASE message.malformed BY <2>4, <3>1, RefusalKeeps DEF MapText
    <3>2. CASE ~message.malformed BY <2>1, <2>4, <3>2, TextKeeps
    <3>3. QED BY <3>1, <3>2
  <2>5. CASE MapAssistant(message)
    <3> DEFINE taken == ~IdsAreNew(WithIds(message.calls, Len(input) + 1))
    <3>1. CASE message.malformed \/ taken BY <2>5, <3>1, RefusalKeeps DEF MapAssistant
    <3>2. CASE ~(message.malformed \/ taken) BY <2>1, <2>5, <3>2, AssistantKeeps
    <3>3. QED BY <3>1, <3>2
  <2>6. CASE DropRepeated(message) BY <2>1, <2>6, DropKeeps
  <2>7. CASE MapResult(message) BY <2>1, <2>7, ResultKeeps
  <2>8. CASE MapOrphan(message)
    <3>1. CASE policy.orphanError BY <2>8, <3>1, RefusalKeeps DEF MapOrphan
    <3>2. CASE ~policy.orphanError BY <2>1, <2>8, <3>2, OrphanKeeps
    <3>3. QED BY <3>1, <3>2
  <2>9. QED BY <2>2, <2>3, <2>4, <2>5, <2>6, <2>7, <2>8
<1>2. CASE FinishMapping BY <1>2, FinishKeeps
<1>3. CASE UNCHANGED pairingVars
  <2>1. UNCHANGED <<policy, input, output, pending, consumed, allIDs, mapping>>
    BY <1>3 DEF pairingVars
  <2>2. OpenIds' = OpenIds BY <2>1 DEF OpenIds
  <2>3. QED BY <2>1, <2>2 DEF PairingInv
<1>4. QED BY <1>1, <1>2, <1>3 DEF PairingNext
----------------------------------------------------------------------------
(* What the mapping promises                                                *)

LEMMA OneAnswerEach ==
    ASSUME NEW pol, NEW out, NEW p \in DOMAIN out, TurnFits(pol, out, p, {}), pol.synthesize
    PROVE  Cardinality(AnswersIn(out, p)) = Len(out[p].calls)
<1> DEFINE calls == out[p].calls
           A == AnswersIn(out, p)
           f == [k \in 1 .. Len(calls) |-> CHOOSE q \in A : out[q].id = calls[k].id]
<1>1. /\ Len(calls) \in Nat /\ DOMAIN calls = 1 .. Len(calls) /\ Distinct(calls)
      /\ \A q \in A : out[q].id \in IdsOf(calls)
      /\ \A q, r \in A : out[q].id = out[r].id => q = r
      /\ \A id \in IdsOf(calls) : \E q \in A : out[q].id = id
  BY SeqFacts DEF TurnFits
<1> HIDE DEF A, calls
<1>2. \A k \in 1 .. Len(calls) : f[k] \in A /\ out[f[k]].id = calls[k].id
  <2> TAKE k \in 1 .. Len(calls)
  <2>1. \E q \in A : out[q].id = calls[k].id BY <1>1 DEF IdsOf
  <2>2. QED BY <2>1
<1>3. f \in [1 .. Len(calls) -> A] BY <1>2
<1> HIDE DEF f
<1>4. \A j, k \in 1 .. Len(calls) : f[j] = f[k] => j = k
  BY <1>1, <1>2 DEF Distinct
<1>5. \A q \in A : \E k \in 1 .. Len(calls) : f[k] = q
  <2> TAKE q \in A
  <2>1. PICK k \in 1 .. Len(calls) : calls[k].id = out[q].id BY <1>1 DEF IdsOf
  <2>2. f[k] = q BY <1>1, <1>2, <2>1
  <2>3. QED BY <2>2
<1>6. ExistsBijection(1 .. Len(calls), A)
  <2>1. f \in Bijection(1 .. Len(calls), A)
    BY <1>3, <1>4, <1>5 DEF Bijection, Injection, Surjection, IsInjective
  <2>2. QED BY <2>1 DEF ExistsBijection
<1>7. QED BY <1>1, <1>6, FS_CountingElements DEF A, calls

LEMMA PairingShows == PairingInv => CallsAnswered
<1> SUFFICES ASSUME PairingInv, mapping = "done"
             PROVE  TurnsAnswered /\ ResultsKept /\ ResultsGoHome
  BY DEF CallsAnswered
<1>1. IsSeq(input) /\ Fine(policy, input, output, consumed, allIDs, {})
  <2>1. pending = <<>> BY DEF PairingInv
  <2>2. OpenIds = {} BY <2>1, EmptyFacts DEF OpenIds, IdsOf
  <2>3. QED BY <2>2 DEF PairingInv
<1>2. DOMAIN input = 1 .. Len(input) /\ Len(input) \in Nat BY <1>1, SeqFacts
<1>3. TurnsAnswered
  <2>1. Turns(policy, output, {}) BY <1>1 DEF Fine
  <2>2. ASSUME NEW p \in DOMAIN output, output[p].role = "assistant"
        PROVE  /\ \A q \in AnswersAfter(p) : output[q].id \in IdsOf(output[p].calls)
               /\ \A q, r \in AnswersAfter(p) : output[q].id = output[r].id => q = r
               /\ policy.synthesize => Cardinality(AnswersAfter(p)) = Len(output[p].calls)
    <3>1. TurnFits(policy, output, p, {}) BY <2>1, <2>2 DEF Turns
    <3>2. AnswersAfter(p) = AnswersIn(output, p) BY DEF AnswersAfter, AnswersIn
    <3>3. policy.synthesize => Cardinality(AnswersIn(output, p)) = Len(output[p].calls)
      BY <3>1, OneAnswerEach
    <3>4. QED BY <3>1, <3>2, <3>3 DEF TurnFits
  <2>3. \A q \in DOMAIN output : output[q].role = "tool" =>
          q > 1 /\ output[q - 1].role \in {"assistant", "tool"}
    BY <2>1 DEF Turns
  <2>4. QED BY <2>2, <2>3 DEF TurnsAnswered
<1>4. ResultsKept
  <2>1. Kept(input, output, consumed) BY <1>1 DEF Fine
  <2>2. ASSUME NEW k \in DOMAIN input, input[k].role = "tool"
        PROVE  LET sent == {q \in DOMAIN output : output[q].from = k}
               IN  \/ Cardinality(sent) = 1 /\ \A q \in sent : output[q].content = input[k].content
                   \/ /\ sent = {}
                      /\ \E q \in DOMAIN output :
                           /\ output[q].from \in 1 .. k - 1
                           /\ output[q].id = input[k].id /\ output[q].content = input[k].content
    <3> DEFINE sent == {q \in DOMAIN output : output[q].from = k}
    <3>1. sent = SentOf(output, k) /\ ResultKept(input, output, k)
      BY <2>1, <2>2 DEF Kept, SentOf
    <3> HIDE DEF sent
    <3>2. CASE /\ \E q \in sent : output[q].content = input[k].content
               /\ \A q, r \in sent : q = r
      <4>1. PICK q \in sent : output[q].content = input[k].content BY <3>2
      <4>2. sent = {q} BY <3>2, <4>1
      <4>3. Cardinality(sent) = 1 BY <4>2, FS_Singleton
      <4>4. QED BY <4>1, <4>2, <4>3 DEF sent
    <3>3. CASE sent = {} /\ SaidBefore(input, output, k) BY <3>3 DEF SaidBefore, sent
    <3>4. QED BY <3>1, <3>2, <3>3 DEF ResultKept
  <2>3. QED BY <2>1, <2>2 DEF ResultsKept, Kept
<1>5. ResultsGoHome
  <2>1. AllHome(policy, input, output) BY <1>1 DEF Fine
  <2>2. \A p \in DOMAIN input : ResultsAfter(p) = Following(policy, input, p)
    BY DEF ResultsAfter, Following, Behind
  <2>3. \A p, k : TakenBefore(p, k) = TakenIn(output, p, k) BY DEF TakenBefore, TakenIn
  <2>4. QED BY <2>1, <2>2, <2>3 DEF AllHome, ResultsGoHome
<1>6. QED BY <1>3, <1>4, <1>5

\* Whatever a client sends, in whatever order, and under every policy: when the
\* mapping is done each turn's calls are answered right after it, at most once and,
\* where missing results are made up, exactly once; every result of the client is
\* sent once, in its order, or is the same that its call was answered with before;
\* and each goes to the call it belongs to by id, name and place, of those that the
\* results before it left open.
THEOREM CallsAreAnswered == PairingSpec => []CallsAnswered
<1>1. PairingInit => PairingInv BY PairingStarts
<1>2. PairingInv /\ [PairingNext]_pairingVars => PairingInv' BY PairingKeeps
<1>3. PairingInv => CallsAnswered BY PairingShows
<1>4. QED BY <1>1, <1>2, <1>3, PTL DEF PairingSpec

(* Types *)

OutgoingOK(out, n) == \A k \in DOMAIN out :
    /\ out[k].role \in {"system", "user", "assistant", "tool"}
    /\ out[k].from \in 0 .. n
PairingTypes ==
    /\ PairingInv /\ policy \in Policies /\ hasSystem \in BOOLEAN
    /\ Len(input) <= MaxMessages /\ OutgoingOK(output, Len(input))

\* What has gone out in order has its types; a refusal takes one message more.
LEMMA FineTypes ==
    ASSUME NEW pol, NEW in, NEW out, NEW said, NEW ids, NEW open,
           Fine(pol, in, out, said, ids, open)
    PROVE  OutgoingOK(out, Len(in))
BY DEF Fine, Kept, CallsKnown, OutgoingOK

LEMMA StepTypes ==
    ASSUME PairingTypes, PairingInv', UNCHANGED <<policy, hasSystem>>,
           Len(input') <= MaxMessages,
           mapping' = "refused" => output' = output /\ Len(input') = Len(input) + 1
    PROVE  PairingTypes'
<1>1. OutgoingOK(output', Len(input'))
  <2>1. CASE mapping' # "refused"
    <3>1. Fine(policy', input', output', consumed', allIDs', OpenIds') BY <2>1 DEF PairingInv
    <3>2. QED BY <3>1, FineTypes
  <2>2. CASE mapping' = "refused"
    <3>1. OutgoingOK(output, Len(input)) /\ Len(input) \in Nat
      BY SeqFacts DEF PairingTypes, PairingInv
    <3>2. \A n \in Nat : OutgoingOK(output, n) => OutgoingOK(output, n + 1)
      <4>1. \A n \in Nat : 0 .. n \subseteq 0 .. n + 1 OBVIOUS
      <4>2. QED BY <4>1 DEF OutgoingOK
    <3>3. QED BY <2>2, <3>1, <3>2
  <2>3. QED BY <2>1, <2>2
<1>2. policy' \in Policies /\ hasSystem' \in BOOLEAN BY DEF PairingTypes
<1>3. QED BY <1>1, <1>2 DEF PairingTypes

LEMMA PairingTyped == PairingTypes /\ [PairingNext]_pairingVars => PairingTypes'
<1> SUFFICES ASSUME PairingTypes, [PairingNext]_pairingVars PROVE PairingTypes'
  OBVIOUS
<1>1. PairingInv' BY PairingKeeps DEF PairingTypes
<1>2. IsSeq(input) /\ Len(input) \in Nat /\ Len(input) <= MaxMessages /\ MaxMessages \in Nat
  BY SeqFacts, PairingAssumption DEF PairingTypes, PairingInv
<1>3. CASE MapMessage
  <2>1. PICK message \in Incoming :
          \/ MapSystem(message) \/ MapText(message) \/ MapAssistant(message)
          \/ DropRepeated(message) \/ MapResult(message) \/ MapOrphan(message)
    BY <1>3 DEF MapMessage
  <2>2. mapping = "going" /\ Len(input) < MaxMessages /\ UNCHANGED <<policy, hasSystem>>
    BY <1>3 DEF MapMessage
  <2>3. /\ input' = Append(input, message)
        /\ RefuseChat(message) \/ mapping' = mapping
    BY <2>1 DEF MapSystem, MapText, MapAssistant, DropRepeated, MapResult, MapOrphan, RefuseChat
  <2>4. Len(input') = Len(input) + 1 BY <1>2, <2>3, AppendFacts
  <2>5. Len(input') <= MaxMessages BY <1>2, <2>2, <2>4
  <2>6. mapping' = "refused" => output' = output BY <2>2, <2>3 DEF RefuseChat
  <2>7. QED BY <1>1, <2>2, <2>4, <2>5, <2>6, StepTypes
<1>4. CASE FinishMapping
  <2>1. UNCHANGED <<policy, hasSystem, input>> /\ mapping' # "refused" BY <1>4 DEF FinishMapping
  <2>2. Len(input') <= MaxMessages BY <1>2, <2>1
  <2>3. QED BY <1>1, <2>1, <2>2, StepTypes
<1>5. CASE UNCHANGED pairingVars
  <2>1. UNCHANGED <<policy, hasSystem, input, output>> BY <1>5 DEF pairingVars
  <2>2. QED BY <1>1, <2>1 DEF PairingTypes
<1>6. QED BY <1>3, <1>4, <1>5 DEF PairingNext

\* For every chat and every policy: what goes out has a role and a place in what came
\* in, and every call that waits or was answered is known by its id.
THEOREM PairingTypeCorrect == PairingSpec => []PairingTypeOK
<1>1. PairingInit => PairingTypes
  <2> SUFFICES ASSUME PairingInit PROVE PairingTypes
    OBVIOUS
  <2>1. PairingInv BY PairingStarts
  <2>2. input = <<>> /\ mapping = "going" /\ policy \in Policies /\ hasSystem \in BOOLEAN
    BY DEF PairingInit
  <2>3. Len(input) <= MaxMessages BY <2>2, EmptyFacts, PairingAssumption
  <2>4. OutgoingOK(output, Len(input)) BY <2>1, <2>2, FineTypes DEF PairingInv
  <2>5. QED BY <2>1, <2>2, <2>3, <2>4 DEF PairingTypes
<1>2. PairingTypes => PairingTypeOK
  BY DEF PairingTypes, PairingInv, PairingTypeOK, OutgoingOK, IdsOf
<1>3. QED BY <1>1, <1>2, PairingTyped, PTL DEF PairingSpec
----------------------------------------------------------------------------
(***************************************************************************)
(* The body of a call (module RequestBody).  What becomes of a field       *)
(* depends on its key alone: the protected ones are the server's, then     *)
(* come the drops, then the operator's, then the client's and the alias's. *)
(***************************************************************************)

LEMMA OverFacts ==
    ASSUME NEW upper, NEW lower
    PROVE  /\ DOMAIN (upper ++ lower) = DOMAIN upper \cup DOMAIN lower
           /\ \A key \in DOMAIN upper : (upper ++ lower)[key] = upper[key]
           /\ \A key \in DOMAIN lower \ DOMAIN upper : (upper ++ lower)[key] = lower[key]
BY DEF ++

LEMMA ServerFacts ==
    ASSUME NEW keys
    PROVE  DOMAIN Server(keys) = keys /\ \A key \in keys : Server(keys)[key].from = {"server"}
BY DEF Server, Scalar

LEMMA ExtendedFacts ==
    ASSUME NEW body
    PROVE  LET extra == behavior.extra
               all == Extended(body)
           IN  /\ DOMAIN all = DOMAIN body \cup DOMAIN extra
               /\ \A key \in DOMAIN body \ DOMAIN extra : all[key] = body[key]
               /\ \A key \in DOMAIN extra \ DOMAIN body : all[key] = extra[key]
               /\ \A key \in DOMAIN extra \cap DOMAIN body : all[key] = Merged(body[key], extra[key])
<1> DEFINE extra == behavior.extra
           both == DOMAIN body \cap DOMAIN extra
           merged == [key \in both |-> Merged(body[key], extra[key])]
<1>1. Extended(body) = (merged ++ extra) ++ body BY DEF Extended
<1>2. DOMAIN merged = both /\ \A key \in both : merged[key] = Merged(body[key], extra[key])
  OBVIOUS
<1> HIDE DEF merged
<1>3. /\ DOMAIN (merged ++ extra) = DOMAIN merged \cup DOMAIN extra
      /\ \A key \in DOMAIN merged : (merged ++ extra)[key] = merged[key]
      /\ \A key \in DOMAIN extra \ DOMAIN merged : (merged ++ extra)[key] = extra[key]
  BY OverFacts
<1> DEFINE upper == merged ++ extra
<1> HIDE DEF upper
<1>4. /\ DOMAIN (upper ++ body) = DOMAIN upper \cup DOMAIN body
      /\ \A key \in DOMAIN upper : (upper ++ body)[key] = upper[key]
      /\ \A key \in DOMAIN body \ DOMAIN upper : (upper ++ body)[key] = body[key]
  BY OverFacts
<1>5. /\ DOMAIN upper = DOMAIN extra
      /\ \A key \in both : upper[key] = Merged(body[key], extra[key])
      /\ \A key \in DOMAIN extra \ both : upper[key] = extra[key]
  BY <1>2, <1>3 DEF upper
<1>6. Extended(body) = upper ++ body BY <1>1 DEF upper
<1>7. QED BY <1>4, <1>5, <1>6

Attributed == {"model"} \cup (IF upstream.forwardUser THEN {"user"} ELSE {})
Cleared == behavior.drops \cup Protected \cup Routing

LEMMA AssembledFacts ==
    ASSUME NEW body, NEW own
    PROVE  LET all == Assembled(body, own)
           IN  /\ DOMAIN all = Attributed \cup DOMAIN own
                                \cup ((DOMAIN body \cup DOMAIN behavior.extra) \ Cleared)
               /\ \A key \in Attributed : all[key].from = {"server"}
               /\ \A key \in DOMAIN own \ Attributed : all[key] = own[key]
               /\ \A key \in DOMAIN all \ (Attributed \cup DOMAIN own) : all[key] = Extended(body)[key]
<1> DEFINE kept == Without(Extended(body), Cleared)
           user == IF upstream.forwardUser THEN {"user"} ELSE {}
<1>1. Assembled(body, own) = (Server(Attributed) ++ own) ++ kept
  BY DEF Assembled, Attributed, Cleared
<1>2. /\ DOMAIN kept = (DOMAIN body \cup DOMAIN behavior.extra) \ Cleared
      /\ \A key \in DOMAIN kept : kept[key] = Extended(body)[key]
  <2>1. kept = [key \in DOMAIN Extended(body) \ Cleared |-> Extended(body)[key]]
    BY DEF Without, Restrict
  <2>2. DOMAIN Extended(body) = DOMAIN body \cup DOMAIN behavior.extra BY ExtendedFacts
  <2>3. QED BY <2>1, <2>2
<1> HIDE DEF kept
<1> DEFINE upper == Server(Attributed) ++ own
<1>3. /\ DOMAIN upper = Attributed \cup DOMAIN own
      /\ \A key \in Attributed : upper[key].from = {"server"}
      /\ \A key \in DOMAIN own \ Attributed : upper[key] = own[key]
  <2> DEFINE first == Server(Attributed)
  <2>1. DOMAIN first = Attributed /\ \A key \in Attributed : first[key].from = {"server"}
    BY ServerFacts
  <2> HIDE DEF first
  <2>2. /\ DOMAIN (first ++ own) = DOMAIN first \cup DOMAIN own
        /\ \A key \in DOMAIN first : (first ++ own)[key] = first[key]
        /\ \A key \in DOMAIN own \ DOMAIN first : (first ++ own)[key] = own[key]
    BY OverFacts
  <2>3. upper = first ++ own BY DEF first
  <2> HIDE DEF upper
  <2>4. QED BY <2>1, <2>2, <2>3
<1> HIDE DEF upper
<1>4. /\ DOMAIN (upper ++ kept) = DOMAIN upper \cup DOMAIN kept
      /\ \A key \in DOMAIN upper : (upper ++ kept)[key] = upper[key]
      /\ \A key \in DOMAIN kept \ DOMAIN upper : (upper ++ kept)[key] = kept[key]
  BY OverFacts
<1>5. Assembled(body, own) = upper ++ kept BY <1>1 DEF upper
<1>6. QED BY <1>2, <1>3, <1>4, <1>5

BodyKnown ==
    /\ ask \in Asks /\ behavior \in IF ask.kind \in Translated THEN Behaviors ELSE {Plainly}
    /\ sending \in {"asked", "refused", "translated", "sent", "rejected"}

LEMMA OptionFacts ==
    /\ \A key \in DOMAIN Options :
         key \in {"temperature", "max_tokens", "top_k", "repetition_penalty"}
    /\ \A k \in DOMAIN Upward : Upward[k] \in DOMAIN Options =>
         /\ Options[Upward[k]].from = {OptionSource(k)}
         /\ k \in DOMAIN Effective /\ OptionIsSent(k)
<1> DEFINE sent == {k \in DOMAIN Effective : OptionIsSent(k)}
           For(key) == CHOOSE k \in sent : Upward[k] = key
<1>1. Options = [key \in {Upward[k] : k \in sent} |-> Scalar(OptionSource(For(key)))]
  BY DEF Options
<1>2. /\ DOMAIN Upward = {"temperature", "num_predict", "top_k", "repeat_penalty"}
      /\ Upward["temperature"] = "temperature" /\ Upward["num_predict"] = "max_tokens"
      /\ Upward["top_k"] = "top_k" /\ Upward["repeat_penalty"] = "repetition_penalty"
  BY DEF Upward
<1>3. \A j, k \in DOMAIN Upward : Upward[j] = Upward[k] => j = k BY <1>2
<1>4. sent \subseteq DOMAIN Upward BY DEF OptionIsSent
<1>5. ASSUME NEW k \in DOMAIN Upward, Upward[k] \in DOMAIN Options
      PROVE  k \in sent /\ For(Upward[k]) = k
  <2>1. PICK j \in sent : Upward[j] = Upward[k] BY <1>1, <1>5
  <2>2. j = k BY <1>3, <1>4, <2>1
  <2>3. For(Upward[k]) \in sent /\ Upward[For(Upward[k])] = Upward[k] BY <2>1
  <2>4. QED BY <1>3, <1>4, <2>2, <2>3
<1>6. DOMAIN Options = {Upward[k] : k \in sent} BY <1>1
<1>7. ASSUME NEW key \in DOMAIN Options
      PROVE  key \in {"temperature", "max_tokens", "top_k", "repetition_penalty"}
  <2>1. PICK k \in sent : Upward[k] = key BY <1>6
  <2>2. QED BY <1>2, <1>4, <2>1
<1>8. ASSUME NEW k \in DOMAIN Upward, Upward[k] \in DOMAIN Options
      PROVE  Options[Upward[k]].from = {OptionSource(k)}
  <2>1. For(Upward[k]) = k BY <1>5, <1>8
  <2> DEFINE source == OptionSource(For(Upward[k]))
  <2>2. source = OptionSource(k) BY <2>1
  <2>3. Options[Upward[k]] = Scalar(source) BY <1>1, <1>6, <1>8
  <2> HIDE DEF source, For
  <2>4. QED BY <2>2, <2>3 DEF Scalar
<1>9. QED BY <1>5, <1>7, <1>8

\* Neither the client nor the alias gets at what is not theirs.
LEMMA ClientFacts ==
    ASSUME BodyKnown, ask.kind \in Translated
    PROVE  /\ DOMAIN ClientFields \cap (Forbidden \cup {"metadata"}) = {}
           /\ \A k \in DOMAIN Upward : Upward[k] \in DOMAIN ClientFields =>
                /\ ClientFields[Upward[k]].from = {OptionSource(k)}
                /\ k \in DOMAIN Effective /\ OptionIsSent(k)
<1>1. ask.kind \in {"chat", "completions", "embeddings"} BY DEF Translated
<1>2. \A k \in DOMAIN Upward :
        Upward[k] \in {"temperature", "max_tokens", "top_k", "repetition_penalty"}
  BY DEF Upward
<1>3. CASE ask.kind = "embeddings"
  <2>1. ClientFields = Server({"encoding_format"}) BY <1>3 DEF ClientFields
  <2>2. DOMAIN ClientFields = {"encoding_format"} BY <2>1, ServerFacts
  <2>3. QED BY <1>2, <2>2 DEF Forbidden, Routing
<1>4. CASE ask.kind = "chat"
  <2> DEFINE asked == [key \in ask.keys |-> Object("client")]
  <2>1. ClientFields = asked ++ Options BY <1>4 DEF ClientFields
  <2>2. DOMAIN asked \subseteq {"response_format"}
    BY <1>4, BodyAssumption DEF BodyKnown
  <2> HIDE DEF asked
  <2>3. /\ DOMAIN ClientFields = DOMAIN asked \cup DOMAIN Options
        /\ \A key \in DOMAIN Options \ DOMAIN asked : ClientFields[key] = Options[key]
    <3>1. /\ DOMAIN (asked ++ Options) = DOMAIN asked \cup DOMAIN Options
          /\ \A key \in DOMAIN Options \ DOMAIN asked : (asked ++ Options)[key] = Options[key]
      BY OverFacts
    <3>2. QED BY <2>1, <3>1
  <2>4. DOMAIN ClientFields \cap (Forbidden \cup {"metadata"}) = {}
    BY <2>2, <2>3, OptionFacts DEF Forbidden, Routing
  <2>5. \A k \in DOMAIN Upward : Upward[k] \in DOMAIN ClientFields =>
          Upward[k] \in DOMAIN Options \ DOMAIN asked
    BY <1>2, <2>2, <2>3
  <2>6. QED BY <2>3, <2>4, <2>5, OptionFacts
<1>5. CASE ask.kind = "completions"
  <2>1. ClientFields = Options BY <1>5 DEF ClientFields
  <2>2. DOMAIN Options \cap (Forbidden \cup {"metadata"}) = {}
    BY OptionFacts DEF Forbidden, Routing
  <2>3. QED BY <2>1, <2>2, OptionFacts
<1>6. QED BY <1>1, <1>3, <1>4, <1>5

LEMMA OwnFacts ==
    /\ \A key \in DOMAIN OwnFields : OwnFields[key].from = {"server"}
    /\ DOMAIN OwnFields \subseteq {"n", "input", "stream", "stream_options"}
    /\ ask.kind # "embeddings" =>
         "n" \in DOMAIN OwnFields /\ ("stream_options" \in DOMAIN OwnFields <=> Streams)
    /\ ask.kind = "embeddings" => DOMAIN OwnFields = {"input"}
<1>1. CASE ask.kind = "embeddings"
  <2>1. OwnFields = Server({"input"}) BY <1>1 DEF OwnFields
  <2>2. QED BY <1>1, <2>1, ServerFacts
<1>2. CASE ask.kind # "embeddings"
  <2> DEFINE keys == {"n", "input", "stream"} \cup (IF Streams THEN {"stream_options"} ELSE {})
  <2>1. OwnFields = Server(keys) BY <1>2 DEF OwnFields
  <2>2. keys \subseteq {"n", "input", "stream", "stream_options"} /\ "n" \in keys
        /\ ("stream_options" \in keys <=> Streams)
    OBVIOUS
  <2> HIDE DEF keys
  <2>3. QED BY <1>2, <2>1, <2>2, ServerFacts
<1>3. QED BY <1>1, <1>2

LEMMA AssembledOwners ==
    ASSUME BodyKnown, ask.kind \in Translated, DOMAIN behavior.extra \cap Protected = {},
           NEW all, all = Assembled(ClientFields, OwnFields)
    PROVE  /\ \A key \in Protected :
                /\ key \in DOMAIN all <=> key \in Attributed \cup DOMAIN OwnFields
                /\ key \in DOMAIN all => all[key].from = {"server"}
           /\ \A key \in DOMAIN all \ Protected :
                /\ key \in (DOMAIN ClientFields \cup DOMAIN behavior.extra) \ (behavior.drops \cup Routing)
                /\ all[key].from \subseteq
                     {"operator"} \cup (IF key \in DOMAIN ClientFields THEN ClientFields[key].from ELSE {})
           /\ \A key \in OperatorsKeys \ Routing : key \in DOMAIN all /\ "operator" \in all[key].from
<1> DEFINE extra == behavior.extra
           client == ClientFields
           own == OwnFields
<1>1. /\ DOMAIN all = Attributed \cup DOMAIN own \cup ((DOMAIN client \cup DOMAIN extra) \ Cleared)
      /\ \A key \in Attributed : all[key].from = {"server"}
      /\ \A key \in DOMAIN own \ Attributed : all[key] = own[key]
      /\ \A key \in DOMAIN all \ (Attributed \cup DOMAIN own) : all[key] = Extended(client)[key]
  <2> DEFINE made == Assembled(client, own)
  <2>1. /\ DOMAIN made = Attributed \cup DOMAIN own \cup ((DOMAIN client \cup DOMAIN extra) \ Cleared)
        /\ \A key \in Attributed : made[key].from = {"server"}
        /\ \A key \in DOMAIN own \ Attributed : made[key] = own[key]
        /\ \A key \in DOMAIN made \ (Attributed \cup DOMAIN own) :
             made[key] = Extended(client)[key]
    <3> HIDE DEF client, own
    <3>1. QED BY AssembledFacts
  <2>2. all = made OBVIOUS
  <2> HIDE DEF made, client, own
  <2>3. QED BY <2>1, <2>2
<1>2. Attributed \subseteq Protected BY DEF Attributed, Protected
<1>3. DOMAIN own \subseteq Protected /\ \A key \in DOMAIN own : own[key].from = {"server"}
  BY OwnFacts DEF Protected
<1>4. \A key \in DOMAIN extra : extra[key].from = {"operator"}
  <2>1. behavior \in Behaviors BY DEF BodyKnown
  <2>2. QED BY <2>1, BodyAssumption DEF Scalar, Object
<1>5. /\ \A key \in DOMAIN client \ DOMAIN extra : Extended(client)[key] = client[key]
      /\ \A key \in DOMAIN extra \ DOMAIN client : Extended(client)[key] = extra[key]
      /\ \A key \in DOMAIN extra \cap DOMAIN client :
           Extended(client)[key] = Merged(client[key], extra[key])
  BY ExtendedFacts
<1> HIDE DEF client, own
<1>6. \A base, update : Merged(base, update).from \in {update.from, base.from \cup update.from}
  BY DEF Merged
<1>7. ASSUME NEW key \in DOMAIN client \cup DOMAIN extra
      PROVE  /\ Extended(client)[key].from \subseteq
                  {"operator"} \cup (IF key \in DOMAIN client THEN client[key].from ELSE {})
             /\ key \in DOMAIN extra => "operator" \in Extended(client)[key].from
  <2>1. CASE key \notin DOMAIN extra BY <1>5, <2>1
  <2>2. CASE key \in DOMAIN extra \ DOMAIN client BY <1>4, <1>5, <2>2
  <2>3. CASE key \in DOMAIN extra \cap DOMAIN client
    <3> DEFINE base == client[key]
               update == extra[key]
    <3>1. Extended(client)[key] = Merged(base, update) BY <1>5, <2>3
    <3>2. update.from = {"operator"} BY <1>4, <2>3
    <3>3. Merged(base, update).from \in {update.from, base.from \cup update.from} BY <1>6
    <3>4. QED BY <2>3, <3>1, <3>2, <3>3
  <2>4. QED BY <2>1, <2>2, <2>3
<1>8. ASSUME NEW key \in Protected
      PROVE  /\ key \in DOMAIN all <=> key \in Attributed \cup DOMAIN own
             /\ key \in DOMAIN all => all[key].from = {"server"}
  <2>1. key \in Cleared BY DEF Cleared
  <2>2. key \in DOMAIN all <=> key \in Attributed \cup DOMAIN own BY <1>1, <2>1
  <2>3. QED BY <1>1, <1>3, <2>2
<1>9. ASSUME NEW key \in DOMAIN all \ Protected
      PROVE  /\ key \in (DOMAIN client \cup DOMAIN extra) \ (behavior.drops \cup Routing)
             /\ all[key].from \subseteq
                  {"operator"} \cup (IF key \in DOMAIN client THEN client[key].from ELSE {})
  <2>1. key \notin Attributed \cup DOMAIN own BY <1>2, <1>3
  <2>2. key \in (DOMAIN client \cup DOMAIN extra) \ Cleared BY <1>1, <2>1
  <2>3. all[key] = Extended(client)[key] BY <1>1, <2>1
  <2>4. QED BY <1>7, <2>2, <2>3 DEF Cleared
<1>10. ASSUME NEW key \in OperatorsKeys \ Routing
       PROVE  key \in DOMAIN all /\ "operator" \in all[key].from
  <2>1. key \in DOMAIN extra \ Cleared BY DEF OperatorsKeys, Cleared
  <2>2. key \notin Attributed \cup DOMAIN own BY <1>2, <1>3, <2>1 DEF Cleared
  <2>3. key \in DOMAIN all /\ all[key] = Extended(client)[key] BY <1>1, <2>1, <2>2
  <2>4. QED BY <1>7, <2>1, <2>3
<1>11. QED BY <1>8, <1>9, <1>10 DEF client, own

LEMMA TaggedFacts ==
    ASSUME NEW body, ~TagsFail(body), NEW tagged, tagged = Tagged(body)
    PROVE  /\ DOMAIN tagged = DOMAIN body \cup (IF upstream.tags THEN {"metadata"} ELSE {})
           /\ \A key \in DOMAIN body \ {"metadata"} : tagged[key] = body[key]
           /\ "metadata" \in DOMAIN body => body["metadata"].from \subseteq tagged["metadata"].from
           /\ "metadata" \in DOMAIN tagged => tagged["metadata"].from \subseteq
                {"server"} \cup (IF "metadata" \in DOMAIN body THEN body["metadata"].from ELSE {})
           /\ upstream.tags => "server" \in tagged["metadata"].from
<1>1. CASE ~upstream.tags
  <2>1. tagged = body BY <1>1 DEF Tagged
  <2>2. QED BY <1>1, <2>1
<1>2. CASE upstream.tags
  <2> DEFINE metadata == IF "metadata" \in DOMAIN body THEN Merged(body["metadata"], Object("server"))
                         ELSE Object("server")
             tag == [key \in {"metadata"} |-> metadata]
  <2>1. tagged = tag ++ body BY <1>2 DEF Tagged
  <2>2. /\ "server" \in metadata.from
        /\ metadata.from = {"server"} \cup (IF "metadata" \in DOMAIN body THEN body["metadata"].from ELSE {})
    <3>1. CASE "metadata" \in DOMAIN body
      <4>1. body["metadata"].object BY <1>2, <3>1 DEF TagsFail
      <4>2. Object("server").object /\ Object("server").from = {"server"} BY DEF Object
      <4>3. Merged(body["metadata"], Object("server")).from = body["metadata"].from \cup {"server"}
        BY <4>1, <4>2 DEF Merged
      <4>4. QED BY <3>1, <4>3
    <3>2. CASE "metadata" \notin DOMAIN body BY <3>2 DEF Object
    <3>3. QED BY <3>1, <3>2
  <2>3. DOMAIN tag = {"metadata"} /\ tag["metadata"] = metadata OBVIOUS
  <2> HIDE DEF metadata, tag
  <2>4. /\ DOMAIN (tag ++ body) = DOMAIN tag \cup DOMAIN body
        /\ \A key \in DOMAIN tag : (tag ++ body)[key] = tag[key]
        /\ \A key \in DOMAIN body \ DOMAIN tag : (tag ++ body)[key] = body[key]
    BY OverFacts
  <2>5. tagged["metadata"] = metadata BY <2>1, <2>3, <2>4
  <2>6. QED BY <1>2, <2>1, <2>2, <2>3, <2>4, <2>5
<1>3. QED BY <1>1, <1>2

LEMMA RestoredFacts ==
    ASSUME NEW body, NEW restored, restored = Restored(body)
    PROVE  /\ DOMAIN restored =
                DOMAIN body \cup (IF ask.kind = "embeddings" THEN {"encoding_format"} ELSE {})
           /\ \A key \in DOMAIN body \ {"encoding_format"} : restored[key] = body[key]
           /\ ask.kind = "embeddings" => restored["encoding_format"].from = {"server"}
           /\ ask.kind # "embeddings" => restored = body
<1>1. CASE ask.kind # "embeddings" BY <1>1 DEF Restored
<1>2. CASE ask.kind = "embeddings"
  <2> DEFINE format == Server({"encoding_format"})
  <2>1. restored = format ++ body BY <1>2 DEF Restored
  <2>2. DOMAIN format = {"encoding_format"} /\ format["encoding_format"].from = {"server"}
    BY ServerFacts
  <2> HIDE DEF format
  <2>3. /\ DOMAIN (format ++ body) = DOMAIN format \cup DOMAIN body
        /\ \A key \in DOMAIN format : (format ++ body)[key] = format[key]
        /\ \A key \in DOMAIN body \ DOMAIN format : (format ++ body)[key] = body[key]
    BY OverFacts
  <2>4. QED BY <1>2, <2>1, <2>2, <2>3
<1>3. QED BY <1>1, <1>2

Of(body, key) == IF key \in DOMAIN body THEN body[key].from ELSE {}

\* Who made what of a body that the server builds.
LEMMA BodyOwners ==
    ASSUME BodyKnown, ask.kind \in Translated, DOMAIN behavior.extra \cap Protected = {},
           ~TagsFail(Assembled(ClientFields, OwnFields)),
           NEW body, body = Restored(Tagged(Assembled(ClientFields, OwnFields)))
    PROVE  /\ \A key \in Protected :
                Of(body, key) = IF key \in Attributed \cup DOMAIN OwnFields THEN {"server"} ELSE {}
           /\ \A key \in Protected : key \in DOMAIN body <=> key \in Attributed \cup DOMAIN OwnFields
           /\ "client" \notin Of(body, "metadata")
           /\ upstream.tags => "server" \in Of(body, "metadata")
           /\ ask.kind = "embeddings" => Of(body, "encoding_format") = {"server"}
           /\ \A key \in OperatorsKeys \ (Routing \cup {"encoding_format"}) : "operator" \in Of(body, key)
           /\ \A key \in behavior.drops \ {"encoding_format", "metadata"} : Of(body, key) \subseteq {"server"}
           /\ \A key \in {"temperature", "max_tokens", "top_k", "repetition_penalty"} :
                Of(body, key) \subseteq {"operator"} \cup
                    (IF key \in DOMAIN ClientFields THEN ClientFields[key].from ELSE {})
           /\ DOMAIN body \cap Forbidden \subseteq {"extra_body"} \cap OperatorsKeys
<1> DEFINE client == ClientFields
           own == OwnFields
           all == Assembled(client, own)
           tagged == Tagged(all)
           drops == behavior.drops
<1>1. /\ \A key \in Protected :
           /\ key \in DOMAIN all <=> key \in Attributed \cup DOMAIN own
           /\ key \in DOMAIN all => all[key].from = {"server"}
      /\ \A key \in DOMAIN all \ Protected :
           /\ key \in (DOMAIN client \cup DOMAIN behavior.extra) \ (drops \cup Routing)
           /\ all[key].from \subseteq
                {"operator"} \cup (IF key \in DOMAIN client THEN client[key].from ELSE {})
      /\ \A key \in OperatorsKeys \ Routing : key \in DOMAIN all /\ "operator" \in all[key].from
  BY AssembledOwners
<1>2. /\ DOMAIN tagged = DOMAIN all \cup (IF upstream.tags THEN {"metadata"} ELSE {})
      /\ \A key \in DOMAIN all \ {"metadata"} : tagged[key] = all[key]
      /\ "metadata" \in DOMAIN all => all["metadata"].from \subseteq tagged["metadata"].from
      /\ "metadata" \in DOMAIN tagged => tagged["metadata"].from \subseteq
           {"server"} \cup (IF "metadata" \in DOMAIN all THEN all["metadata"].from ELSE {})
      /\ upstream.tags => "server" \in tagged["metadata"].from
  <2> HIDE DEF all
  <2>1. ~TagsFail(all) BY DEF all
  <2>2. QED BY <2>1, TaggedFacts
<1>3. /\ DOMAIN body = DOMAIN tagged \cup (IF ask.kind = "embeddings" THEN {"encoding_format"} ELSE {})
      /\ \A key \in DOMAIN tagged \ {"encoding_format"} : body[key] = tagged[key]
      /\ ask.kind = "embeddings" => body["encoding_format"].from = {"server"}
      /\ ask.kind # "embeddings" => body = tagged
  <2> HIDE DEF tagged
  <2>1. body = Restored(tagged) BY DEF tagged
  <2>2. QED BY <2>1, RestoredFacts
<1>4. DOMAIN client \cap (Forbidden \cup {"metadata"}) = {} BY ClientFacts
<1>5. Attributed \cup DOMAIN own \subseteq Protected
  BY OwnFacts DEF Attributed, Protected
<1>6. /\ Routing = {"fallbacks"} /\ Forbidden = {"fallbacks", "extra_body"}
      /\ "metadata" \notin Protected /\ "encoding_format" \notin Protected
      /\ Forbidden \cap Protected = {}
      /\ {"temperature", "max_tokens", "top_k", "repetition_penalty"} \cap Protected = {}
  BY DEF Routing, Forbidden, Protected
<1> HIDE DEF client, own, all, tagged
<1>7. ASSUME NEW key, key # "metadata", key # "encoding_format"
      PROVE  (key \in DOMAIN body <=> key \in DOMAIN all) /\ Of(body, key) = Of(all, key)
  <2>1. key \in DOMAIN body <=> key \in DOMAIN all BY <1>2, <1>3, <1>7
  <2>2. key \in DOMAIN all => body[key] = all[key] BY <1>2, <1>3, <1>7
  <2>3. QED BY <2>1, <2>2 DEF Of
<1>8. Of(body, "metadata") = Of(tagged, "metadata") BY <1>3 DEF Of
<1>9. ASSUME NEW key \in Protected
      PROVE  /\ Of(body, key) = IF key \in Attributed \cup DOMAIN own THEN {"server"} ELSE {}
             /\ key \in DOMAIN body <=> key \in Attributed \cup DOMAIN own
  <2>1. key # "metadata" /\ key # "encoding_format" BY <1>6
  <2>2. (key \in DOMAIN body <=> key \in DOMAIN all) /\ Of(body, key) = Of(all, key) BY <1>7, <2>1
  <2>3. Of(all, key) = IF key \in Attributed \cup DOMAIN own THEN {"server"} ELSE {} BY <1>1 DEF Of
  <2>4. QED BY <1>1, <2>2, <2>3
<1>10. "client" \notin Of(body, "metadata") /\ (upstream.tags => "server" \in Of(body, "metadata"))
  <2>1. "metadata" \in DOMAIN all => all["metadata"].from \subseteq {"operator"} BY <1>1, <1>4, <1>6
  <2>2. "metadata" \in DOMAIN tagged => tagged["metadata"].from \subseteq {"server", "operator"}
    BY <1>2, <2>1
  <2>3. QED BY <1>2, <1>8, <2>2 DEF Of
<1>11. ask.kind = "embeddings" => Of(body, "encoding_format") = {"server"} BY <1>3 DEF Of
<1>12. ASSUME NEW key \in OperatorsKeys \ (Routing \cup {"encoding_format"})
       PROVE  "operator" \in Of(body, key)
  <2>1. key \in DOMAIN all /\ "operator" \in all[key].from BY <1>1, <1>12
  <2>2. CASE key = "metadata" BY <1>2, <1>8, <2>1, <2>2 DEF Of
  <2>3. CASE key # "metadata"
    <3>1. Of(body, key) = Of(all, key) BY <1>7, <1>12, <2>3
    <3>2. QED BY <2>1, <3>1 DEF Of
  <2>4. QED BY <2>2, <2>3
<1>13. ASSUME NEW key \in drops \ {"encoding_format", "metadata"}
       PROVE  Of(body, key) \subseteq {"server"}
  <2>1. Of(body, key) = Of(all, key) BY <1>7, <1>13
  <2>2. CASE key \in Protected BY <1>1, <2>1, <2>2 DEF Of
  <2>3. CASE key \notin Protected BY <1>1, <1>13, <2>1, <2>3 DEF Of
  <2>4. QED BY <2>2, <2>3
<1>14. ASSUME NEW key \in {"temperature", "max_tokens", "top_k", "repetition_penalty"}
       PROVE  Of(body, key) \subseteq
                {"operator"} \cup (IF key \in DOMAIN client THEN client[key].from ELSE {})
  <2>1. key # "metadata" /\ key # "encoding_format" /\ key \notin Protected BY <1>6
  <2>2. Of(body, key) = Of(all, key) BY <1>7, <2>1
  <2>3. QED BY <1>1, <2>1, <2>2 DEF Of
<1>15. ASSUME NEW key \in DOMAIN body \cap Forbidden
       PROVE  key \in {"extra_body"} \cap OperatorsKeys
  <2>1. key # "metadata" /\ key # "encoding_format" /\ key \notin Protected BY <1>6
  <2>2. key \in DOMAIN all BY <1>7, <2>1
  <2>3. key \in (DOMAIN client \cup DOMAIN behavior.extra) \ (drops \cup Routing) BY <1>1, <2>1, <2>2
  <2>4. QED BY <1>4, <1>6, <2>3 DEF OperatorsKeys
<1>16. QED BY <1>9, <1>10, <1>11, <1>12, <1>13, <1>14, <1>15 DEF client, own

BodyInv ==
    /\ BodyKnown
    /\ sending \in {"translated", "sent", "rejected"} =>
        /\ ask.kind # "upload" => ServerDecides
        /\ ask.kind \in Translated => OperatorThenClient
        /\ RelayedAsSent
        /\ Acceptable \/ (ask.kind \in Translated /\ "extra_body" \in OperatorsKeys)
    /\ sending = "rejected" => ~Acceptable

LEMMA RefusedKeeps ==
    ASSUME BodyInv, RefuseBody
    PROVE  BodyInv'
BY DEF BodyInv, BodyKnown, RefuseBody

LEMMA TranslateKeeps ==
    ASSUME BodyInv, Translate
    PROVE  BodyInv'
<1> DEFINE assembled == Assembled(ClientFields, OwnFields)
           refused == \/ ~ask.exposed
                      \/ ask.kind # "embeddings" /\ \E k \in DOMAIN Effective : OptionFails(k)
                      \/ DOMAIN behavior.extra \cap Protected # {}
                      \/ TagsFail(assembled)
           body == Restored(Tagged(assembled))
<1>1. CASE refused BY <1>1, RefusedKeeps DEF Translate
<1>2. CASE ~refused
  <2>1. /\ ask.kind \in Translated /\ fields' = body /\ sending' = "translated"
        /\ UNCHANGED <<form, ask, behavior, upstream>>
    BY <1>2 DEF Translate, Ready
  <2>2. DOMAIN behavior.extra \cap Protected = {} /\ ~TagsFail(assembled) /\ BodyKnown
    BY <1>2 DEF BodyInv
  <2>3. /\ \A key \in Protected :
             Of(body, key) = IF key \in Attributed \cup DOMAIN OwnFields THEN {"server"} ELSE {}
        /\ \A key \in Protected : key \in DOMAIN body <=> key \in Attributed \cup DOMAIN OwnFields
        /\ "client" \notin Of(body, "metadata")
        /\ upstream.tags => "server" \in Of(body, "metadata")
        /\ ask.kind = "embeddings" => Of(body, "encoding_format") = {"server"}
        /\ \A key \in OperatorsKeys \ (Routing \cup {"encoding_format"}) : "operator" \in Of(body, key)
        /\ \A key \in behavior.drops \ {"encoding_format", "metadata"} : Of(body, key) \subseteq {"server"}
        /\ \A key \in {"temperature", "max_tokens", "top_k", "repetition_penalty"} :
             Of(body, key) \subseteq {"operator"} \cup
                 (IF key \in DOMAIN ClientFields THEN ClientFields[key].from ELSE {})
        /\ DOMAIN body \cap Forbidden \subseteq {"extra_body"} \cap OperatorsKeys
    BY <2>1, <2>2, BodyOwners
  <2>4. \A k \in DOMAIN Upward : Upward[k] \in DOMAIN ClientFields =>
          /\ ClientFields[Upward[k]].from = {OptionSource(k)}
          /\ k \in DOMAIN Effective /\ OptionIsSent(k)
    BY <2>1, <2>2, ClientFacts
  <2>5. /\ ask.kind # "embeddings" =>
             "n" \in DOMAIN OwnFields /\ ("stream_options" \in DOMAIN OwnFields <=> Streams)
        /\ ask.kind = "embeddings" => DOMAIN OwnFields = {"input"}
        /\ DOMAIN OwnFields \subseteq {"n", "input", "stream", "stream_options"}
    BY OwnFacts
  <2> HIDE DEF body
  <2>6. \A key : From(key)' = Of(body, key) BY <2>1 DEF From, Of
  <2>7. /\ "model" \in Protected /\ "user" \in Protected /\ "n" \in Protected
        /\ "stream_options" \in Protected /\ "model" \in Attributed
        /\ ("user" \in Attributed <=> upstream.forwardUser)
        /\ "n" \notin Attributed /\ "stream_options" \notin Attributed
    BY DEF Protected, Attributed
  <2>8. ServerDecides'
    <3>1. Of(body, "model") = {"server"} BY <2>3, <2>7
    <3>2. Of(body, "user") = IF upstream.forwardUser THEN {"server"} ELSE {}
      BY <2>3, <2>5, <2>7
    <3>3. ask.choices => Of(body, "n") = {"server"}
      <4>1. ask.choices => ask.kind # "embeddings" BY <2>2, BodyAssumption DEF BodyKnown
      <4>2. QED BY <2>3, <2>5, <2>7, <4>1
    <3>4. \A key \in Protected : Of(body, key) \subseteq {"server"} BY <2>3
    <3>5. "stream_options" \in DOMAIN body <=> ask.kind # "embeddings" /\ Streams
      BY <2>3, <2>5, <2>7
    <3>6. Streams' = Streams BY <2>1 DEF Streams
    <3>7. From("model")' = {"server"} BY <2>6, <3>1
    <3>8. From("user")' = IF upstream'.forwardUser THEN {"server"} ELSE {} BY <2>1, <2>6, <3>2
    <3>9. "client" \notin From("metadata")' /\ (upstream'.tags => "server" \in From("metadata")')
      BY <2>1, <2>3, <2>6
    <3>10. ask'.choices => From("n")' = {"server"} BY <2>1, <2>6, <3>3
    <3>11. \A key \in Protected : From(key)' \subseteq {"server"} BY <2>6, <3>4
    <3>12. "stream_options" \in DOMAIN fields' <=> ask'.kind # "embeddings" /\ Streams'
      BY <2>1, <3>5, <3>6
    <3>13. ask'.kind = "embeddings" => From("encoding_format")' = {"server"}
      BY <2>1, <2>3, <2>6
    <3>14. QED BY <3>7, <3>8, <3>9, <3>10, <3>11, <3>12, <3>13 DEF ServerDecides
  <2>9. OperatorThenClient'
    <3>1. OperatorsKeys' = OperatorsKeys /\ behavior' = behavior BY <2>1 DEF OperatorsKeys
    <3>2. \A key \in OperatorsKeys \ {"encoding_format"} : "operator" \in Of(body, key) \/ key \in Routing
      BY <2>3
    <3>3. ASSUME NEW k \in DOMAIN Upward
          PROVE  LET lifted == k = "num_predict" /\ k \in DOMAIN ask.options /\ ask.options[k] = "unlimited"
                 IN  /\ "alias" \in Of(body, Upward[k]) => k \notin DOMAIN ask.options
                     /\ lifted => Of(body, Upward[k]) \subseteq {"operator"}
      <4>1. Upward[k] \in {"temperature", "max_tokens", "top_k", "repetition_penalty"} BY DEF Upward
      <4>2. Of(body, Upward[k]) \subseteq {"operator"} \cup
              (IF Upward[k] \in DOMAIN ClientFields THEN {OptionSource(k)} ELSE {})
        BY <2>3, <2>4, <4>1
      <4>3. "alias" \in Of(body, Upward[k]) => k \notin DOMAIN ask.options
        BY <4>2 DEF OptionSource
      <4>4. ASSUME k = "num_predict", k \in DOMAIN ask.options, ask.options[k] = "unlimited"
            PROVE  Upward[k] \notin DOMAIN ClientFields
        <5>1. Effective[k] = "unlimited" BY <4>4, OverFacts DEF Effective
        <5>2. ~OptionIsSent(k) BY <4>4, <5>1 DEF OptionIsSent
        <5>3. QED BY <2>4, <5>2
      <4>5. QED BY <4>2, <4>3, <4>4
    <3>4. \A key \in OperatorsKeys' \ {"encoding_format"} : "operator" \in From(key)' \/ key \in Routing
      BY <2>6, <3>1, <3>2
    <3>5. \A key \in behavior'.drops \ {"encoding_format", "metadata"} : From(key)' \subseteq {"server"}
      BY <2>3, <2>6, <3>1
    <3>6. \A k \in DOMAIN Upward :
            LET lifted == k = "num_predict" /\ k \in DOMAIN ask'.options /\ ask'.options[k] = "unlimited"
            IN  /\ "alias" \in From(Upward[k])' => k \notin DOMAIN ask'.options
                /\ lifted => From(Upward[k])' \subseteq {"operator"}
      BY <2>1, <2>6, <3>3
    <3>7. QED BY <3>4, <3>5, <3>6 DEF OperatorThenClient
  <2>10. Acceptable' \/ "extra_body" \in OperatorsKeys'
    <3>1. "model" \in DOMAIN body BY <2>3, <2>7
    <3>2. OperatorsKeys' = OperatorsKeys BY <2>1 DEF OperatorsKeys
    <3>3. ask.kind # "upload" BY <2>1 DEF Translated
    <3>4. QED BY <2>1, <2>3, <3>1, <3>2, <3>3 DEF Acceptable
  <2>11. RelayedAsSent'
    <3>1. ask'.kind # "upload" /\ ask'.kind # "relay" BY <2>1 DEF Translated
    <3>2. QED BY <3>1 DEF RelayedAsSent
  <2>12. BodyKnown' BY <2>1, <2>2 DEF BodyKnown
  <2>13. QED BY <2>1, <2>8, <2>9, <2>10, <2>11, <2>12 DEF BodyInv
<1>3. QED BY <1>1, <1>2

LEMMA RelayKeeps ==
    ASSUME BodyInv, Relay
    PROVE  BodyInv'
<1> DEFINE own == {"model"} \cup (IF upstream.forwardUser THEN {"user"} ELSE {})
                            \cup (IF ask.choices THEN {"n"} ELSE {})
           tag == [key \in {"metadata"} |-> Object("server")]
           client == [key \in ask.keys \ Controlled |-> Object("client")]
           upper == Server(own) ++ tag
           body == upper ++ client
<1>1. CASE ~ask.exposed BY <1>1, RefusedKeeps DEF Relay
<1>2. CASE ask.exposed
  <2>1. /\ ask.kind = "relay" /\ fields' = Attributes ++ client /\ sending' = "translated"
        /\ UNCHANGED <<form, ask, behavior, upstream>>
    BY <1>2 DEF Relay, Ready
  <2>2. Attributes = upper BY DEF Attributes
  <2>3. /\ DOMAIN tag = {"metadata"} /\ tag["metadata"].from = {"server"}
        /\ DOMAIN client = ask.keys \ Controlled /\ \A key \in DOMAIN client : client[key].from = {"client"}
    BY DEF Object
  <2>4. "metadata" \notin own OBVIOUS
  <2>5. /\ DOMAIN upper = own \cup {"metadata"}
        /\ \A key \in own \cup {"metadata"} : upper[key].from = {"server"}
    <3> DEFINE first == Server(own)
    <3>1. DOMAIN first = own /\ \A key \in own : first[key].from = {"server"} BY ServerFacts
    <3> HIDE DEF tag, own, first
    <3>2. /\ DOMAIN (first ++ tag) = DOMAIN first \cup DOMAIN tag
          /\ \A key \in DOMAIN first : (first ++ tag)[key] = first[key]
          /\ \A key \in DOMAIN tag \ DOMAIN first : (first ++ tag)[key] = tag[key]
      BY OverFacts
    <3>3. upper = first ++ tag BY DEF first
    <3> HIDE DEF upper
    <3>4. QED BY <2>3, <2>4, <3>1, <3>2, <3>3
  <2> HIDE DEF upper, client
  <2>6. /\ DOMAIN body = DOMAIN upper \cup DOMAIN client
        /\ \A key \in DOMAIN upper : body[key] = upper[key]
        /\ \A key \in DOMAIN client \ DOMAIN upper : body[key] = client[key]
    BY OverFacts
  <2>7. fields' = body BY <2>1, <2>2
  <2>8. Controlled = {"fallbacks", "extra_body", "metadata", "user"} /\ Forbidden = {"fallbacks", "extra_body"}
    BY DEF Controlled, Forbidden, Routing
  <2> HIDE DEF body
  <2>9. \A key : From(key)' = Of(body, key) BY <2>7 DEF From, Of
  <2>10. ask'.kind \notin Translated /\ ask'.kind # "embeddings" /\ ask'.kind = "relay"
    BY <2>1 DEF Translated
  <2>11. ServerDecides'
    <3>1. Of(body, "model") = {"server"} BY <2>5, <2>6 DEF Of
    <3>2. Of(body, "user") = IF upstream.forwardUser THEN {"server"} ELSE {}
      BY <2>3, <2>5, <2>6, <2>8 DEF Of
    <3>3. Of(body, "metadata") = {"server"} BY <2>5, <2>6 DEF Of
    <3>4. ask.choices => Of(body, "n") = {"server"} BY <2>5, <2>6 DEF Of
    <3>5. QED BY <2>1, <2>9, <2>10, <3>1, <3>2, <3>3, <3>4 DEF ServerDecides
  <2>12. Acceptable'
    <3>1. "model" \in DOMAIN body BY <2>5, <2>6
    <3>2. DOMAIN body \cap Forbidden = {} BY <2>3, <2>5, <2>6, <2>8
    <3>3. QED BY <2>7, <2>10, <3>1, <3>2 DEF Acceptable
  <2>13. RelayedAsSent'
    <3>1. Attributes' = Attributes BY <2>1 DEF Attributes
    <3>2. \A key \in ask.keys \ (Controlled \cup DOMAIN Attributes) : Of(body, key) = {"client"}
      BY <2>2, <2>3, <2>6 DEF Of
    <3>3. \A key \in ask'.keys \ (Controlled \cup DOMAIN Attributes') : From(key)' = {"client"}
      BY <2>1, <2>9, <3>1, <3>2
    <3>4. QED BY <2>10, <3>3 DEF RelayedAsSent
  <2>14. BodyKnown' BY <2>1 DEF BodyInv, BodyKnown
  <2>15. QED BY <2>1, <2>10, <2>11, <2>12, <2>13, <2>14 DEF BodyInv
<1>3. QED BY <1>1, <1>2

(* The parts of a form *)

AmongSteps(parts, kept, n, f) ==
    /\ f[0] = <<>>
    /\ \A k \in 1 .. n : f[k] = IF parts[k] \in kept THEN Append(f[k - 1], parts[k]) ELSE f[k - 1]

LEMMA AmongExists ==
    ASSUME NEW parts, IsSeq(parts), NEW kept
    PROVE  \E f : AmongSteps(parts, kept, Len(parts), f) /\ DOMAIN f = 0 .. Len(parts)
<1> DEFINE S == {n \in Nat : \E f : AmongSteps(parts, kept, n, f) /\ DOMAIN f = 0 .. n}
           Step(before, k) == IF parts[k] \in kept THEN Append(before, parts[k]) ELSE before
<1>1. 0 \in S
  <2> DEFINE f == [k \in 0 .. 0 |-> <<>>]
  <2>1. AmongSteps(parts, kept, 0, f) /\ DOMAIN f = 0 .. 0 BY DEF AmongSteps
  <2>2. QED BY <2>1
<1>2. ASSUME NEW n \in Nat, n \in S PROVE n + 1 \in S
  <2>1. PICK f : AmongSteps(parts, kept, n, f) /\ DOMAIN f = 0 .. n BY <1>2
  <2> DEFINE last == Step(f[n], n + 1)
             next == [k \in 0 .. n + 1 |-> IF k = n + 1 THEN last ELSE f[k]]
  <2> HIDE DEF last
  <2>2. next[0] = <<>> BY <2>1 DEF AmongSteps
  <2>3. ASSUME NEW k \in 1 .. n + 1 PROVE next[k] = Step(next[k - 1], k)
    <3>1. CASE k = n + 1
      <4>1. next[k - 1] = f[n] /\ next[k] = last BY <3>1
      <4>2. QED BY <3>1, <4>1 DEF last
    <3>2. CASE k # n + 1
      <4>1. k \in 1 .. n /\ next[k] = f[k] /\ next[k - 1] = f[k - 1] BY <3>2
      <4>2. QED BY <2>1, <4>1 DEF AmongSteps
    <3>3. QED BY <3>1, <3>2
  <2>4. DOMAIN next = 0 .. n + 1 OBVIOUS
  <2> HIDE DEF next
  <2>5. AmongSteps(parts, kept, n + 1, next) BY <2>2, <2>3 DEF AmongSteps
  <2>6. QED BY <2>4, <2>5
<1> HIDE DEF S
<1>3. Nat \subseteq S BY <1>1, <1>2, NatInclusion
<1>4. Len(parts) \in S BY <1>3, SeqFacts
<1>5. QED BY <1>4 DEF S

LEMMA AmongByStep ==
    ASSUME NEW parts, IsSeq(parts), NEW kept
    PROVE  \E f : AmongSteps(parts, kept, Len(parts), f) /\ Among(parts, kept) = f[Len(parts)]
<1> DEFINE upTo == CHOOSE f : f = [n \in 0 .. Len(parts) |->
                        IF n = 0 THEN <<>>
                        ELSE IF parts[n] \in kept THEN Append(f[n - 1], parts[n]) ELSE f[n - 1]]
           body(f, n) == IF n = 0 THEN <<>>
                         ELSE IF parts[n] \in kept THEN Append(f[n - 1], parts[n]) ELSE f[n - 1]
<1>0. Len(parts) \in Nat BY SeqFacts
<1>1. PICK f : AmongSteps(parts, kept, Len(parts), f) /\ DOMAIN f = 0 .. Len(parts)
  BY AmongExists
<1>2. \E g : g = [n \in 0 .. Len(parts) |-> body(g, n)]
  <2>1. \A n \in 0 .. Len(parts) : f[n] = body(f, n)
    <3> TAKE n \in 0 .. Len(parts)
    <3>1. CASE n = 0 BY <1>1, <3>1 DEF AmongSteps
    <3>2. CASE n # 0
      <4>1. n \in 1 .. Len(parts) BY <1>0, <3>2
      <4>2. QED BY <1>1, <3>2, <4>1 DEF AmongSteps
    <3>3. QED BY <3>1, <3>2
  <2> HIDE DEF body
  <2>2. f = [n \in 0 .. Len(parts) |-> body(f, n)]
    BY <1>1, <2>1
  <2>3. QED BY <2>2
<1>3. upTo = [n \in 0 .. Len(parts) |-> body(upTo, n)] BY <1>2
<1>4. Among(parts, kept) = upTo[Len(parts)] BY DEF Among
<1> HIDE DEF upTo
<1>5. ASSUME NEW n \in 0 .. Len(parts) PROVE upTo[n] = body(upTo, n)
  <2> HIDE DEF body
  <2>1. QED BY <1>3
<1>6. AmongSteps(parts, kept, Len(parts), upTo)
  <2>1. upTo[0] = <<>> BY <1>0, <1>5
  <2>2. \A n \in 1 .. Len(parts) : n \in 0 .. Len(parts) /\ n # 0 BY <1>0
  <2>3. QED BY <1>5, <2>1, <2>2 DEF AmongSteps
<1>7. QED BY <1>4, <1>6

\* The steps of a sequence are those of any longer one.
LEMMA AmongUnique ==
    ASSUME NEW s, NEW t, NEW n \in Nat, \A k \in 1 .. n : s[k] = t[k], NEW kept,
           NEW f, NEW g, NEW m \in Nat, n <= m, AmongSteps(s, kept, n, f), AmongSteps(t, kept, m, g)
    PROVE  f[n] = g[n]
<1> DEFINE S == {k \in Nat : k <= n => f[k] = g[k]}
<1>1. 0 \in S BY DEF AmongSteps
<1>2. ASSUME NEW k \in Nat, k \in S PROVE k + 1 \in S
  <2> SUFFICES ASSUME k + 1 <= n PROVE f[k + 1] = g[k + 1]
    OBVIOUS
  <2>1. k + 1 \in 1 .. n /\ k + 1 \in 1 .. m /\ (k + 1) - 1 = k OBVIOUS
  <2>2. f[k] = g[k] BY <1>2
  <2>3. QED BY <2>1, <2>2 DEF AmongSteps
<1> HIDE DEF S
<1>3. Nat \subseteq S BY <1>1, <1>2, NatInclusion
<1>4. QED BY <1>3 DEF S

LEMMA AmongAppend ==
    ASSUME NEW s, IsSeq(s), NEW x, NEW kept
    PROVE  Among(Append(s, x), kept) =
              IF x \in kept THEN Append(Among(s, kept), x) ELSE Among(s, kept)
<1> DEFINE n == Len(s)
           t == Append(s, x)
<1>1. /\ n \in Nat /\ IsSeq(t) /\ Len(t) = n + 1 /\ t[n + 1] = x /\ \A k \in 1 .. n : t[k] = s[k]
  BY SeqFacts, AppendFacts
<1> HIDE DEF t
<1>2. PICK f : AmongSteps(s, kept, n, f) /\ Among(s, kept) = f[n] BY AmongByStep
<1>3. PICK g : AmongSteps(t, kept, Len(t), g) /\ Among(t, kept) = g[Len(t)] BY <1>1, AmongByStep
<1>4. AmongSteps(t, kept, n + 1, g) /\ Among(t, kept) = g[n + 1] BY <1>1, <1>3
<1> HIDE DEF n
<1>5. f[n] = g[n]
  <2>1. n \in Nat /\ n + 1 \in Nat /\ n <= n + 1 BY <1>1
  <2>2. \A k \in 1 .. n : s[k] = t[k] BY <1>1
  <2>3. AmongSteps(s, kept, n, f) /\ AmongSteps(t, kept, n + 1, g) BY <1>2, <1>4
  <2> DEFINE m == n + 1
  <2> HIDE DEF m
  <2>4. m \in Nat /\ n <= m /\ AmongSteps(t, kept, m, g) BY <2>1, <2>3 DEF m
  <2>5. QED BY <2>1, <2>2, <2>3, <2>4, AmongUnique
<1>6. n + 1 \in 1 .. n + 1 /\ (n + 1) - 1 = n BY <1>1
<1>7. g[n + 1] = IF t[n + 1] \in kept THEN Append(g[n], t[n + 1]) ELSE g[n]
  BY <1>4, <1>6 DEF AmongSteps
<1>8. QED BY <1>1, <1>2, <1>4, <1>5, <1>7 DEF t

LEMMA ToSetAppend ==
    ASSUME NEW s, IsSeq(s), NEW x
    PROVE  ToSet(Append(s, x)) = ToSet(s) \cup {x}
<1> DEFINE t == Append(s, x)
           n == Len(s)
<1>1. /\ n \in Nat /\ DOMAIN s = 1 .. n /\ DOMAIN t = 1 .. n + 1
      /\ t[n + 1] = x /\ \A k \in 1 .. n : t[k] = s[k]
  BY SeqFacts, AppendFacts
<1> HIDE DEF t, n
<1>2. \A k \in 1 .. n + 1 : k \in 1 .. n \/ k = n + 1 BY <1>1
<1>3. n + 1 \in 1 .. n + 1 /\ \A k \in 1 .. n : k \in 1 .. n + 1 BY <1>1
<1>4. ToSet(t) = ToSet(s) \cup {x} BY <1>1, <1>2, <1>3 DEF ToSet
<1>5. QED BY <1>4 DEF t

\* Keeping parts of what was kept is keeping those that pass both.
LEMMA AmongTwice ==
    ASSUME NEW parts, IsSeq(parts), NEW kept, NEW also, NEW both,
           \A p \in ToSet(parts) : p \in both <=> p \in kept /\ p \in also
    PROVE  /\ IsSeq(Among(parts, kept)) /\ ToSet(Among(parts, kept)) = ToSet(parts) \cap kept
           /\ Among(Among(parts, kept), also) = Among(parts, both)
<1>0. Len(parts) \in Nat /\ DOMAIN parts = 1 .. Len(parts) BY SeqFacts
<1>1. PICK f : AmongSteps(parts, kept, Len(parts), f) /\ Among(parts, kept) = f[Len(parts)]
  BY AmongByStep
<1>2. PICK g : AmongSteps(parts, both, Len(parts), g) /\ Among(parts, both) = g[Len(parts)]
  BY AmongByStep
<1> DEFINE Upto(n) == {parts[k] : k \in 1 .. n}
           S == {n \in Nat : n <= Len(parts) =>
                    IsSeq(f[n]) /\ ToSet(f[n]) = Upto(n) \cap kept /\ Among(f[n], also) = g[n]}
<1>3. 0 \in S
  <2>1. f[0] = <<>> /\ g[0] = <<>> BY <1>1, <1>2 DEF AmongSteps
  <2>2. Among(<<>>, also) = <<>>
    <3>1. PICK h : AmongSteps(<<>>, also, Len(<<>>), h) /\ Among(<<>>, also) = h[Len(<<>>)]
      BY EmptyFacts, AmongByStep
    <3>2. QED BY <3>1, EmptyFacts DEF AmongSteps
  <2>3. ToSet(<<>>) = {} /\ Upto(0) = {} BY EmptyFacts DEF ToSet
  <2> HIDE DEF Upto
  <2>4. QED BY <2>1, <2>2, <2>3, EmptyFacts
<1>4. ASSUME NEW n \in Nat, n \in S PROVE n + 1 \in S
  <2> SUFFICES ASSUME n + 1 <= Len(parts)
               PROVE  /\ IsSeq(f[n + 1]) /\ ToSet(f[n + 1]) = Upto(n + 1) \cap kept
                      /\ Among(f[n + 1], also) = g[n + 1]
    OBVIOUS
  <2> DEFINE p == parts[n + 1]
             s == f[n]
  <2>1. n + 1 \in 1 .. Len(parts) /\ (n + 1) - 1 = n /\ n <= Len(parts) BY <1>0
  <2>2. IsSeq(s) /\ ToSet(s) = Upto(n) \cap kept /\ Among(s, also) = g[n] BY <1>4, <2>1
  <2>3. Upto(n + 1) = Upto(n) \cup {p}
    <3>1. \A k \in 1 .. n + 1 : k \in 1 .. n \/ k = n + 1 OBVIOUS
    <3>2. n + 1 \in 1 .. n + 1 /\ \A k \in 1 .. n : k \in 1 .. n + 1 OBVIOUS
    <3>3. QED BY <3>1, <3>2
  <2>4. /\ f[n + 1] = IF p \in kept THEN Append(s, p) ELSE s
        /\ g[n + 1] = IF p \in both THEN Append(g[n], p) ELSE g[n]
    BY <1>1, <1>2, <2>1 DEF AmongSteps
  <2>5. p \in both <=> p \in kept /\ p \in also
    <3>1. p \in ToSet(parts) BY <1>0, <2>1 DEF ToSet
    <3>2. QED BY <3>1
  <2> HIDE DEF Upto, p, s
  <2>6. CASE p \in kept
    <3>1. f[n + 1] = Append(s, p) BY <2>4, <2>6
    <3>2. IsSeq(f[n + 1]) BY <2>2, <3>1, AppendFacts
    <3>3. ToSet(f[n + 1]) = ToSet(s) \cup {p} BY <2>2, <3>1, ToSetAppend
    <3>4. Among(f[n + 1], also) = IF p \in also THEN Append(Among(s, also), p) ELSE Among(s, also)
      <4>1. Among(Append(s, p), also) = IF p \in also THEN Append(Among(s, also), p) ELSE Among(s, also)
        BY <2>2, AmongAppend
      <4>2. QED BY <3>1, <4>1
    <3>5. QED BY <2>2, <2>3, <2>4, <2>5, <2>6, <3>2, <3>3, <3>4
  <2>7. CASE p \notin kept BY <2>2, <2>3, <2>4, <2>5, <2>7
  <2>8. QED BY <2>6, <2>7
<1> HIDE DEF S
<1>5. Nat \subseteq S BY <1>3, <1>4, NatInclusion
<1>6. Len(parts) \in S BY <1>0, <1>5
<1>7. /\ IsSeq(f[Len(parts)]) /\ ToSet(f[Len(parts)]) = Upto(Len(parts)) \cap kept
      /\ Among(f[Len(parts)], also) = g[Len(parts)]
  BY <1>0, <1>6 DEF S
<1>8. Upto(Len(parts)) = ToSet(parts) BY <1>0 DEF ToSet
<1>9. QED BY <1>1, <1>2, <1>7, <1>8

LEMMA AmongNone ==
    ASSUME NEW parts, IsSeq(parts), NEW kept, \A p \in ToSet(parts) : p \notin kept
    PROVE  Among(parts, kept) = <<>>
<1>0. Len(parts) \in Nat /\ DOMAIN parts = 1 .. Len(parts) BY SeqFacts
<1>1. PICK f : AmongSteps(parts, kept, Len(parts), f) /\ Among(parts, kept) = f[Len(parts)]
  BY AmongByStep
<1> DEFINE S == {n \in Nat : n <= Len(parts) => f[n] = <<>>}
<1>2. 0 \in S BY <1>1 DEF AmongSteps
<1>3. ASSUME NEW n \in Nat, n \in S PROVE n + 1 \in S
  <2> SUFFICES ASSUME n + 1 <= Len(parts) PROVE f[n + 1] = <<>>
    OBVIOUS
  <2>1. n + 1 \in 1 .. Len(parts) /\ (n + 1) - 1 = n /\ f[n] = <<>> BY <1>0, <1>3
  <2>2. parts[n + 1] \notin kept BY <1>0, <2>1 DEF ToSet
  <2>3. QED BY <1>1, <2>1, <2>2 DEF AmongSteps
<1> HIDE DEF S
<1>4. Nat \subseteq S BY <1>2, <1>3, NatInclusion
<1>5. Len(parts) \in S BY <1>0, <1>4
<1>6. QED BY <1>0, <1>1, <1>5 DEF S

Servers == {Part("model", FALSE, "server"), Part("metadata", FALSE, "server")}
           \cup (IF upstream.forwardUser THEN {Part("user", FALSE, "server")} ELSE {})
Relayed == {p \in ToSet(ask.parts) : ~IsControlled(p)}

\* The form is the client's parts that are relayed, and the server's behind them.
LEMMA FormFacts ==
    ASSUME IsSeq(ask.parts), NEW kept, \A p \in Servers : p \in kept => p.name = "model"
    PROVE  LET model == Part("model", FALSE, "server")
               base == Among(ask.parts, Relayed)
           IN  /\ IsSeq(base) /\ ToSet(base) = Relayed
               /\ IsSeq(Rewritten) /\ ToSet(Rewritten) = Relayed \cup Servers
               /\ Among(Rewritten, kept) =
                     IF model \in kept THEN Append(Among(base, kept), model) ELSE Among(base, kept)
<1> DEFINE model == Part("model", FALSE, "server")
           metadata == Part("metadata", FALSE, "server")
           user == Part("user", FALSE, "server")
           base == Among(ask.parts, Relayed)
           one == Append(base, model)
           two == Append(one, metadata)
           three == Append(two, user)
           extra == IF upstream.forwardUser THEN <<user>> ELSE <<>>
<1>1. Rewritten = (base \o <<model, metadata>>) \o extra BY DEF Rewritten, Relayed
<1>2. IsSeq(base) /\ ToSet(base) = Relayed
  <2>1. Relayed \subseteq ToSet(ask.parts) BY DEF Relayed
  <2>2. \A p \in ToSet(ask.parts) : p \in Relayed <=> p \in Relayed /\ p \in Relayed OBVIOUS
  <2>3. IsSeq(base) /\ ToSet(base) = ToSet(ask.parts) \cap Relayed BY <2>2, AmongTwice
  <2>4. QED BY <2>1, <2>3
<1>3. Servers = {model, metadata} \cup (IF upstream.forwardUser THEN {user} ELSE {})
      /\ model.name = "model" /\ metadata.name = "metadata" /\ user.name = "user"
  BY DEF Servers, Part
<1> HIDE DEF model, metadata, user, base
<1>4. <<model>> = Append(<<>>, model) /\ <<model, metadata>> = Append(<<model>>, metadata)
      /\ <<user>> = Append(<<>>, user)
  OBVIOUS
<1>5. IsSeq(<<model>>) /\ IsSeq(<<>>)
  <2>1. IsSeq(Append(<<>>, model)) BY EmptyFacts, AppendFacts
  <2>2. QED BY <1>4, <2>1, EmptyFacts
<1>6. base \o <<model, metadata>> = two
  <2>1. base \o Append(<<model>>, metadata) = Append(base \o <<model>>, metadata)
    BY <1>2, <1>5, JoinAppend
  <2>2. base \o Append(<<>>, model) = Append(base \o <<>>, model) /\ base \o <<>> = base
    BY <1>2, <1>5, JoinAppend
  <2>3. QED BY <1>4, <2>1, <2>2
<1>7. IsSeq(one) /\ ToSet(one) = Relayed \cup {model}
      /\ Among(one, kept) = IF model \in kept THEN Append(Among(base, kept), model) ELSE Among(base, kept)
  BY <1>2, AppendFacts, ToSetAppend, AmongAppend
<1> HIDE DEF one
<1>8. metadata \notin kept BY <1>3
<1>9. IsSeq(two) /\ ToSet(two) = Relayed \cup {model, metadata} /\ Among(two, kept) = Among(one, kept)
  <2>1. IsSeq(two) BY <1>7, AppendFacts
  <2>2. ToSet(two) = ToSet(one) \cup {metadata} BY <1>7, ToSetAppend
  <2>3. Among(two, kept) = IF metadata \in kept THEN Append(Among(one, kept), metadata) ELSE Among(one, kept)
    BY <1>7, AmongAppend
  <2>4. QED BY <1>7, <1>8, <2>1, <2>2, <2>3
<1> HIDE DEF two
<1>10. CASE ~upstream.forwardUser
  <2>1. Rewritten = two
    <3>1. extra = <<>> BY <1>10
    <3>2. two \o <<>> = two BY <1>5, <1>9, JoinAppend
    <3>3. QED BY <1>1, <1>6, <3>1, <3>2
  <2>2. QED BY <1>2, <1>3, <1>7, <1>9, <1>10, <2>1 DEF model, base
<1>11. CASE upstream.forwardUser
  <2>1. Rewritten = three
    <3>1. extra = Append(<<>>, user) BY <1>4, <1>11
    <3>2. two \o Append(<<>>, user) = Append(two \o <<>>, user) /\ two \o <<>> = two
      BY <1>5, <1>9, JoinAppend
    <3>3. QED BY <1>1, <1>6, <3>1, <3>2
  <2>2. user \notin kept BY <1>3, <1>11
  <2>3. IsSeq(three) BY <1>9, AppendFacts
  <2>4. ToSet(three) = ToSet(two) \cup {user} BY <1>9, ToSetAppend
  <2>5. Among(three, kept) = IF user \in kept THEN Append(Among(two, kept), user) ELSE Among(two, kept)
    BY <1>9, AmongAppend
  <2> HIDE DEF three
  <2>6. QED BY <1>2, <1>3, <1>7, <1>9, <1>11, <2>1, <2>2, <2>3, <2>4, <2>5 DEF model, base
<1>12. QED BY <1>10, <1>11

LEMMA RewriteKeeps ==
    ASSUME BodyInv, Rewrite
    PROVE  BodyInv'
<1> DEFINE refused == \/ Len(ask.parts) > MaxUpload \/ ~OneModel(ask.parts) \/ ~ask.exposed
                      \/ Len(Rewritten) > MaxUpload
           names == Controlled \cup {"model"}
           model == Part("model", FALSE, "server")
           base == Among(ask.parts, Relayed)
<1>1. CASE refused BY <1>1, RefusedKeeps DEF Rewrite
<1>2. CASE ~refused
  <2>1. /\ ask.kind = "upload" /\ form' = Rewritten /\ sending' = "translated"
        /\ OneModel(ask.parts) /\ ~(Len(Rewritten) > MaxUpload)
        /\ UNCHANGED <<fields, ask, behavior, upstream>>
    BY <1>2 DEF Rewrite, Ready
  <2>2. IsSeq(ask.parts) /\ (\A p \in ToSet(ask.parts) : p.from = "client") /\ MaxUpload \in Nat
    BY BodyAssumption DEF BodyInv, BodyKnown, IsSeq
  <2>3. /\ names = {"fallbacks", "extra_body", "metadata", "user", "model"}
        /\ \A p : IsControlled(p) <=> p.name \in names
        /\ Forbidden \subseteq names
    BY DEF Controlled, Forbidden, Routing, IsControlled
  <2>4. \A p \in Relayed : p \in ToSet(ask.parts) /\ p.name \notin names /\ p.from = "client"
    BY <2>2, <2>3 DEF Relayed
  <2>5. /\ \A p \in Servers : p.from = "server" /\ p.name \in {"model", "metadata", "user"}
        /\ model \in Servers /\ model.name = "model" /\ model.file = FALSE
        /\ \A p \in Servers : p.name = "model" => p = model
        /\ {p.name : p \in Servers} =
              {"model", "metadata"} \cup (IF upstream.forwardUser THEN {"user"} ELSE {})
    <3> DEFINE metadata == Part("metadata", FALSE, "server")
               user == Part("user", FALSE, "server")
    <3>1. /\ model.from = "server" /\ model.name = "model" /\ model.file = FALSE
          /\ metadata.from = "server" /\ metadata.name = "metadata"
          /\ user.from = "server" /\ user.name = "user"
      BY DEF Part
    <3>2. Servers = {model, metadata} \cup (IF upstream.forwardUser THEN {user} ELSE {})
      BY DEF Servers
    <3> HIDE DEF model, metadata, user
    <3>3. CASE upstream.forwardUser
      <4>1. Servers = {model, metadata, user} BY <3>2, <3>3
      <4>2. {p.name : p \in Servers} = {"model", "metadata", "user"} BY <3>1, <4>1
      <4>3. QED BY <3>1, <3>3, <4>1, <4>2
    <3>4. CASE ~upstream.forwardUser
      <4>1. Servers = {model, metadata} BY <3>2, <3>4
      <4>2. {p.name : p \in Servers} = {"model", "metadata"} BY <3>1, <4>1
      <4>3. QED BY <3>1, <3>4, <4>1, <4>2
    <3>5. QED BY <3>3, <3>4
  <2>6. IsSeq(base) /\ ToSet(base) = Relayed /\ IsSeq(Rewritten) /\ ToSet(Rewritten) = Relayed \cup Servers
    <3> DEFINE none == {}
    <3>1. \A p \in Servers : p \in none => p.name = "model" OBVIOUS
    <3> HIDE DEF none
    <3>2. QED BY <2>2, <3>1, FormFacts
  <2> HIDE DEF names, model, base
  <2>7. OneModel(Rewritten)
    <3> DEFINE kept == {p \in ToSet(Rewritten) : p.name = "model"}
    <3>1. model \in kept BY <2>5, <2>6
    <3>2. \A p \in Servers : p \in kept => p.name = "model" OBVIOUS
    <3>3. Among(base, kept) = <<>>
      <4>1. \A p \in ToSet(base) : p \notin kept BY <2>3, <2>4, <2>6
      <4> HIDE DEF kept
      <4>2. QED BY <2>6, <4>1, AmongNone
    <3>4. ModelsOf(Rewritten) = Among(Rewritten, kept) BY DEF ModelsOf
    <3> HIDE DEF kept
    <3>5. Among(Rewritten, kept) =
            IF model \in kept THEN Append(Among(base, kept), model) ELSE Among(base, kept)
      BY <2>2, <3>2, FormFacts DEF model, base
    <3>6. ModelsOf(Rewritten) = <<model>> BY <3>1, <3>3, <3>4, <3>5
    <3>7. Len(ModelsOf(Rewritten)) = 1 /\ ~ModelsOf(Rewritten)[1].file BY <2>5, <3>6
    <3>8. \A p \in ToSet(Rewritten) : p.name # ""
      <4>1. \A p \in ToSet(ask.parts) : p.name # "" BY <2>1 DEF OneModel
      <4>2. QED BY <2>4, <2>5, <2>6, <4>1
    <3>9. QED BY <3>7, <3>8 DEF OneModel
  <2>8. Acceptable'
    <3>1. Len(Rewritten) <= MaxUpload
      <4>1. Len(Rewritten) \in Nat BY <2>6, SeqFacts
      <4>2. QED BY <2>1, <2>2, <4>1
    <3>2. \A p \in ToSet(Rewritten) : p.name \notin Forbidden
      <4>1. \A p \in Servers : p.name \notin Forbidden BY <2>5 DEF Forbidden, Routing
      <4>2. QED BY <2>3, <2>4, <2>6, <4>1
    <3> DEFINE made == Rewritten
    <3>3. form' = made /\ Len(made) <= MaxUpload /\ OneModel(made)
          /\ \A p \in ToSet(made) : p.name \notin Forbidden
      BY <2>1, <2>7, <3>1, <3>2
    <3> HIDE DEF made
    <3>4. Len(form') <= MaxUpload /\ OneModel(form') /\ \A p \in ToSet(form') : p.name \notin Forbidden
      BY <3>3
    <3>5. ask'.kind = "upload" BY <2>1
    <3>6. QED BY <3>4, <3>5 DEF Acceptable
  <2>9. RelayedAsSent'
    <3> DEFINE kept == {p \in ToSet(Rewritten) : p.from = "client"}
               wanted == {p \in ToSet(ask.parts) : p.name \notin names}
    <3>1. \A p \in Servers : p \notin kept BY <2>5
    <3>2. \A p \in ToSet(ask.parts) : p \in wanted <=> p \in Relayed /\ p \in kept
      <4>1. \A p \in ToSet(ask.parts) : p \in Relayed <=> p.name \notin names BY <2>3 DEF Relayed
      <4>2. \A p \in Relayed : p \in kept BY <2>4, <2>6
      <4>3. QED BY <4>1, <4>2
    <3> HIDE DEF kept, wanted
    <3>3. Among(base, kept) = Among(ask.parts, wanted)
      BY <2>2, <3>2, AmongTwice DEF base
    <3>4. Among(Rewritten, kept) = Among(base, kept)
      <4>1. \A p \in Servers : p \in kept => p.name = "model" BY <3>1
      <4>2. Among(Rewritten, kept) =
              IF model \in kept THEN Append(Among(base, kept), model) ELSE Among(base, kept)
        BY <2>2, <4>1, FormFacts DEF model, base
      <4>3. model \notin kept BY <2>5, <3>1
      <4>4. QED BY <4>2, <4>3
    <3>5. {p.name : p \in {q \in ToSet(Rewritten) : q.from = "server"}}
          = {"model", "metadata"} \cup (IF upstream.forwardUser THEN {"user"} ELSE {})
      <4>1. {q \in ToSet(Rewritten) : q.from = "server"} = Servers BY <2>4, <2>5, <2>6
      <4>2. QED BY <2>5, <4>1
    <3> DEFINE made == Rewritten
    <3>6. /\ form' = made
          /\ Among(made, {p \in ToSet(made) : p.from = "client"})
             = Among(ask.parts, {p \in ToSet(ask.parts) : p.name \notin Controlled \cup {"model"}})
          /\ {p.name : p \in {q \in ToSet(made) : q.from = "server"}}
             = {"model", "metadata"} \cup (IF upstream.forwardUser THEN {"user"} ELSE {})
      BY <2>1, <3>3, <3>4, <3>5 DEF kept, wanted, names
    <3> HIDE DEF made
    <3>7. /\ Among(form', {p \in ToSet(form') : p.from = "client"})
             = Among(ask'.parts, {p \in ToSet(ask'.parts) : p.name \notin Controlled \cup {"model"}})
          /\ {p.name : p \in {q \in ToSet(form') : q.from = "server"}}
             = {"model", "metadata"} \cup (IF upstream'.forwardUser THEN {"user"} ELSE {})
      BY <2>1, <3>6
    <3>8. ask'.kind # "relay" BY <2>1
    <3>9. QED BY <3>7, <3>8 DEF RelayedAsSent
  <2>10. BodyKnown' BY <2>1 DEF BodyInv, BodyKnown
  <2>11. ask'.kind = "upload" /\ ask'.kind \notin Translated BY <2>1 DEF Translated
  <2>12. QED BY <2>1, <2>8, <2>9, <2>10, <2>11 DEF BodyInv
<1>3. QED BY <1>1, <1>2

LEMMA SendKeeps ==
    ASSUME BodyInv, Send
    PROVE  BodyInv'
<1>1. /\ sending = "translated" /\ sending' = IF Acceptable THEN "sent" ELSE "rejected"
      /\ UNCHANGED <<ask, behavior, upstream, fields, form>>
  BY DEF Send
<1>2. /\ ServerDecides' <=> ServerDecides
      /\ OperatorThenClient' <=> OperatorThenClient
      /\ RelayedAsSent' <=> RelayedAsSent
      /\ Acceptable' <=> Acceptable
      /\ OperatorsKeys' = OperatorsKeys
  <2>1. OperatorsKeys' = OperatorsKeys BY <1>1 DEF OperatorsKeys
  <2>2. \A key : From(key)' = From(key) BY <1>1 DEF From
  <2>3. Streams' = Streams /\ Attributes' = Attributes BY <1>1 DEF Streams, Attributes
  <2>4. ServerDecides' <=> ServerDecides BY <1>1, <2>2, <2>3 DEF ServerDecides
  <2>5. OperatorThenClient' <=> OperatorThenClient BY <1>1, <2>1, <2>2 DEF OperatorThenClient
  <2>6. RelayedAsSent' <=> RelayedAsSent BY <1>1, <2>2, <2>3 DEF RelayedAsSent
  <2>7. Acceptable' <=> Acceptable BY <1>1 DEF Acceptable
  <2>8. QED BY <2>1, <2>4, <2>5, <2>6, <2>7
<1>3. sending' \in {"sent", "rejected"} /\ (sending' = "rejected" => ~Acceptable) BY <1>1
<1>4. BodyKnown' BY <1>1, <1>3 DEF BodyInv, BodyKnown
<1>5. QED BY <1>1, <1>2, <1>3, <1>4 DEF BodyInv

LEMMA BodyStays ==
    ASSUME BodyInv, UNCHANGED bodyVars
    PROVE  BodyInv'
<1>1. UNCHANGED <<ask, behavior, upstream, fields, form, sending>> BY DEF bodyVars
<1>2. OperatorsKeys' = OperatorsKeys /\ Streams' = Streams /\ Attributes' = Attributes
  BY <1>1 DEF OperatorsKeys, Streams, Attributes
<1>3. \A key : From(key)' = From(key) BY <1>1 DEF From
<1>4. ServerDecides' <=> ServerDecides BY <1>1, <1>2, <1>3 DEF ServerDecides
<1>5. OperatorThenClient' <=> OperatorThenClient BY <1>1, <1>2, <1>3 DEF OperatorThenClient
<1>6. RelayedAsSent' <=> RelayedAsSent BY <1>1, <1>2, <1>3 DEF RelayedAsSent
<1>7. (Acceptable' <=> Acceptable) /\ (BodyKnown' <=> BodyKnown) BY <1>1 DEF Acceptable, BodyKnown
<1>8. QED BY <1>1, <1>2, <1>4, <1>5, <1>6, <1>7 DEF BodyInv

LEMMA BodyKeeps == BodyInv /\ [BodyNext]_bodyVars => BodyInv'
<1> SUFFICES ASSUME BodyInv, [BodyNext]_bodyVars PROVE BodyInv'
  OBVIOUS
<1>1. CASE Translate BY <1>1, TranslateKeeps
<1>2. CASE Relay BY <1>2, RelayKeeps
<1>3. CASE Rewrite BY <1>3, RewriteKeeps
<1>4. CASE Send BY <1>4, SendKeeps
<1>5. CASE UNCHANGED bodyVars BY <1>5, BodyStays
<1>6. QED BY <1>1, <1>2, <1>3, <1>4, <1>5 DEF BodyNext

\* For every request, every configuration of the model and every upstream: what is
\* sent has each field from the owner that decides it, a relayed body or form keeps
\* the rest, and the sender refuses only an extra_body that the operator configured.
THEOREM EveryOwnerDecides == BodySpec => []OwnersDecide
<1>1. BodyInit => BodyInv BY DEF BodyInit, BodyInv, BodyKnown
<1>2. BodyInv /\ [BodyNext]_bodyVars => BodyInv' BY BodyKeeps
<1>3. BodyInv => OwnersDecide BY DEF BodyInv, OwnersDecide
<1>4. QED BY <1>1, <1>2, <1>3, PTL DEF BodySpec

(* Types *)

Sources == {"client", "alias", "operator", "server"}
Sourced(body) == \A key \in DOMAIN body : body[key].from \subseteq Sources
BodyTypes == BodyInv /\ Sourced(fields) /\ Len(form) <= MaxUpload

LEMMA OverSourced ==
    ASSUME NEW upper, NEW lower, Sourced(upper), Sourced(lower)
    PROVE  Sourced(upper ++ lower)
<1> DEFINE both == upper ++ lower
<1>1. /\ DOMAIN both = DOMAIN upper \cup DOMAIN lower
      /\ \A key \in DOMAIN upper : both[key] = upper[key]
      /\ \A key \in DOMAIN lower \ DOMAIN upper : both[key] = lower[key]
  BY OverFacts
<1> HIDE DEF both
<1>2. \A key \in DOMAIN both : both[key].from \subseteq Sources BY <1>1 DEF Sourced
<1>3. QED BY <1>2 DEF Sourced, both

LEMMA ServerSourced ==
    ASSUME NEW keys PROVE Sourced(Server(keys))
BY ServerFacts DEF Sourced, Sources

LEMMA ClientSourced ==
    ASSUME NEW keys PROVE Sourced([key \in keys |-> Object("client")])
BY DEF Sourced, Sources, Object

LEMMA OptionsSourced == Sourced(Options)
<1> DEFINE sent == {k \in DOMAIN Effective : OptionIsSent(k)}
           For(key) == CHOOSE k \in sent : Upward[k] = key
           source(key) == OptionSource(For(key))
<1>1. Options = [key \in {Upward[k] : k \in sent} |-> Scalar(source(key))] BY DEF Options
<1>2. \A key : source(key) \in Sources BY DEF OptionSource, Sources
<1> HIDE DEF source, sent
<1>3. \A key \in DOMAIN Options : Options[key].from = {source(key)} BY <1>1 DEF Scalar
<1>4. QED BY <1>2, <1>3 DEF Sourced

LEMMA ClientFieldsSourced == ask.kind \in Translated => Sourced(ClientFields)
<1>1. CASE ask.kind = "embeddings" BY <1>1, ServerSourced DEF ClientFields
<1>2. CASE ask.kind = "chat"
  <2> DEFINE asked == [key \in ask.keys |-> Object("client")]
  <2>1. ClientFields = asked ++ Options BY <1>2 DEF ClientFields
  <2>2. Sourced(asked) BY ClientSourced
  <2> HIDE DEF asked
  <2>3. QED BY <2>1, <2>2, OptionsSourced, OverSourced
<1>3. CASE ask.kind = "completions" BY <1>3, OptionsSourced DEF ClientFields
<1>4. QED BY <1>1, <1>2, <1>3 DEF Translated

\* Finalize adds the operator's and the server's, and nobody else's.
LEMMA BodySourced ==
    ASSUME BodyKnown, ask.kind \in Translated, DOMAIN behavior.extra \cap Protected = {},
           ~TagsFail(Assembled(ClientFields, OwnFields))
    PROVE  Sourced(Restored(Tagged(Assembled(ClientFields, OwnFields))))
<1> DEFINE all == Assembled(ClientFields, OwnFields)
           tagged == Tagged(all)
           restored == Restored(tagged)
<1>1. /\ \A key \in Protected : key \in DOMAIN all => all[key].from = {"server"}
      /\ \A key \in DOMAIN all \ Protected : all[key].from \subseteq
           {"operator"} \cup (IF key \in DOMAIN ClientFields THEN ClientFields[key].from ELSE {})
  BY AssembledOwners
<1>2. Sourced(ClientFields) BY ClientFieldsSourced
<1> HIDE DEF all
<1>3. Sourced(all) BY <1>1, <1>2 DEF Sourced, Sources
<1>4. /\ DOMAIN tagged = DOMAIN all \cup (IF upstream.tags THEN {"metadata"} ELSE {})
      /\ \A key \in DOMAIN all \ {"metadata"} : tagged[key] = all[key]
      /\ "metadata" \in DOMAIN tagged => tagged["metadata"].from \subseteq
           {"server"} \cup (IF "metadata" \in DOMAIN all THEN all["metadata"].from ELSE {})
  <2>1. ~TagsFail(all) BY DEF all
  <2>2. QED BY <2>1, TaggedFacts
<1> HIDE DEF tagged
<1>5. Sourced(tagged)
  <2>1. \A key \in DOMAIN tagged : key = "metadata" \/ key \in DOMAIN all \ {"metadata"}
    BY <1>4
  <2>2. \A key \in DOMAIN all \ {"metadata"} : tagged[key].from \subseteq Sources
    BY <1>3, <1>4 DEF Sourced
  <2>3. "metadata" \in DOMAIN tagged => tagged["metadata"].from \subseteq Sources
    BY <1>3, <1>4 DEF Sourced, Sources
  <2>4. QED BY <2>1, <2>2, <2>3 DEF Sourced
<1>6. Sourced(restored)
  <2>1. CASE ask.kind # "embeddings" BY <1>5, <2>1 DEF Restored
  <2>2. CASE ask.kind = "embeddings"
    <3>1. restored = Server({"encoding_format"}) ++ tagged BY <2>2 DEF Restored
    <3> DEFINE format == Server({"encoding_format"})
    <3>2. Sourced(format) BY ServerSourced
    <3> HIDE DEF format
    <3>3. Sourced(format ++ tagged) BY <1>5, <3>2, OverSourced
    <3>4. QED BY <3>1, <3>3 DEF format
  <2>3. QED BY <2>1, <2>2
<1>7. QED BY <1>6 DEF all, tagged

LEMMA RelayedSourced == Sourced(Attributes ++ [key \in ask.keys \ Controlled |-> Object("client")])
<1> DEFINE own == {"model"} \cup (IF upstream.forwardUser THEN {"user"} ELSE {})
                            \cup (IF ask.choices THEN {"n"} ELSE {})
           tag == [key \in {"metadata"} |-> Object("server")]
           client == [key \in ask.keys \ Controlled |-> Object("client")]
           first == Server(own)
<1>1. Attributes = first ++ tag BY DEF Attributes
<1>2. Sourced(first) BY ServerSourced
<1>3. Sourced(tag) BY DEF Sourced, Sources, Object
<1>4. Sourced(client) BY ClientSourced
<1> HIDE DEF first, tag, client
<1>5. Sourced(Attributes) BY <1>1, <1>2, <1>3, OverSourced
<1>6. Sourced(Attributes ++ client) BY <1>4, <1>5, OverSourced
<1>7. QED BY <1>6 DEF client

LEMMA BodyTyped ==
    ASSUME BodyTypes, [BodyNext]_bodyVars
    PROVE  Sourced(fields') /\ Len(form') <= MaxUpload
<1>1. ASSUME UNCHANGED <<fields, form>> PROVE Sourced(fields') /\ Len(form') <= MaxUpload
  <2>1. Sourced(fields) /\ Len(form) <= MaxUpload BY DEF BodyTypes
  <2>2. fields' = fields /\ form' = form BY <1>1
  <2>3. QED BY <2>1, <2>2
<1>2. CASE RefuseBody BY <1>1, <1>2 DEF RefuseBody
<1>3. CASE Translate /\ ~RefuseBody
  <2> DEFINE assembled == Assembled(ClientFields, OwnFields)
             made == Restored(Tagged(assembled))
  <2>1. /\ ask.kind \in Translated /\ DOMAIN behavior.extra \cap Protected = {}
        /\ ~TagsFail(assembled) /\ fields' = made /\ form' = form
    BY <1>3 DEF Translate
  <2>2. BodyKnown BY DEF BodyTypes, BodyInv
  <2>3. Sourced(made) BY <2>1, <2>2, BodySourced
  <2> HIDE DEF made
  <2>4. Sourced(fields') BY <2>1, <2>3
  <2>5. Len(form') <= MaxUpload BY <2>1 DEF BodyTypes
  <2>6. QED BY <2>4, <2>5
<1>4. CASE Relay /\ ~RefuseBody
  <2> DEFINE made == Attributes ++ [key \in ask.keys \ Controlled |-> Object("client")]
  <2>1. fields' = made /\ form' = form BY <1>4 DEF Relay
  <2>2. Sourced(made) BY RelayedSourced
  <2> HIDE DEF made
  <2>3. Sourced(fields') BY <2>1, <2>2
  <2>4. Len(form') <= MaxUpload BY <2>1 DEF BodyTypes
  <2>5. QED BY <2>3, <2>4
<1>5. CASE Rewrite /\ ~RefuseBody
  <2>1. ask.kind = "upload" /\ ~(Len(Rewritten) > MaxUpload) /\ form' = Rewritten /\ fields' = fields
    BY <1>5 DEF Rewrite
  <2>2. IsSeq(ask.parts) /\ MaxUpload \in Nat
    BY BodyAssumption DEF BodyTypes, BodyInv, BodyKnown, IsSeq
  <2>3. IsSeq(Rewritten)
    <3> DEFINE none == {}
    <3>1. \A p \in Servers : p \in none => p.name = "model" OBVIOUS
    <3> HIDE DEF none
    <3>2. QED BY <2>2, <3>1, FormFacts
  <2>4. Len(Rewritten) \in Nat BY <2>3, SeqFacts
  <2>5. Len(Rewritten) <= MaxUpload BY <2>1, <2>2, <2>4
  <2> DEFINE made == Rewritten
  <2>6. form' = made /\ Len(made) <= MaxUpload BY <2>1, <2>5
  <2> HIDE DEF made
  <2>7. Len(form') <= MaxUpload BY <2>6
  <2>8. Sourced(fields) BY DEF BodyTypes
  <2>9. Sourced(fields') BY <2>1, <2>8
  <2>10. QED BY <2>7, <2>9
<1>6. CASE Send \/ UNCHANGED bodyVars BY <1>1, <1>6 DEF Send, bodyVars
<1>7. QED BY <1>2, <1>3, <1>4, <1>5, <1>6 DEF BodyNext

\* For every request and configuration: a field comes from the client, the alias, the
\* operator or the server, and no form has more parts than it may.
THEOREM BodyTypeCorrect == BodySpec => []BodyTypeOK
<1>1. BodyInit => BodyTypes
  <2> SUFFICES ASSUME BodyInit PROVE BodyTypes
    OBVIOUS
  <2>1. BodyInv BY DEF BodyInit, BodyInv, BodyKnown
  <2>2. fields = <<>> /\ form = <<>> BY DEF BodyInit
  <2>3. Sourced(fields) BY <2>2, EmptyFacts DEF Sourced
  <2>4. Len(form) <= MaxUpload BY <2>2, EmptyFacts, BodyAssumption
  <2>5. QED BY <2>1, <2>3, <2>4 DEF BodyTypes
<1>2. BodyTypes /\ [BodyNext]_bodyVars => BodyTypes'
  <2> SUFFICES ASSUME BodyTypes, [BodyNext]_bodyVars PROVE BodyTypes'
    OBVIOUS
  <2>1. BodyInv' BY BodyKeeps DEF BodyTypes
  <2>2. Sourced(fields') /\ Len(form') <= MaxUpload BY BodyTyped
  <2>3. QED BY <2>1, <2>2 DEF BodyTypes
<1>3. BodyTypes => BodyTypeOK
  BY DEF BodyTypes, BodyInv, BodyKnown, BodyTypeOK, Sourced, Sources
<1>4. QED BY <1>1, <1>2, <1>3, PTL DEF BodySpec
=============================================================================
