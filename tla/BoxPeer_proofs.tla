--------------------------- MODULE BoxPeer_proofs ---------------------------
(***************************************************************************)
(* BoxPeer, for any dongle's room, any ports of others, any number of      *)
(* links and restarts, without the debug setting "both".                   *)
(***************************************************************************)
EXTENDS BoxPeer, FiniteSetTheorems, WellFoundedInduction, TLAPS

-----------------------------------------------------------------------------
(* One message after another *)

LessThan == {ss \in Nat \X Nat : ss[1] < ss[2]}

LEMMA LeastNatural == ASSUME NEW S, S \subseteq Nat, S # {} PROVE \E x \in S : \A y \in S : x <= y
<1>1. IsWellFoundedOn(LessThan, Nat)
  BY NatLessThanWellFounded, Zenon DEF OpToRel, LessThan
<1>2. PICK x \in S : \A y \in S : ~(<<y, x>> \in LessThan)
  BY <1>1, WFMin, Zenon
<1>3. \A y \in S : ~(y < x)
  BY <1>2 DEF LessThan
<1> QED BY <1>3

\* What the messages up to the n-th make of a view.
Hears(v, said, n, f) ==
    f = [k \in 0..n |-> IF k = 0 THEN v ELSE observe(f[k - 1], said[k])]

LEMMA HearingOn ==
    ASSUME NEW v, NEW said, NEW n \in Nat, NEW f, Hears(v, said, n, f)
    PROVE  Hears(v, said, n + 1, [k \in 0..(n + 1) |-> IF k <= n THEN f[k] ELSE observe(f[n], said[n + 1])])
<1> DEFINE g == [k \in 0..(n + 1) |-> IF k <= n THEN f[k] ELSE observe(f[n], said[n + 1])]
<1>1. ASSUME NEW k \in 0..(n + 1)
      PROVE  g[k] = IF k = 0 THEN v ELSE observe(g[k - 1], said[k])
  <2>1. CASE k = 0
    BY <2>1 DEF Hears
  <2>2. CASE k \in 1..n
    <3>1. f[k] = observe(f[k - 1], said[k])
      BY <2>2 DEF Hears
    <3> QED BY <2>2, <3>1
  <2>3. CASE k = n + 1
    BY <2>3
  <2> QED BY <2>1, <2>2, <2>3
<1> HIDE DEF g
<1>2. g = [k \in 0..(n + 1) |-> IF k = 0 THEN v ELSE observe(g[k - 1], said[k])]
  <2>1. g = [k \in 0..(n + 1) |-> g[k]]
    BY DEF g
  <2> QED BY <1>1, <2>1
<1> QED BY <1>2 DEF Hears, g

LEMMA ThereIsAHearing == ASSUME NEW v, NEW said, NEW n \in Nat PROVE \E f : Hears(v, said, n, f)
<1> DEFINE not == {k \in Nat : ~\E f : Hears(v, said, k, f)}
<1> SUFFICES ASSUME not # {} PROVE FALSE
  OBVIOUS
<1>1. PICK k \in not : \A j \in not : k <= j
  BY LeastNatural
<1>2. Hears(v, said, 0, [i \in 0..0 |-> v])
  BY DEF Hears
<1>3. k - 1 \in Nat /\ k - 1 \notin not
  BY <1>1, <1>2
<1>4. PICK f : Hears(v, said, k - 1, f)
  BY <1>3
<1>5. \E g : Hears(v, said, (k - 1) + 1, g)
  BY <1>3, <1>4, HearingOn
<1>6. (k - 1) + 1 = k
  BY <1>1
<1> QED BY <1>1, <1>5, <1>6

LEMMA ObservedIsHeard ==
    ASSUME NEW v, NEW said \in Seq(Message)
    PROVE  \E f : Hears(v, said, Len(said), f) /\ Observed(v, said) = f[Len(said)]
<1> DEFINE n == Len(said)
           g == CHOOSE h : Hears(v, said, n, h)
<1>1. Observed(v, said) = g[n]
  BY DEF Observed, Hears
<1>2. n \in Nat
  OBVIOUS
<1>3. Hears(v, said, n, g)
  <2> HIDE DEF n
  <2> QED BY <1>2, ThereIsAHearing
<1> QED BY <1>1, <1>3

-----------------------------------------------------------------------------
(* What is on its way *)

Silent(s, w) == s.inq[w] = <<>> /\ s.sending[w] = <<>>

\* At most a greeting.
Greeting(s, w) ==
    \/ Silent(s, w)
    \/ s.inq[w] = <<hello>> /\ s.sending[w] = <<>>
    \/ s.inq[w] = <<>> /\ s.sending[w] = <<hello>>

\* What was heard of an answer and what is on its way follow one another: pend
\* holds its first rows, arrived continues it from the n-th message on, and
\* coming continues that.
OneAnswer(id, a, pend, arrived, n, coming) ==
    /\ Len(pend) <= Heads
    /\ Len(pend) + Len(arrived) + Len(coming) <= Heads + 1 + n
    /\ \A i \in 1..Len(pend) : pend[i] = RowOf(id, a, i)
    /\ \A i \in 1..(Len(arrived) - n) : arrived[n + i] = Said(id, a, Len(pend) + i)
    /\ \A i \in 1..Len(coming) : coming[i] = Said(id, a, Len(pend) + Len(arrived) - n + i)

\* Nothing of it is missing: there is none, or there is all.
Complete(pend, arrived, n, coming) ==
    Len(pend) + Len(arrived) + Len(coming) - n \in {0, Heads + 1}

Rows(id, a) == [i \in 1..Heads |-> RowOf(id, a, i)]

Shown(v, id) == v.current = <<>> \/ \E a \in 0..1 : v.current = Rows(id, a)

-----------------------------------------------------------------------------
(* An answer *)

LEMMA InOrder ==
    /\ Heads \in Nat
    /\ order \in [1..Heads -> Room]
    /\ \A b \in Room : \E i \in 1..Heads : order[i] = b
<1>1. Heads \in Nat /\ Bijection(1..Heads, Room) # {}
  BY BoxPeerAssumption, FS_CardinalityType DEF BoxPeerAssumption, Heads, ExistsBijection
<1>2. order \in Bijection(1..Heads, Room)
  BY <1>1 DEF order
<1>3. order \in Surjection(1..Heads, Room)
  BY <1>2 DEF Bijection
<1> QED BY <1>1, <1>3 DEF Surjection

LEMMA SaidIs ==
    ASSUME NEW id \in 0..MaxLinks, NEW a \in 0..1, NEW i \in 1..(Heads + 1)
    PROVE  /\ Said(id, a, i) \in Message
           /\ i = Heads + 1 => Said(id, a, i).verb = "end"
           /\ i <= Heads => /\ Said(id, a, i).verb = "dev" /\ Said(id, a, i).row = RowOf(id, a, i)
                            /\ RowOf(id, a, i) \in Row
<1>1. Heads \in Nat
  BY InOrder
<1>2. CASE i = Heads + 1
  BY <1>1, <1>2 DEF Said, Message
<1>3. CASE i <= Heads
  <2>1. order[i] \in Room
    BY <1>1, <1>3, InOrder
  <2>2. RowOf(id, a, i) \in Row
    BY <2>1 DEF RowOf, Row
  <2>3. Said(id, a, i) = [verb |-> "dev", row |-> RowOf(id, a, i)]
    BY <1>1, <1>3 DEF Said
  <2> QED BY <1>1, <1>3, <2>2, <2>3 DEF Message
<1> QED BY <1>1, <1>2, <1>3

LEMMA AnswerIs ==
    ASSUME NEW id \in 0..MaxLinks, box.answer \in 0..1
    PROVE  /\ Answer(id) \in Seq(Message) /\ Len(Answer(id)) = Heads + 1
           /\ \A i \in 1..(Heads + 1) : Answer(id)[i] = Said(id, box.answer, i)
<1> DEFINE m == Heads + 1
<1>1. m \in Nat /\ Answer(id) = [i \in 1..m |-> Said(id, box.answer, i)]
  BY InOrder DEF Answer
<1>2. \A i \in 1..m : Said(id, box.answer, i) \in Message
  BY SaidIs
<1> HIDE DEF m
<1>3. Answer(id) \in Seq(Message) /\ Len(Answer(id)) = m
  BY <1>1, <1>2
<1>4. \A i \in 1..m : Answer(id)[i] = Said(id, box.answer, i)
  BY <1>1
<1> QED BY <1>3, <1>4 DEF m

\* What a view makes of one message.
Took(u, v, m) ==
    /\ u \in View
    /\ u.attached = v.attached /\ u.asked = v.asked /\ u.dated = v.dated
    /\ m.verb = "dev" => /\ u.batch = TRUE /\ u.current = v.current
                         /\ u.pending = Append(IF v.batch THEN v.pending ELSE <<>>, m.row)
    /\ m.verb = "end" => u.batch = FALSE /\ u.current = v.pending /\ u.pending = <<>>
    /\ m = hello => u = [v EXCEPT !.greeted = TRUE]

LEMMA ObserveIs == ASSUME NEW v \in View, NEW m \in Message PROVE Took(observe(v, m), v, m)
<1>1. CASE m.verb = "dev"
  <2>1. m.row \in Row
    BY <1>1 DEF Message
  <2>2. Append(IF v.batch THEN v.pending ELSE <<>>, m.row) \in Seq(Row)
    BY <2>1 DEF View
  <2>3. observe(v, m) = [v EXCEPT !.batch = TRUE, !.pending = Append(IF v.batch THEN v.pending ELSE <<>>, m.row)]
    BY <1>1 DEF observe
  <2>4. m # hello
    BY <1>1 DEF hello
  <2> DEFINE more == Append(IF v.batch THEN v.pending ELSE <<>>, m.row)
  <2>5. more \in Seq(Row) /\ observe(v, m) = [v EXCEPT !.batch = TRUE, !.pending = more]
    BY <2>2, <2>3
  <2> HIDE DEF more
  <2>6. /\ observe(v, m) \in View
        /\ observe(v, m).attached = v.attached /\ observe(v, m).asked = v.asked /\ observe(v, m).dated = v.dated
        /\ observe(v, m).batch = TRUE /\ observe(v, m).current = v.current /\ observe(v, m).pending = more
    BY <2>5 DEF View
  <2> QED BY <1>1, <2>4, <2>6 DEF more, Took
<1>2. CASE m.verb = "hello"
  <2>1. observe(v, m) = [v EXCEPT !.greeted = TRUE]
    BY <1>2 DEF observe
  <2> QED BY <1>2, <2>1 DEF View, Took
<1>3. CASE m.verb = "end"
  <2>1. observe(v, m) = [v EXCEPT !.current = v.pending, !.pending = <<>>, !.batch = FALSE, !.answered = TRUE]
    BY <1>3 DEF observe
  <2>2. m # hello
    BY <1>3 DEF hello
  <2> DEFINE pend == v.pending
  <2>4. pend \in Seq(Row) /\ <<>> \in Seq(Row)
    BY DEF View
  <2>5. observe(v, m) = [v EXCEPT !.current = pend, !.pending = <<>>, !.batch = FALSE, !.answered = TRUE]
    BY <2>1
  <2> HIDE DEF pend
  <2>3. /\ observe(v, m) \in View
        /\ observe(v, m).attached = v.attached /\ observe(v, m).asked = v.asked /\ observe(v, m).dated = v.dated
        /\ observe(v, m).batch = FALSE /\ observe(v, m).current = pend /\ observe(v, m).pending = <<>>
    BY <2>4, <2>5 DEF View
  <2> QED BY <1>3, <2>2, <2>3 DEF pend, Took
<1> QED BY <1>1, <1>2, <1>3 DEF Message

\* A view that is in the middle of hearing an answer.
Hearing(v, id, a, arrived, n, coming) ==
    /\ ~v.batch => v.pending = <<>>
    /\ Shown(v, id)
    /\ OneAnswer(id, a, v.pending, arrived, n, coming)

LEMMA HearOne ==
    ASSUME NEW id \in 0..MaxLinks, NEW a \in 0..1, NEW v \in View, NEW arrived \in Seq(Message),
           NEW coming \in Seq(Message), NEW n \in Nat, n < Len(arrived), Hearing(v, id, a, arrived, n, coming),
           NEW u, u = observe(v, arrived[n + 1])
    PROVE  /\ Hearing(u, id, a, arrived, n + 1, coming)
           /\ Complete(v.pending, arrived, n, coming) => Complete(u.pending, arrived, n + 1, coming)
<1> DEFINE m == arrived[n + 1]
           pend == v.pending
           k == Len(pend)
           la == Len(arrived)
           lc == Len(coming)
<1>1. Heads \in Nat /\ k \in Nat /\ la \in Nat /\ lc \in Nat /\ pend \in Seq(Row) /\ m \in Message
  BY InOrder DEF View
<1>2. /\ k <= Heads /\ k + la + lc <= Heads + 1 + n /\ n < la
      /\ \A i \in 1..k : pend[i] = RowOf(id, a, i)
      /\ \A i \in 1..(la - n) : arrived[n + i] = Said(id, a, k + i)
      /\ \A i \in 1..lc : coming[i] = Said(id, a, k + la - n + i)
      /\ ~v.batch => pend = <<>>
      /\ Shown(v, id)
  BY DEF Hearing, OneAnswer
<1>3. m = Said(id, a, k + 1) /\ k + 1 \in 1..(Heads + 1)
  BY <1>1, <1>2
<1>4. Took(u, v, m)
  BY <1>1, ObserveIs
<1> HIDE DEF m, la, lc
<1>5. CASE k < Heads
  <2> DEFINE row == RowOf(id, a, k + 1)
             more == Append(pend, row)
  <2>1. m.verb = "dev" /\ m.row = row /\ row \in Row
    BY <1>1, <1>3, <1>5, SaidIs
  <2>2. u.batch /\ u.current = v.current /\ u.pending = Append(IF v.batch THEN v.pending ELSE <<>>, m.row)
    BY <1>4, <2>1 DEF Took
  <2>3. u.pending = more
    BY <1>2, <2>1, <2>2
  <2> HIDE DEF row
  <2>4. more \in Seq(Row) /\ Len(more) = k + 1 /\ more[k + 1] = row /\ \A i \in 1..k : more[i] = pend[i]
    BY <1>1, <2>1
  <2> HIDE DEF more, k, pend
  <2>5. \A i \in 1..(k + 1) : more[i] = RowOf(id, a, i)
    <3> SUFFICES ASSUME NEW i \in 1..(k + 1) PROVE more[i] = RowOf(id, a, i)
      OBVIOUS
    <3>1. CASE i \in 1..k
      BY <1>2, <2>4, <3>1
    <3>2. CASE i = k + 1
      BY <2>4, <3>2 DEF row
    <3> QED BY <1>1, <3>1, <3>2
  <2>6. \A i \in 1..(la - (n + 1)) : arrived[(n + 1) + i] = Said(id, a, (k + 1) + i)
    <3> SUFFICES ASSUME NEW i \in 1..(la - (n + 1)) PROVE arrived[(n + 1) + i] = Said(id, a, (k + 1) + i)
      OBVIOUS
    <3>1. i + 1 \in 1..(la - n) /\ n + (i + 1) = (n + 1) + i /\ k + (i + 1) = (k + 1) + i
      BY <1>1
    <3>2. arrived[n + (i + 1)] = Said(id, a, k + (i + 1))
      BY <1>2, <3>1
    <3> QED BY <3>1, <3>2
  <2>7. \A i \in 1..lc : coming[i] = Said(id, a, (k + 1) + la - (n + 1) + i)
    <3> SUFFICES ASSUME NEW i \in 1..lc PROVE coming[i] = Said(id, a, (k + 1) + la - (n + 1) + i)
      OBVIOUS
    <3>1. k + la - n + i = (k + 1) + la - (n + 1) + i
      BY <1>1
    <3> QED BY <1>2, <3>1
  <2>8. OneAnswer(id, a, more, arrived, n + 1, coming)
    <3>1. k + 1 <= Heads /\ (k + 1) + la + lc <= Heads + 1 + (n + 1)
      BY <1>1, <1>2, <1>5
    <3> QED BY <2>4, <2>5, <2>6, <2>7, <3>1 DEF OneAnswer, la, lc
  <2>9. Complete(pend, arrived, n, coming) => Complete(more, arrived, n + 1, coming)
    <3>1. (k + 1) + la + lc - (n + 1) = k + la + lc - n
      BY <1>1
    <3> QED BY <2>4, <3>1 DEF Complete, la, lc, k
  <2>10. Shown(u, id)
    BY <1>2, <2>2 DEF Shown
  <2> QED BY <2>2, <2>3, <2>8, <2>9, <2>10 DEF Hearing, pend
<1>6. CASE k = Heads
  <2>1. m.verb = "end"
    BY <1>1, <1>3, <1>6, SaidIs
  <2>2. ~u.batch /\ u.current = pend /\ u.pending = <<>>
    BY <1>4, <2>1 DEF Took
  <2>3. la = n + 1 /\ lc = 0
    BY <1>1, <1>2, <1>6
  <2>4. pend = Rows(id, a)
    <3>1. pend = [i \in 1..k |-> pend[i]]
      BY <1>1
    <3> QED BY <1>2, <1>6, <3>1 DEF Rows
  <2>5. Shown(u, id)
    BY <2>2, <2>4 DEF Shown
  <2>6. Len(u.pending) = 0
    BY <2>2
  <2>7. OneAnswer(id, a, u.pending, arrived, n + 1, coming)
    <3>1. 0 <= Heads /\ 0 + la + lc <= Heads + 1 + (n + 1) /\ 1..(la - (n + 1)) = {} /\ 1..lc = {} /\ 1..0 = {}
      BY <1>1, <2>3
    <3> HIDE DEF k, pend
    <3> QED BY <2>6, <3>1 DEF OneAnswer, la, lc
  <2>8. Complete(u.pending, arrived, n + 1, coming)
    <3>1. 0 + la + lc - (n + 1) = 0
      BY <1>1, <2>3
    <3> QED BY <2>6, <3>1 DEF Complete, la, lc
  <2> QED BY <2>2, <2>5, <2>7, <2>8 DEF Hearing
<1>7. k < Heads \/ k = Heads
  BY <1>1, <1>2
<1> QED BY <1>5, <1>6, <1>7

\* Whatever is said, a view stays one, and of the same link.
SameLink(u, v) == u \in View /\ u.attached = v.attached /\ u.asked = v.asked /\ u.dated = v.dated

LEMMA ObservedSameLink ==
    ASSUME NEW v \in View, NEW said \in Seq(Message)
    PROVE  SameLink(Observed(v, said), v)
<1>1. PICK f : Hears(v, said, Len(said), f) /\ Observed(v, said) = f[Len(said)]
  BY ObservedIsHeard
<1> DEFINE n == Len(said)
           odd == {k \in 0..n : ~SameLink(f[k], v)}
<1> SUFFICES ASSUME odd # {} PROVE FALSE
  BY <1>1
<1>2. PICK k \in odd : \A j \in odd : k <= j
  <2>1. odd \subseteq Nat
    OBVIOUS
  <2> HIDE DEF odd
  <2> QED BY <2>1, LeastNatural
<1>3. f[0] = v /\ SameLink(v, v)
  BY <1>1 DEF Hears, SameLink
<1>4. k \in 1..n /\ k - 1 \in 0..n /\ k - 1 \notin odd /\ ~SameLink(f[k], v)
  BY <1>2, <1>3
<1>5. f[k] = observe(f[k - 1], said[k])
  BY <1>1, <1>4 DEF Hears
<1>6. said[k] \in Message /\ SameLink(f[k - 1], v)
  BY <1>4
<1>7. Took(f[k], f[k - 1], said[k])
  BY <1>5, <1>6, ObserveIs DEF SameLink
<1>8. SameLink(f[k], v)
  BY <1>6, <1>7 DEF SameLink, Took
<1> QED BY <1>4, <1>8

\* Hearing all that has arrived of an answer.
LEMMA ObservedHearing ==
    ASSUME NEW id \in 0..MaxLinks, NEW a \in 0..1, NEW v \in View, NEW arrived \in Seq(Message),
           NEW coming \in Seq(Message), Hearing(v, id, a, arrived, 0, coming),
           NEW u, u = Observed(v, arrived)
    PROVE  /\ Hearing(u, id, a, <<>>, 0, coming)
           /\ Complete(v.pending, arrived, 0, coming) => Complete(u.pending, <<>>, 0, coming)
<1>1. PICK f : Hears(v, arrived, Len(arrived), f) /\ u = f[Len(arrived)]
  BY ObservedIsHeard
<1> DEFINE n == Len(arrived)
           Good(k) == /\ f[k] \in View /\ Hearing(f[k], id, a, arrived, k, coming)
                      /\ Complete(v.pending, arrived, 0, coming) => Complete(f[k].pending, arrived, k, coming)
           odd == {k \in 0..n : ~Good(k)}
<1>2. Good(n)
  <2> SUFFICES ASSUME odd # {} PROVE FALSE
    OBVIOUS
  <2>1. PICK k \in odd : \A j \in odd : k <= j
    <3>1. odd \subseteq Nat
      OBVIOUS
    <3> HIDE DEF odd
    <3> QED BY <3>1, LeastNatural
  <2>2. f[0] = v
    BY <1>1 DEF Hears
  <2>3. Good(0)
    BY <2>2
  <2> HIDE DEF Good
  <2>4. k \in 1..n /\ k - 1 \in 0..n /\ k - 1 \notin odd /\ ~Good(k)
    BY <2>1, <2>3
  <2>5. f[k] = observe(f[k - 1], arrived[(k - 1) + 1]) /\ (k - 1) + 1 = k /\ k - 1 \in Nat /\ k - 1 < n
    BY <1>1, <2>4 DEF Hears
  <2>6. Good(k - 1)
    BY <2>4
  <2>7. Good(k)
    <3>1. arrived[(k - 1) + 1] \in Message
      BY <2>4, <2>5
    <3>2. f[k] \in View
      <4>1. Took(f[k], f[k - 1], arrived[(k - 1) + 1])
        BY <2>5, <2>6, <3>1, ObserveIs DEF Good
      <4> QED BY <4>1 DEF Took
    <3>3. /\ Hearing(f[k], id, a, arrived, (k - 1) + 1, coming)
          /\ Complete(f[k - 1].pending, arrived, k - 1, coming) => Complete(f[k].pending, arrived, (k - 1) + 1, coming)
      BY <2>5, <2>6, HearOne DEF Good
    <3> QED BY <2>5, <2>6, <3>2, <3>3 DEF Good
  <2> QED BY <2>4, <2>7
<1>3. u.pending \in Seq(Row) /\ u = f[n]
  BY <1>1, <1>2 DEF View
<1> DEFINE k == Len(u.pending)
           lc == Len(coming)
<1>4. k \in Nat /\ n \in Nat /\ lc \in Nat /\ Heads \in Nat /\ Len(<<>>) = 0
  BY <1>3, InOrder
<1>5. OneAnswer(id, a, u.pending, arrived, n, coming)
  BY <1>2, <1>3 DEF Hearing
<1> HIDE DEF Good
<1>6. OneAnswer(id, a, u.pending, <<>>, 0, coming)
  <2>1. /\ k <= Heads /\ k + n + lc <= Heads + 1 + n
        /\ \A i \in 1..k : u.pending[i] = RowOf(id, a, i)
        /\ \A i \in 1..lc : coming[i] = Said(id, a, k + n - n + i)
    BY <1>5 DEF OneAnswer
  <2> HIDE DEF k, lc, n
  <2>2. k + 0 + lc <= Heads + 1 + 0 /\ 1..(0 - 0) = {}
    BY <1>4, <2>1
  <2>3. \A i \in 1..lc : coming[i] = Said(id, a, k + 0 - 0 + i)
    <3> SUFFICES ASSUME NEW i \in 1..lc PROVE coming[i] = Said(id, a, k + 0 - 0 + i)
      OBVIOUS
    <3>1. k + n - n + i = k + 0 - 0 + i
      BY <1>4
    <3> QED BY <2>1, <3>1
  <2> QED BY <1>4, <2>1, <2>2, <2>3 DEF OneAnswer, k, lc
<1>7. Complete(u.pending, arrived, n, coming) => Complete(u.pending, <<>>, 0, coming)
  <2> HIDE DEF k, lc, n
  <2>1. k + n + lc - n = k + 0 + lc - 0
    BY <1>4
  <2> QED BY <1>4, <2>1 DEF Complete, k, lc, n
<1> QED BY <1>2, <1>3, <1>6, <1>7 DEF Good, Hearing

-----------------------------------------------------------------------------
(* The invariant.  It is about the record the parts of pump() hand on.     *)

Chain == [p : Peer, v : View, over : SUBSET Timer, inq : [Way -> Seq(Message)],
          sending : [Way -> Seq(Message)], written : SUBSET Strangers, links : 0..MaxLinks]

\* The cable: what is on its way is of the dongle that is at its end, and
\* until that one has greeted it is the greeting.
Cabled(s) ==
    /\ s.p.link # Cable \/ ~s.p.open => Silent(s, "usb")
    /\ s.p.usb => s.p.link = Cable
    /\ s.p.link = Cable /\ ~s.p.usb => Greeting(s, "usb")
    /\ s.p.link # "none" /\ ~s.p.open => s.p.gone

\* The air, likewise.
Aired(s) ==
    /\ s.p.air \in {"none", "open"} => Silent(s, "air") /\ ~s.p.greeted
    /\ s.p.air \in {"gone", "closed"} => s.sending["air"] = <<>>
    /\ s.p.air \in {"ready", "gone"} /\ ~s.p.greeted => Greeting(s, "air")
    /\ use = "off" => s.p.air = "none"

\* A link that has greeted and does not speak has nothing on its way.
NewIsSilent(s) ==
    /\ s.p.usb /\ s.p.carrying # "usb" => Silent(s, "usb")
    /\ s.p.greeted /\ s.p.carrying # "air" => Silent(s, "air")

\* The link that speaks.
Speaker(s) == IF s.p.carrying = "usb" THEN s.p.id ELSE s.p.airid

\* What is shown is of the link that speaks.
Shows(s) ==
    /\ s.p.carrying \in Way
    /\ s.p.carrying = "usb" => s.p.open
    /\ Shown(s.v, Speaker(s))

\* What that link has still to say completes what it has begun.
Told(s) ==
    LET w == s.p.carrying
    IN  /\ ~s.v.batch => s.v.pending = <<>>
        /\ \E a \in 0..1 : OneAnswer(Speaker(s), a, s.v.pending, s.inq[w], 0, s.sending[w])
        /\ Complete(s.v.pending, s.inq[w], 0, s.sending[w])
        /\ ~s.v.asked \/ "poll" \in s.over => Silent(s, w)

Wires(s) == s \in Chain /\ s.written = {} /\ s.p.boot <= box.boots /\ Cabled(s) /\ Aired(s)

\* Within pump(), before it is decided who speaks.
Conversing(s) == s.v.attached /\ (s.p.carrying = "air" => s.p.air = "ready") => Shows(s) /\ Told(s)

Pumping(s) == Wires(s) /\ NewIsSilent(s) /\ Conversing(s)

\* After that, only the links that have greeted are spoken to.
Decided(s) ==
    /\ s.p.air # "closed"
    /\ s.p.carrying = "usb" <=> s.p.usb
    /\ s.p.carrying = "air" <=> s.p.greeted

Spoken(s) == Wires(s) /\ Decided(s) /\ s.p.air # "gone" /\ (s.v.attached => Shows(s) /\ Told(s))

\* The link that speaks is lost, and pump() has not noticed.
Lost(s, b) ==
    \/ s.p.carrying = "usb" /\ ~(b.up /\ b.at = "mac" /\ b.boots = s.p.boot)
    \/ s.p.carrying = "air" /\ s.p.air # "ready"

Sound(s, b) ==
    /\ Wires(s) /\ Decided(s)
    /\ s.v.attached => Shows(s)
    /\ s.v.attached /\ ~Lost(s, b) => Told(s)

BoxInv ==
    /\ TypeOK
    /\ Sound(State, box)

-----------------------------------------------------------------------------
(* What the parts of pump() change *)

\* A link's messages and the rest, apart from the view.
SameLinks(t, s) ==
    /\ t.p.id = s.p.id /\ t.p.airid = s.p.airid /\ t.p.boot = s.p.boot /\ t.p.carrying = s.p.carrying
    /\ t.written = s.written

LEMMA ClosedIs == ASSUME NEW v \in View PROVE closed(v) \in View /\ ~closed(v).attached
<1>1. <<>> \in Seq(Row) /\ 0 \in 0..MaxDays
  BY BoxPeerAssumption DEF BoxPeerAssumption
<1> DEFINE none == <<>>
<1>2. closed(v) = [v EXCEPT !.attached = FALSE, !.greeted = FALSE, !.dated = 0, !.batch = FALSE, !.pending = none]
  BY DEF closed
<1> HIDE DEF none
<1> QED BY <1>1, <1>2 DEF View, none

LEMMA CloseIs ==
    ASSUME NEW s \in Chain, s.p.open, NEW t, t = close_usb(s)
    PROVE  /\ t \in Chain /\ SameLinks(t, s) /\ t.over = s.over /\ t.links = s.links
           /\ ~t.p.open /\ t.p.gone /\ t.p.link = s.p.link /\ t.p.usb = s.p.usb
           /\ t.p.air = s.p.air /\ t.p.greeted = s.p.greeted
           /\ Silent(t, "usb") /\ t.inq["air"] = s.inq["air"] /\ t.sending["air"] = s.sending["air"]
           /\ t.v = closed(s.v)
<1>1. t = [s EXCEPT !.p.open = FALSE, !.p.gone = TRUE, !.v = closed(@), !.inq["usb"] = <<>>, !.sending["usb"] = <<>>]
  BY DEF close_usb
<1>2. closed(s.v) \in View
  BY ClosedIs DEF Chain
<1> DEFINE c == closed(s.v)
           q == [s.p EXCEPT !.open = FALSE, !.gone = TRUE]
           a == [s.inq EXCEPT !["usb"] = <<>>]
           b == [s.sending EXCEPT !["usb"] = <<>>]
<1>3. t = [s EXCEPT !.p = q, !.v = c, !.inq = a, !.sending = b]
  BY <1>1
<1>4. /\ q \in Peer /\ ~q.open /\ q.gone /\ q.link = s.p.link /\ q.usb = s.p.usb /\ q.air = s.p.air
      /\ q.greeted = s.p.greeted /\ q.id = s.p.id /\ q.airid = s.p.airid /\ q.boot = s.p.boot /\ q.carrying = s.p.carrying
  BY DEF Chain, Peer
<1>5. /\ a \in [Way -> Seq(Message)] /\ a["usb"] = <<>> /\ a["air"] = s.inq["air"]
      /\ b \in [Way -> Seq(Message)] /\ b["usb"] = <<>> /\ b["air"] = s.sending["air"]
  BY DEF Chain, Way
<1> HIDE DEF q, a, b, c
<1>6. /\ t \in Chain /\ t.p = q /\ t.v = c /\ t.inq = a /\ t.sending = b /\ t.over = s.over /\ t.written = s.written
      /\ t.links = s.links
  BY <1>2, <1>3, <1>4, <1>5 DEF Chain, c
<1> QED BY <1>4, <1>5, <1>6 DEF SameLinks, Silent, c

LEMMA DeliverIs ==
    ASSUME NEW s \in Chain, NEW w \in Way, NEW d, d = Deliver(s, w)
    PROVE  /\ d \in Chain /\ SameLinks(d, s) /\ d.over = s.over /\ d.links = s.links /\ d.sending = s.sending
           /\ d.p.open = s.p.open /\ d.p.gone = s.p.gone /\ d.p.link = s.p.link /\ d.p.air = s.p.air
           /\ d.inq[w] = <<>> /\ \A x \in Way : x # w => d.inq[x] = s.inq[x]
           /\ d.v = IF s.p.carrying = w THEN Observed(s.v, s.inq[w]) ELSE s.v
           /\ d.p.usb <=> s.p.usb \/ (w = "usb" /\ \E i \in DOMAIN s.inq[w] : s.inq[w][i] = hello)
           /\ d.p.greeted <=> s.p.greeted \/ (w = "air" /\ \E i \in DOMAIN s.inq[w] : s.inq[w][i] = hello)
<1> DEFINE greets == \E i \in DOMAIN s.inq[w] : s.inq[w][i] = hello
           v == IF s.p.carrying = w THEN Observed(s.v, s.inq[w]) ELSE s.v
           u == s.p.usb \/ (w = "usb" /\ greets)
           g == s.p.greeted \/ (w = "air" /\ greets)
           q == [s.p EXCEPT !.usb = u, !.greeted = g]
           a == [s.inq EXCEPT ![w] = <<>>]
<1>1. d = [s EXCEPT !.v = v, !.inq = a, !.p = q]
  <2>1. d = [s EXCEPT !.v = v, !.inq[w] = <<>>, !.p.usb = @ \/ (w = "usb" /\ greets),
                      !.p.greeted = @ \/ (w = "air" /\ greets)]
    BY DEF Deliver
  <2> HIDE DEF v, greets
  <2> QED BY <2>1
<1>2. v \in View
  <2>1. s.v \in View /\ s.inq[w] \in Seq(Message)
    BY DEF Chain
  <2>2. SameLink(Observed(s.v, s.inq[w]), s.v)
    BY <2>1, ObservedSameLink
  <2> QED BY <2>1, <2>2 DEF SameLink
<1>3. a \in [Way -> Seq(Message)] /\ a[w] = <<>> /\ \A x \in Way : x # w => a[x] = s.inq[x]
  BY DEF Chain
<1>4. u \in BOOLEAN /\ g \in BOOLEAN
  <2> HIDE DEF greets
  <2> QED BY DEF Chain, Peer
<1> HIDE DEF u, g
<1>5. /\ q \in Peer /\ q.usb = u /\ q.greeted = g /\ q.open = s.p.open /\ q.gone = s.p.gone /\ q.link = s.p.link /\ q.air = s.p.air
      /\ q.id = s.p.id /\ q.airid = s.p.airid /\ q.boot = s.p.boot /\ q.carrying = s.p.carrying
  BY <1>4 DEF Chain, Peer
<1> HIDE DEF v, q, a, greets
<1>6. /\ d \in Chain /\ d.p = q /\ d.v = v /\ d.inq = a /\ d.sending = s.sending /\ d.over = s.over
      /\ d.written = s.written /\ d.links = s.links
  BY <1>1, <1>2, <1>3, <1>5 DEF Chain
<1>7. d \in Chain /\ SameLinks(d, s) /\ d.over = s.over /\ d.links = s.links /\ d.sending = s.sending
      /\ d.p.open = s.p.open /\ d.p.gone = s.p.gone /\ d.p.link = s.p.link /\ d.p.air = s.p.air
  BY <1>5, <1>6 DEF SameLinks
<1>8. d.inq[w] = <<>> /\ \A x \in Way : x # w => d.inq[x] = s.inq[x]
  BY <1>3, <1>6
<1>9. d.v = v /\ d.p.usb = u /\ d.p.greeted = g
  BY <1>5, <1>6
<1> QED BY <1>7, <1>8, <1>9 DEF u, g, v, greets

LEMMA DropIs ==
    ASSUME NEW s \in Chain, NEW d, d = drop(s)
    PROVE  LET t == close_usb(s)
           IN  /\ d \in Chain /\ SameLinks(d, t) /\ d.over = t.over /\ d.links = t.links
               /\ d.p.link = "none" /\ ~d.p.usb /\ ~d.p.gone
               /\ d.p.air = t.p.air /\ d.p.greeted = t.p.greeted /\ d.inq = t.inq /\ d.sending = t.sending
               /\ d.v = IF t.p.carrying = "usb" THEN closed(t.v) ELSE t.v
<1> DEFINE t == close_usb(s)
           v == IF t.p.carrying = "usb" THEN closed(t.v) ELSE t.v
           q == [t.p EXCEPT !.link = "none", !.usb = FALSE, !.gone = FALSE]
<1>1. t \in Chain
  <2>1. CASE s.p.open
    BY <2>1, CloseIs
  <2>2. CASE ~s.p.open
    BY <2>2 DEF close_usb
  <2> QED BY <2>1, <2>2
<1>2. d = [t EXCEPT !.p = q, !.v = v]
  BY DEF drop
<1> HIDE DEF t
<1>3. v \in View
  BY <1>1, ClosedIs DEF Chain
<1>4. /\ q \in Peer /\ q.link = "none" /\ q.usb = FALSE /\ q.gone = FALSE /\ q.air = t.p.air /\ q.greeted = t.p.greeted
      /\ q.id = t.p.id /\ q.airid = t.p.airid /\ q.boot = t.p.boot /\ q.carrying = t.p.carrying
  BY <1>1 DEF Chain, Peer
<1> HIDE DEF v, q
<1>5. /\ d \in Chain /\ d.p = q /\ d.v = v /\ d.inq = t.inq /\ d.sending = t.sending /\ d.over = t.over
      /\ d.written = t.written /\ d.links = t.links
  BY <1>1, <1>2, <1>3, <1>4 DEF Chain
<1>6. /\ d \in Chain /\ SameLinks(d, t) /\ d.over = t.over /\ d.links = t.links
      /\ d.p.link = "none" /\ ~d.p.usb /\ ~d.p.gone
      /\ d.p.air = t.p.air /\ d.p.greeted = t.p.greeted /\ d.inq = t.inq /\ d.sending = t.sending
      /\ d.v = v
  BY <1>4, <1>5 DEF SameLinks
<1> QED BY <1>6 DEF t, v

LEMMA LetAirGoIs ==
    ASSUME NEW s \in Chain, NEW d, d = LetAirGo(s)
    PROVE  /\ d \in Chain /\ SameLinks(d, s) /\ d.over = s.over /\ d.links = s.links /\ d.v = s.v
           /\ d.p.open = s.p.open /\ d.p.gone = s.p.gone /\ d.p.link = s.p.link /\ d.p.usb = s.p.usb
           /\ d.p.settled = s.p.settled
           /\ d.p.air = "none" /\ ~d.p.greeted
           /\ Silent(d, "air") /\ d.inq["usb"] = s.inq["usb"] /\ d.sending["usb"] = s.sending["usb"]
<1> DEFINE q == [s.p EXCEPT !.air = "none", !.greeted = FALSE]
           a == [s.inq EXCEPT !["air"] = <<>>]
           b == [s.sending EXCEPT !["air"] = <<>>]
<1>1. d = [s EXCEPT !.p = q, !.inq = a, !.sending = b]
  BY DEF LetAirGo
<1>2. /\ q \in Peer /\ q.air = "none" /\ q.greeted = FALSE /\ q.open = s.p.open /\ q.gone = s.p.gone /\ q.link = s.p.link
      /\ q.usb = s.p.usb /\ q.settled = s.p.settled
      /\ q.id = s.p.id /\ q.airid = s.p.airid /\ q.boot = s.p.boot /\ q.carrying = s.p.carrying
  BY DEF Chain, Peer
<1>3. /\ a \in [Way -> Seq(Message)] /\ a["air"] = <<>> /\ a["usb"] = s.inq["usb"]
      /\ b \in [Way -> Seq(Message)] /\ b["air"] = <<>> /\ b["usb"] = s.sending["usb"]
  BY DEF Chain, Way
<1> HIDE DEF q, a, b
<1>4. /\ d \in Chain /\ d.p = q /\ d.v = s.v /\ d.inq = a /\ d.sending = b /\ d.over = s.over
      /\ d.written = s.written /\ d.links = s.links
  BY <1>1, <1>2, <1>3 DEF Chain
<1> QED BY <1>2, <1>3, <1>4 DEF SameLinks, Silent

-----------------------------------------------------------------------------
(* Reading *)

LEMMA WiresDeliver ==
    ASSUME NEW s, Wires(s), NewIsSilent(s), NEW w \in Way, NEW d, d = Deliver(s, w)
    PROVE  Wires(d) /\ NewIsSilent(d)
<1>1. s \in Chain /\ Cabled(s) /\ Aired(s) /\ s.written = {} /\ s.p.boot <= box.boots /\ w \in {"usb", "air"}
  BY DEF Wires, Way
<1> DEFINE greets == \E i \in DOMAIN s.inq[w] : s.inq[w][i] = hello
<1>2. /\ d \in Chain /\ SameLinks(d, s) /\ d.sending = s.sending
      /\ d.p.open = s.p.open /\ d.p.gone = s.p.gone /\ d.p.link = s.p.link /\ d.p.air = s.p.air
      /\ d.inq[w] = <<>> /\ \A x \in Way : x # w => d.inq[x] = s.inq[x]
      /\ d.p.usb <=> s.p.usb \/ (w = "usb" /\ greets)
      /\ d.p.greeted <=> s.p.greeted \/ (w = "air" /\ greets)
  BY <1>1, DeliverIs
<1>3. s.inq[w] = <<>> => ~greets
  OBVIOUS
<1>4. s.inq[w] = <<hello>> => greets
  OBVIOUS
<1> HIDE DEF greets
<1>5. Silent(s, w) => Silent(d, w) /\ ~greets
  BY <1>2, <1>3 DEF Silent
<1>6. Greeting(s, w) /\ greets => Silent(d, w)
  BY <1>2, <1>3 DEF Silent, Greeting
<1>7. Greeting(s, w) /\ ~greets => Greeting(d, w)
  BY <1>2, <1>4 DEF Silent, Greeting
<1>8. d.p.carrying = s.p.carrying /\ d.written = {} /\ d.p.boot <= box.boots
  BY <1>1, <1>2 DEF SameLinks
<1>9. CASE w = "usb"
  <2>1. /\ Silent(s, "air") => Silent(d, "air")
        /\ Greeting(s, "air") => Greeting(d, "air")
        /\ d.p.greeted <=> s.p.greeted
    BY <1>2, <1>9 DEF Silent, Greeting, Way
  <2>2. Cabled(d)
    BY <1>1, <1>2, <1>5, <1>6, <1>7, <1>9 DEF Cabled
  <2>3. Aired(d)
    BY <1>1, <1>2, <2>1 DEF Aired
  <2>4. NewIsSilent(d)
    BY <1>1, <1>2, <1>5, <1>6, <1>8, <1>9, <2>1 DEF NewIsSilent, Cabled
  <2> QED BY <1>2, <1>8, <2>2, <2>3, <2>4 DEF Wires
<1>10. CASE w = "air"
  <2>1. /\ Silent(s, "usb") => Silent(d, "usb")
        /\ Greeting(s, "usb") => Greeting(d, "usb")
        /\ d.p.usb <=> s.p.usb
    BY <1>2, <1>10 DEF Silent, Greeting, Way
  <2>2. Cabled(d)
    BY <1>1, <1>2, <2>1 DEF Cabled
  <2>3. Aired(d)
    BY <1>1, <1>2, <1>5, <1>6, <1>7, <1>10 DEF Aired
  <2>4. NewIsSilent(d)
    <3>1. ASSUME d.p.greeted, d.p.carrying # "air" PROVE Silent(d, "air")
      <4>1. CASE s.p.greeted
        BY <1>5, <1>8, <1>10, <3>1, <4>1 DEF NewIsSilent
      <4>2. CASE ~s.p.greeted
        <5>1. greets
          BY <1>2, <3>1, <4>2
        <5>2. s.p.air \in {"none", "open", "ready", "gone", "closed"}
          BY <1>1 DEF Chain, Peer
        <5>3. CASE s.p.air = "closed"
          BY <1>1, <1>2, <1>10, <5>3 DEF Aired, Silent
        <5>4. CASE s.p.air # "closed"
          BY <1>1, <1>5, <1>6, <1>10, <4>2, <5>1, <5>2, <5>4 DEF Aired
        <5> QED BY <5>3, <5>4
      <4> QED BY <4>1, <4>2
    <3>2. ASSUME d.p.usb, d.p.carrying # "usb" PROVE Silent(d, "usb")
      BY <1>8, <2>1, <3>2 DEF NewIsSilent
    <3> QED BY <3>1, <3>2 DEF NewIsSilent
  <2> QED BY <1>2, <1>8, <2>2, <2>3, <2>4 DEF Wires
<1> QED BY <1>1, <1>9, <1>10

LEMMA ConversingDeliver ==
    ASSUME NEW s \in Chain, NEW w \in Way, NEW d, d = Deliver(s, w), Conversing(s)
    PROVE  Conversing(d)
<1>1. /\ d \in Chain /\ SameLinks(d, s) /\ d.over = s.over /\ d.sending = s.sending
      /\ d.p.open = s.p.open /\ d.p.air = s.p.air
      /\ d.inq[w] = <<>> /\ \A x \in Way : x # w => d.inq[x] = s.inq[x]
      /\ d.v = IF s.p.carrying = w THEN Observed(s.v, s.inq[w]) ELSE s.v
  BY DeliverIs
<1>2. d.p.carrying = s.p.carrying /\ Speaker(d) = Speaker(s)
  BY <1>1 DEF SameLinks, Speaker
<1> SUFFICES ASSUME d.v.attached, d.p.carrying = "air" => d.p.air = "ready"
             PROVE  Shows(d) /\ Told(d)
  BY DEF Conversing
<1>3. CASE s.p.carrying # w
  <2>1. d.v = s.v
    BY <1>1, <1>3
  <2>2. Shows(s) /\ Told(s)
    BY <1>1, <1>2, <2>1 DEF Conversing
  <2>3. d.inq[d.p.carrying] = s.inq[s.p.carrying] /\ d.sending[d.p.carrying] = s.sending[s.p.carrying]
    BY <1>1, <1>2, <1>3, <2>2 DEF Shows
  <2>4. Silent(d, d.p.carrying) <=> Silent(s, s.p.carrying)
    BY <2>3 DEF Silent
  <2> QED BY <1>1, <1>2, <2>1, <2>2, <2>3, <2>4 DEF Shows, Told
<1>4. CASE s.p.carrying = w
  <2> DEFINE id == Speaker(s)
             arrived == s.inq[w]
             coming == s.sending[w]
  <2>1. s.v \in View /\ arrived \in Seq(Message) /\ coming \in Seq(Message) /\ id \in 0..MaxLinks
    BY DEF Chain, Peer, Speaker
  <2>2. d.v = Observed(s.v, arrived)
    BY <1>1, <1>4
  <2>3. SameLink(d.v, s.v)
    BY <2>1, <2>2, ObservedSameLink
  <2>4. Shows(s) /\ Told(s)
    BY <1>1, <1>2, <2>3 DEF Conversing, SameLink
  <2>5. PICK a \in 0..1 : OneAnswer(id, a, s.v.pending, arrived, 0, coming)
    BY <1>4, <2>4 DEF Told
  <2>6. Hearing(s.v, id, a, arrived, 0, coming)
    BY <2>4, <2>5 DEF Told, Shows, Hearing
  <2>7. Complete(s.v.pending, arrived, 0, coming)
    BY <1>4, <2>4 DEF Told
  <2>8. Silent(s, w) => Silent(d, w)
    BY <1>1 DEF Silent
  <2> HIDE DEF id, arrived, coming
  <2>9. Hearing(d.v, id, a, <<>>, 0, coming) /\ Complete(d.v.pending, <<>>, 0, coming)
    BY <2>1, <2>2, <2>6, <2>7, ObservedHearing
  <2>10. d.inq[w] = <<>> /\ d.sending[w] = coming /\ d.p.carrying = w /\ Speaker(d) = id
    BY <1>1, <1>2, <1>4 DEF coming, id
  <2>11. Shows(d)
    BY <1>1, <1>2, <2>4, <2>9, <2>10 DEF Shows, Hearing
  <2>12. ~d.v.asked \/ "poll" \in d.over => Silent(d, w)
    BY <1>1, <1>4, <2>3, <2>4, <2>8 DEF Told, SameLink
  <2>13. Told(d)
    BY <2>9, <2>10, <2>12 DEF Told, Hearing
  <2> QED BY <2>11, <2>13
<1> QED BY <1>3, <1>4

LEMMA WiresClose ==
    ASSUME NEW s, Wires(s), NewIsSilent(s), NEW t, t = close_usb(s)
    PROVE  /\ Wires(t) /\ NewIsSilent(t) /\ ~t.p.open
           /\ s.p.open => ~t.v.attached
           /\ Conversing(s) => Conversing(t)
<1>1. s \in Chain /\ Cabled(s) /\ Aired(s) /\ s.written = {}
  BY DEF Wires
<1>2. CASE ~s.p.open
  BY <1>2 DEF close_usb
<1>3. CASE s.p.open
  <2>1. /\ t \in Chain /\ SameLinks(t, s)
        /\ ~t.p.open /\ t.p.gone /\ t.p.link = s.p.link /\ t.p.usb = s.p.usb
        /\ t.p.air = s.p.air /\ t.p.greeted = s.p.greeted
        /\ Silent(t, "usb") /\ t.inq["air"] = s.inq["air"] /\ t.sending["air"] = s.sending["air"]
        /\ t.v = closed(s.v)
    BY <1>1, <1>3, CloseIs
  <2>2. ~t.v.attached
    BY <1>1, <2>1, ClosedIs DEF Chain
  <2>3. (Silent(s, "air") => Silent(t, "air")) /\ (Greeting(s, "air") => Greeting(t, "air"))
    BY <2>1 DEF Silent, Greeting
  <2>4. Cabled(t)
    BY <1>1, <2>1 DEF Cabled, Greeting
  <2>5. Aired(t)
    BY <1>1, <2>1, <2>3 DEF Aired
  <2>6. NewIsSilent(t)
    BY <2>1, <2>3 DEF NewIsSilent, SameLinks
  <2>7. Conversing(t)
    BY <2>2 DEF Conversing
  <2> QED BY <1>1, <2>1, <2>2, <2>4, <2>5, <2>6, <2>7 DEF Wires, SameLinks
<1> QED BY <1>2, <1>3

LEMMA UsbRead ==
    ASSUME NEW s, Sound(s, box), s.p = p, NEW r, r = ReadUsb(s)
    PROVE  Pumping(r)
<1>1. s \in Chain /\ Wires(s) /\ Decided(s) /\ Cabled(s)
  BY DEF Sound, Wires
<1>2. NewIsSilent(s)
  BY <1>1 DEF NewIsSilent, Decided
<1>3. CASE ~s.p.open
  <2>1. r = s
    BY <1>3 DEF ReadUsb
  <2>2. Conversing(s)
    BY <1>3 DEF Conversing, Sound, Shows, Lost
  <2> QED BY <1>1, <1>2, <2>1, <2>2 DEF Pumping
<1> DEFINE d == Deliver(s, "usb")
<1>4. Wires(d) /\ NewIsSilent(d) /\ (Conversing(s) => Conversing(d)) /\ (d.p.open <=> s.p.open)
  <2>1. "usb" \in Way
    BY DEF Way
  <2> QED BY <1>1, <1>2, <2>1, WiresDeliver, ConversingDeliver, DeliverIs
<1>5. CASE s.p.open /\ PortBroken
  <2>1. r = close_usb(d)
    BY <1>5 DEF ReadUsb
  <2> HIDE DEF d
  <2>2. Wires(r) /\ NewIsSilent(r) /\ ~r.v.attached
    BY <1>4, <1>5, <2>1, WiresClose
  <2> QED BY <2>2 DEF Pumping, Conversing
<1>6. CASE s.p.open /\ ~PortBroken
  <2>1. r = d
    BY <1>6 DEF ReadUsb
  <2>2. s.p.carrying = "usb" => ~Lost(s, box)
    BY <1>1, <1>6 DEF PortBroken, Lost, Cabled, Decided
  <2>3. Conversing(s)
    BY <2>2 DEF Conversing, Sound, Lost
  <2> QED BY <1>4, <2>1, <2>3 DEF Pumping
<1> QED BY <1>3, <1>5, <1>6

\* Nothing changed that the invariant looks at.
SameTalk(r, s) ==
    /\ SameLinks(r, s) /\ r.v = s.v /\ r.inq = s.inq /\ r.sending = s.sending
    /\ r.p.link = s.p.link /\ r.p.open = s.p.open /\ r.p.gone = s.p.gone /\ r.p.usb = s.p.usb
    /\ r.p.air = s.p.air /\ r.p.greeted = s.p.greeted
    /\ "poll" \in r.over <=> "poll" \in s.over

LEMMA PumpingOn ==
    ASSUME NEW s, Pumping(s), NEW r \in Chain, SameTalk(r, s)
    PROVE  Pumping(r)
<1>1. \A w : (Silent(r, w) <=> Silent(s, w)) /\ (Greeting(r, w) <=> Greeting(s, w))
  BY DEF SameTalk, Silent, Greeting
<1>2. Speaker(r) = Speaker(s) /\ r.p.carrying = s.p.carrying
  BY DEF SameTalk, SameLinks, Speaker
<1>3. Wires(r)
  BY <1>1 DEF SameTalk, SameLinks, Pumping, Wires, Cabled, Aired
<1>4. NewIsSilent(r)
  BY <1>1, <1>2 DEF SameTalk, Pumping, NewIsSilent
<1>5. Conversing(r)
  <2> SUFFICES ASSUME r.v.attached, r.p.carrying = "air" => r.p.air = "ready" PROVE Shows(r) /\ Told(r)
    BY DEF Conversing
  <2>1. Shows(s) /\ Told(s)
    BY <1>2 DEF Pumping, Conversing, SameTalk
  <2> QED BY <1>1, <1>2, <2>1 DEF Shows, Told, SameTalk
<1> QED BY <1>3, <1>4, <1>5 DEF Pumping

LEMMA PumpingCloses ==
    ASSUME NEW s, Pumping(s), s.p.air = "gone", NEW r, r = [s EXCEPT !.p.air = "closed"]
    PROVE  Pumping(r) /\ r.p.air = "closed"
<1>1. s \in Chain
  BY DEF Pumping, Wires
<1> DEFINE q == [s.p EXCEPT !.air = "closed"]
<1>2. /\ q \in Peer /\ q.air = "closed" /\ q.greeted = s.p.greeted /\ q.open = s.p.open /\ q.gone = s.p.gone /\ q.link = s.p.link
      /\ q.usb = s.p.usb /\ q.id = s.p.id /\ q.airid = s.p.airid /\ q.boot = s.p.boot /\ q.carrying = s.p.carrying
  BY <1>1 DEF Chain, Peer
<1>3. r = [s EXCEPT !.p = q]
  OBVIOUS
<1> HIDE DEF q
<1>4. /\ r \in Chain /\ r.p = q /\ r.v = s.v /\ r.inq = s.inq /\ r.sending = s.sending /\ r.over = s.over
      /\ r.written = s.written
  BY <1>1, <1>2, <1>3 DEF Chain
<1>5. \A w : (Silent(r, w) <=> Silent(s, w)) /\ (Greeting(r, w) <=> Greeting(s, w))
  BY <1>4 DEF Silent, Greeting
<1>6. Speaker(r) = Speaker(s) /\ r.p.carrying = s.p.carrying
  BY <1>2, <1>4 DEF Speaker
<1>7. Wires(r)
  BY <1>2, <1>4, <1>5 DEF Pumping, Wires, Cabled, Aired
<1>8. NewIsSilent(r)
  BY <1>2, <1>4, <1>5 DEF Pumping, NewIsSilent
<1>9. Conversing(r)
  <2> SUFFICES ASSUME r.v.attached, r.p.carrying # "air" PROVE Shows(r) /\ Told(r)
    BY <1>2, <1>4 DEF Conversing
  <2>1. Shows(s) /\ Told(s)
    BY <1>4, <1>6 DEF Pumping, Conversing
  <2> QED BY <1>2, <1>4, <1>5, <1>6, <2>1 DEF Shows, Told
<1> QED BY <1>2, <1>4, <1>7, <1>8, <1>9 DEF Pumping

LEMMA AirRead ==
    ASSUME NEW s, Pumping(s), NEW r, r = ReadAir(s)
    PROVE  Pumping(r) /\ r.p.air # "gone"
<1>1. s \in Chain
  BY DEF Pumping, Wires
<1>2. CASE s.p.air = "none"
  BY <1>2 DEF ReadAir
<1> DEFINE d == Deliver(s, "air")
<1>3. Pumping(d) /\ d.p.air = s.p.air
  <2>1. "air" \in Way
    BY DEF Way
  <2> QED BY <1>1, <2>1, WiresDeliver, ConversingDeliver, DeliverIs DEF Pumping
<1>4. CASE s.p.air = "gone"
  <2>1. r = [d EXCEPT !.p.air = "closed"]
    BY <1>4 DEF ReadAir
  <2> HIDE DEF d
  <2> QED BY <1>3, <1>4, <2>1, PumpingCloses
<1>5. CASE s.p.air \notin {"none", "gone"}
  <2>1. r = d
    BY <1>5 DEF ReadAir
  <2> QED BY <1>3, <1>5, <2>1
<1> QED BY <1>2, <1>4, <1>5

-----------------------------------------------------------------------------
(* Letting go *)

LEMMA Drops ==
    ASSUME NEW s, Pumping(s), NEW d, d = drop(s)
    PROVE  Pumping(d) /\ d.p.link = "none" /\ ~d.p.usb /\ ~d.p.gone /\ d.p.air = s.p.air
<1>1. s \in Chain
  BY DEF Pumping, Wires
<1> DEFINE t == close_usb(s)
<1>2. Wires(t) /\ NewIsSilent(t) /\ ~t.p.open /\ Conversing(t)
  BY WiresClose DEF Pumping
<1>3. t.p.air = s.p.air
  <2>1. CASE s.p.open
    BY <1>1, <2>1, CloseIs
  <2>2. CASE ~s.p.open
    BY <2>2 DEF close_usb
  <2> QED BY <2>1, <2>2
<1>4. /\ d \in Chain /\ SameLinks(d, t) /\ d.over = t.over
      /\ d.p.link = "none" /\ ~d.p.usb /\ ~d.p.gone
      /\ d.p.air = t.p.air /\ d.p.greeted = t.p.greeted /\ d.inq = t.inq /\ d.sending = t.sending
      /\ d.v = IF t.p.carrying = "usb" THEN closed(t.v) ELSE t.v
  BY <1>1, DropIs
<1> HIDE DEF t
<1>5. \A w : (Silent(d, w) <=> Silent(t, w)) /\ (Greeting(d, w) <=> Greeting(t, w))
  BY <1>4 DEF Silent, Greeting
<1>6. Speaker(d) = Speaker(t) /\ d.p.carrying = t.p.carrying
  BY <1>4 DEF SameLinks, Speaker
<1>7. "none" # Cable
  BY DEF Cable
<1>8. Cabled(d)
  BY <1>2, <1>4, <1>5, <1>7 DEF Wires, Cabled
<1>9. Aired(d)
  BY <1>2, <1>4, <1>5 DEF Wires, Aired
<1>10. NewIsSilent(d)
  BY <1>2, <1>4, <1>5, <1>6 DEF NewIsSilent
<1>11. Conversing(d)
  <2> SUFFICES ASSUME d.v.attached, d.p.carrying = "air" => d.p.air = "ready" PROVE Shows(d) /\ Told(d)
    BY DEF Conversing
  <2>1. t.v \in View
    BY <1>2 DEF Wires, Chain
  <2>2. t.p.carrying # "usb" /\ d.v = t.v
    BY <1>4, <2>1, ClosedIs
  <2>3. Shows(t) /\ Told(t)
    BY <1>2, <1>4, <1>6, <2>2 DEF Conversing
  <2> QED BY <1>4, <1>5, <1>6, <2>2, <2>3 DEF Shows, Told
<1>12. d.written = {} /\ d.p.boot <= box.boots
  BY <1>2, <1>4 DEF Wires, SameLinks
<1> QED BY <1>3, <1>4, <1>8, <1>9, <1>10, <1>11, <1>12 DEF Pumping, Wires

LEMMA GoneDropped ==
    ASSUME NEW s, Pumping(s), s.p.air # "gone", NEW r, r = DropGone(s)
    PROVE  Pumping(r) /\ r.p.air # "gone" /\ ~r.p.gone
<1>1. CASE s.p.gone
  BY <1>1, Drops DEF DropGone
<1>2. CASE ~s.p.gone
  BY <1>2 DEF DropGone
<1> QED BY <1>1, <1>2

LEMMA AirGoes ==
    ASSUME NEW s, Pumping(s), NEW d, d = LetAirGo(s)
    PROVE  Pumping(d) /\ d.p.air = "none" /\ (d.p.gone <=> s.p.gone) /\ (d.p.usb <=> s.p.usb)
<1>1. s \in Chain
  BY DEF Pumping, Wires
<1>2. /\ d \in Chain /\ SameLinks(d, s) /\ d.over = s.over /\ d.links = s.links /\ d.v = s.v
      /\ d.p.open = s.p.open /\ d.p.gone = s.p.gone /\ d.p.link = s.p.link /\ d.p.usb = s.p.usb
      /\ d.p.air = "none" /\ ~d.p.greeted
      /\ Silent(d, "air") /\ d.inq["usb"] = s.inq["usb"] /\ d.sending["usb"] = s.sending["usb"]
  BY <1>1, LetAirGoIs
<1>3. (Silent(d, "usb") <=> Silent(s, "usb")) /\ (Greeting(d, "usb") <=> Greeting(s, "usb"))
  BY <1>2 DEF Silent, Greeting
<1>4. Speaker(d) = Speaker(s) /\ d.p.carrying = s.p.carrying
  BY <1>2 DEF SameLinks, Speaker
<1>5. Cabled(d)
  BY <1>2, <1>3 DEF Pumping, Wires, Cabled
<1>6. Aired(d)
  BY <1>2 DEF Aired, Silent
<1>7. NewIsSilent(d)
  BY <1>2, <1>3, <1>4 DEF Pumping, NewIsSilent
<1>8. Conversing(d)
  <2> SUFFICES ASSUME d.v.attached, d.p.carrying # "air" PROVE Shows(d) /\ Told(d)
    BY <1>2 DEF Conversing
  <2>1. Shows(s) /\ Told(s)
    BY <1>2, <1>4 DEF Pumping, Conversing
  <2>2. d.p.carrying = "usb"
    BY <1>4, <2>1 DEF Shows, Way
  <2> QED BY <1>2, <1>3, <1>4, <2>1, <2>2 DEF Shows, Told
<1> QED BY <1>2, <1>5, <1>6, <1>7, <1>8 DEF Pumping, Wires, SameLinks

LEMMA AirDropped ==
    ASSUME NEW s, Pumping(s), s.p.air # "gone", ~s.p.gone, NEW r, r = DropAir(s)
    PROVE  Pumping(r) /\ r.p.air \notin {"gone", "closed"} /\ ~r.p.gone
<1>1. CASE s.p.air = "closed"
  <2> DEFINE d == LetAirGo(s)
             o == d.over \ {"airtry"}
  <2>1. Pumping(d) /\ d.p.air = "none" /\ ~d.p.gone
    BY AirGoes
  <2>2. r = [d EXCEPT !.over = o]
    BY <1>1 DEF DropAir
  <2>3. d \in Chain /\ o \in SUBSET Timer /\ ("poll" \in o <=> "poll" \in d.over)
    BY <2>1 DEF Pumping, Wires, Chain
  <2> HIDE DEF d, o
  <2>4. /\ r \in Chain /\ r.p = d.p /\ r.v = d.v /\ r.inq = d.inq /\ r.sending = d.sending /\ r.over = o
        /\ r.written = d.written
    BY <2>2, <2>3 DEF Chain
  <2>5. SameTalk(r, d)
    BY <2>3, <2>4 DEF SameTalk, SameLinks
  <2> QED BY <2>1, <2>4, <2>5, PumpingOn
<1>2. CASE s.p.air # "closed"
  BY <1>2 DEF DropAir
<1> QED BY <1>1, <1>2

LEMMA RadioTended ==
    ASSUME NEW s, Pumping(s), s.p.air \notin {"gone", "closed"}, ~s.p.gone, use \in {"off", "auto"},
           NEW r, r = tend_radio(s)
    PROVE  Pumping(r) /\ r.p.air \notin {"gone", "closed"} /\ ~r.p.gone /\ (r.p.usb => r.p.air = "none")
<1>1. s \in Chain /\ Cabled(s) /\ Aired(s)
  BY DEF Pumping, Wires
<1>2. CASE use = "off"
  BY <1>1, <1>2 DEF tend_radio, Aired
<1>3. CASE use # "off" /\ ~Settled(s)
  BY <1>3 DEF tend_radio, Settled
<1>4. CASE use # "off" /\ Settled(s)
  <2> DEFINE q == [s.p EXCEPT !.settled = TRUE]
             t == [s EXCEPT !.p.settled = TRUE]
  <2>1. /\ q \in Peer /\ q.air = s.p.air /\ q.greeted = s.p.greeted /\ q.open = s.p.open /\ q.gone = s.p.gone /\ q.link = s.p.link
        /\ q.usb = s.p.usb /\ q.id = s.p.id /\ q.airid = s.p.airid /\ q.boot = s.p.boot /\ q.carrying = s.p.carrying
    BY <1>1 DEF Chain, Peer
  <2>2. t = [s EXCEPT !.p = q]
    OBVIOUS
  <2>3. r = IF ~Want(t) THEN (IF t.p.air # "none" THEN LetAirGo(t) ELSE t)
            ELSE IF t.p.air # "none" \/ "airtry" \notin t.over \/ t.links = MaxLinks THEN t
            ELSE [t EXCEPT !.over = @ \ {"airtry"}, !.links = @ + 1, !.p.airid = t.links + 1,
                           !.p.air = "open", !.p.greeted = FALSE]
    BY <1>4 DEF tend_radio
  <2> HIDE DEF q, t
  <2>4. /\ t \in Chain /\ t.p = q /\ t.v = s.v /\ t.inq = s.inq /\ t.sending = s.sending /\ t.over = s.over
        /\ t.written = s.written
    BY <1>1, <2>1, <2>2 DEF Chain
  <2>5. SameTalk(t, s)
    BY <2>1, <2>4 DEF SameTalk, SameLinks
  <2>6. Pumping(t) /\ t.p.air \notin {"gone", "closed"} /\ ~t.p.gone
    BY <2>1, <2>4, <2>5, PumpingOn
  <2>7. Cabled(t) /\ Aired(t)
    BY <2>6 DEF Pumping, Wires
  <2>8. CASE ~Want(t)
    BY <2>3, <2>6, <2>8, AirGoes
  <2>9. CASE Want(t) /\ (t.p.air # "none" \/ "airtry" \notin t.over \/ t.links = MaxLinks)
    <3>1. ~t.p.usb
      BY <2>7, <2>9 DEF Want, UsbReady, Cabled, Cable
    <3> QED BY <2>3, <2>6, <2>9, <3>1
  <2>10. CASE Want(t) /\ ~(t.p.air # "none" \/ "airtry" \notin t.over \/ t.links = MaxLinks)
    <3> DEFINE o == t.over \ {"airtry"}
               n == t.links + 1
               x == [t.p EXCEPT !.airid = n, !.air = "open", !.greeted = FALSE]
    <3>1. ~t.p.usb /\ Silent(t, "air") /\ t.p.air = "none"
      BY <2>7, <2>10 DEF Want, UsbReady, Cabled, Aired, Cable
    <3>2. r = [t EXCEPT !.over = o, !.links = n, !.p = x]
      BY <2>3, <2>10
    <3>3. n \in 0..MaxLinks /\ o \in SUBSET Timer /\ ("poll" \in o <=> "poll" \in t.over)
      BY <2>4, <2>10, BoxPeerAssumption DEF Chain, BoxPeerAssumption
    <3> HIDE DEF n, o
    <3>4. /\ x \in Peer /\ x.air = "open" /\ ~x.greeted /\ x.open = t.p.open /\ x.gone = t.p.gone /\ x.link = t.p.link
          /\ x.usb = t.p.usb /\ x.id = t.p.id /\ x.boot = t.p.boot /\ x.carrying = t.p.carrying
      BY <2>4, <3>3 DEF Chain, Peer
    <3> HIDE DEF x
    <3>5. /\ r \in Chain /\ r.p = x /\ r.v = t.v /\ r.inq = t.inq /\ r.sending = t.sending /\ r.over = o
          /\ r.written = t.written
      BY <2>4, <3>2, <3>3, <3>4 DEF Chain
    <3>6. \A w : (Silent(r, w) <=> Silent(t, w)) /\ (Greeting(r, w) <=> Greeting(t, w))
      BY <3>5 DEF Silent, Greeting
    <3>7. Cabled(r)
      BY <2>7, <3>4, <3>5, <3>6 DEF Cabled
    <3>8. Aired(r)
      BY <1>4, <3>1, <3>4, <3>5, <3>6 DEF Aired
    <3>9. NewIsSilent(r)
      BY <3>1, <3>4, <3>5 DEF NewIsSilent
    <3>10. Conversing(r)
      <4> SUFFICES ASSUME r.v.attached, r.p.carrying # "air" PROVE Shows(r) /\ Told(r)
        BY <3>4, <3>5 DEF Conversing
      <4>1. Shows(t) /\ Told(t)
        BY <2>6, <3>4, <3>5 DEF Pumping, Conversing
      <4>2. r.p.carrying = "usb" /\ Speaker(r) = Speaker(t)
        BY <3>4, <3>5, <4>1 DEF Shows, Way, Speaker
      <4> QED BY <3>3, <3>4, <3>5, <3>6, <4>1, <4>2 DEF Shows, Told
    <3>11. r.written = {}
      BY <2>6, <3>5 DEF Pumping, Wires
    <3> QED BY <2>6, <3>1, <3>4, <3>5, <3>7, <3>8, <3>9, <3>10, <3>11 DEF Pumping, Wires
  <2> QED BY <2>8, <2>9, <2>10
<1> QED BY <1>2, <1>3, <1>4

LEMMA ShyDropped ==
    ASSUME NEW s, Pumping(s), s.p.air \notin {"gone", "closed"}, ~s.p.gone, s.p.usb => s.p.air = "none",
           NEW r, r = DropShy(s)
    PROVE  Pumping(r) /\ r.p.air \notin {"gone", "closed"} /\ ~r.p.gone /\ (r.p.usb => r.p.air = "none")
<1>1. s \in Chain
  BY DEF Pumping, Wires
<1> DEFINE c == s.p.link # "none" /\ ~s.p.usb /\ "greet" \in over
<1>2. CASE ~c
  BY <1>2 DEF DropShy
<1>3. CASE c
  <2> DEFINE sh == s.p.shy \cup {s.p.link}
             o == s.over \ {"shy"}
             q == [s.p EXCEPT !.shy = sh, !.looked = FALSE]
             t == [s EXCEPT !.p = q, !.over = o]
  <2>1. r = drop(t)
    BY <1>3 DEF DropShy
  <2>2. o \in SUBSET Timer /\ ("poll" \in o <=> "poll" \in s.over) /\ sh \in SUBSET Ports
    BY <1>1, <1>3 DEF Chain, Peer
  <2> HIDE DEF o, sh
  <2>3. /\ q \in Peer /\ q.air = s.p.air /\ q.greeted = s.p.greeted /\ q.open = s.p.open /\ q.gone = s.p.gone /\ q.link = s.p.link
        /\ q.usb = s.p.usb /\ q.id = s.p.id /\ q.airid = s.p.airid /\ q.boot = s.p.boot /\ q.carrying = s.p.carrying
    BY <1>1, <2>2 DEF Chain, Peer
  <2> HIDE DEF q
  <2>4. /\ t \in Chain /\ t.p = q /\ t.v = s.v /\ t.inq = s.inq /\ t.sending = s.sending /\ t.over = o
        /\ t.written = s.written
    BY <1>1, <2>2, <2>3 DEF Chain
  <2> HIDE DEF t
  <2>5. SameTalk(t, s)
    BY <2>2, <2>3, <2>4 DEF SameTalk, SameLinks
  <2>6. Pumping(t) /\ t.p.air = s.p.air
    BY <2>3, <2>4, <2>5, PumpingOn
  <2> QED BY <2>1, <2>6, Drops
<1> QED BY <1>2, <1>3

-----------------------------------------------------------------------------
(* Who speaks, and what it is asked *)

\* A view that was opened has heard nothing, and greets whoever reads it.
LEMMA OpenedIs ==
    ASSUME NEW v \in View, NEW u, u = observe(opened(v), hello)
    PROVE  u \in View /\ u.pending = <<>> /\ u.current = <<>> /\ ~u.asked
<1>1. <<>> \in Seq(Row) /\ v.dated \in 0..MaxDays
  BY DEF View
<1> DEFINE none == <<>>
           d == v.dated
           w == opened(v)
<1>2. w = [attached |-> TRUE, greeted |-> FALSE, dated |-> d, asked |-> FALSE, batch |-> FALSE,
           pending |-> none, current |-> none, answered |-> FALSE]
  <2>1. NoView = [attached |-> FALSE, greeted |-> FALSE, dated |-> 0, asked |-> FALSE, batch |-> FALSE,
                  pending |-> none, current |-> none, answered |-> FALSE]
    BY DEF NoView
  <2>2. w = [NoView EXCEPT !.attached = TRUE, !.dated = d]
    BY DEF opened
  <2> HIDE DEF none, d, w
  <2> QED BY <2>1, <2>2
<1>3. hello \in Message /\ hello.verb = "hello"
  BY DEF hello, Message
<1> HIDE DEF none, d, w
<1>4. w \in View
  BY <1>1, <1>2 DEF View, none, d
<1>5. u = [w EXCEPT !.greeted = TRUE]
  <2>1. Took(observe(w, hello), w, hello)
    BY <1>3, <1>4, ObserveIs
  <2> QED BY <2>1 DEF Took, w
<1> QED BY <1>2, <1>4, <1>5 DEF View, none

\* Nothing heard and nothing coming is an answer not begun.
LEMMA NothingYet ==
    ASSUME NEW id
    PROVE  OneAnswer(id, 0, <<>>, <<>>, 0, <<>>) /\ Complete(<<>>, <<>>, 0, <<>>)
<1>1. Heads \in Nat /\ Len(<<>>) = 0
  BY InOrder
<1>2. 1..0 = {} /\ 1..(0 - 0) = {} /\ 0 + 0 + 0 <= Heads + 1 + 0 /\ 0 <= Heads
  BY <1>1
<1>3. OneAnswer(id, 0, <<>>, <<>>, 0, <<>>)
  BY <1>1, <1>2 DEF OneAnswer
<1> QED BY <1>1, <1>3 DEF Complete

LEMMA HandedOver ==
    ASSUME NEW s, Pumping(s), s.p.air \notin {"gone", "closed"}, ~s.p.gone, s.p.usb => s.p.air = "none",
           NEW r, r = HandOver(s)
    PROVE  Spoken(r)
<1>1. s \in Chain /\ Cabled(s) /\ Aired(s) /\ NewIsSilent(s) /\ s.written = {} /\ s.p.boot <= box.boots
  BY DEF Pumping, Wires
<1> DEFINE now == carrier(s)
<1>2. /\ now \in {"usb", "air", "none"}
      /\ now = "usb" <=> s.p.usb
      /\ now = "air" <=> s.p.greeted
  <2>1. s.p.air \in {"none", "open", "ready"}
    BY <1>1 DEF Chain, Peer
  <2>2. UsbReady(s) <=> s.p.usb
    BY <1>1 DEF UsbReady, Cabled, Cable
  <2>3. s.p.greeted => s.p.air = "ready" /\ ~s.p.usb
    BY <1>1, <2>1 DEF Aired
  <2> QED BY <2>2, <2>3 DEF carrier
<1>3. s.p.usb => s.p.open
  BY <1>1 DEF Cabled, Cable
<1>4. now = "air" => s.p.air = "ready"
  BY <1>1, <1>2 DEF Aired, Chain, Peer
<1>5. CASE now = s.p.carrying
  <2>1. r = s
    BY <1>5 DEF HandOver
  <2>2. Decided(s)
    BY <1>2, <1>5 DEF Decided
  <2>3. s.v.attached => Shows(s) /\ Told(s)
    BY <1>4, <1>5 DEF Pumping, Conversing
  <2> QED BY <2>1, <2>2, <2>3 DEF Spoken, Pumping
<1>6. CASE now # s.p.carrying
  <2> DEFINE c == closed(s.v)
             v == IF now = "none" THEN c ELSE observe(opened(c), hello)
             q == [s.p EXCEPT !.carrying = now]
  <2>1. r = [s EXCEPT !.p = q, !.v = v]
    BY <1>6 DEF HandOver
  <2>2. c \in View /\ ~c.attached
    BY <1>1, ClosedIs DEF Chain
  <2>3. v \in View /\ (now = "none" => ~v.attached) /\ (now # "none" => v.pending = <<>> /\ v.current = <<>> /\ ~v.asked)
    <3> HIDE DEF c, now
    <3> QED BY <2>2, OpenedIs
  <2> HIDE DEF now, c, v
  <2>4. /\ q \in Peer /\ q.air = s.p.air /\ q.greeted = s.p.greeted /\ q.open = s.p.open /\ q.gone = s.p.gone /\ q.link = s.p.link
        /\ q.usb = s.p.usb /\ q.id = s.p.id /\ q.airid = s.p.airid /\ q.boot = s.p.boot /\ q.carrying = now
    BY <1>1, <1>2 DEF Chain, Peer, Way
  <2> HIDE DEF q
  <2>5. /\ r \in Chain /\ r.p = q /\ r.v = v /\ r.inq = s.inq /\ r.sending = s.sending /\ r.over = s.over
        /\ r.written = s.written
    BY <1>1, <2>1, <2>3, <2>4 DEF Chain
  <2>6. \A w : (Silent(r, w) <=> Silent(s, w)) /\ (Greeting(r, w) <=> Greeting(s, w))
    BY <2>5 DEF Silent, Greeting
  <2>7. Cabled(r) /\ Aired(r)
    BY <1>1, <2>4, <2>5, <2>6 DEF Cabled, Aired
  <2>8. Decided(r) /\ r.p.air # "gone"
    BY <1>2, <2>4, <2>5 DEF Decided
  <2>9. ASSUME r.v.attached PROVE Shows(r) /\ Told(r)
    <3>1. now \in Way /\ r.p.carrying = now
      BY <1>2, <2>3, <2>4, <2>5, <2>9 DEF Way
    <3>2. r.v.pending = <<>> /\ r.v.current = <<>>
      BY <2>3, <2>5, <3>1 DEF Way
    <3>3. Silent(r, now)
      BY <1>1, <1>2, <1>6, <2>6, <3>1 DEF NewIsSilent, Way
    <3>4. Shows(r)
      BY <1>2, <1>3, <2>4, <2>5, <3>1, <3>2 DEF Shows, Shown
    <3>5. r.inq[now] = <<>> /\ r.sending[now] = <<>>
      BY <3>3 DEF Silent
    <3>6. Told(r)
      BY <3>1, <3>2, <3>3, <3>5, NothingYet DEF Told
    <3> QED BY <3>4, <3>6
  <2> QED BY <1>1, <2>4, <2>5, <2>7, <2>8, <2>9 DEF Spoken, Wires
<1> QED BY <1>5, <1>6

LEMMA VoiceIsTheDongles ==
    ASSUME NEW s, Spoken(s), s.p.carrying # "none"
    PROVE  Voice(s) \cap Strangers = {}
BY BoxPeerAssumption DEF BoxPeerAssumption, Spoken, Wires, Cabled, Decided, Voice

LEMMA SpokenCloses ==
    ASSUME NEW s, Spoken(s), NEW r, r = close_usb(s)
    PROVE  Spoken(r)
<1>1. s \in Chain /\ Wires(s) /\ NewIsSilent(s)
  BY DEF Spoken, Wires, Decided, NewIsSilent
<1>2. CASE ~s.p.open
  BY <1>2 DEF close_usb
<1>3. CASE s.p.open
  <2>1. Wires(r) /\ ~r.v.attached
    BY <1>1, <1>3, WiresClose
  <2>2. Decided(r) /\ r.p.air # "gone"
    BY <1>1, <1>3, CloseIs DEF Spoken, Decided, SameLinks
  <2> QED BY <2>1, <2>2 DEF Spoken
<1> QED BY <1>2, <1>3

LEMMA DateTold ==
    ASSUME NEW s, Spoken(s), NEW ok \in BOOLEAN, today \in 1..MaxDays, NEW r, r = TellDate(s, ok)
    PROVE  Spoken(r)
<1>1. s \in Chain /\ Cabled(s) /\ Aired(s) /\ s.written = {}
  BY DEF Spoken, Wires
<1>2. CASE s.p.carrying = "none" \/ ~wants_date(s.v)
  BY <1>2 DEF TellDate
<1>3. CASE s.p.carrying # "none" /\ wants_date(s.v) /\ ~ok
  <2>1. r = close_usb(s)
    BY <1>3 DEF TellDate, Spoke
  <2> QED BY <2>1, SpokenCloses
<1>4. CASE s.p.carrying # "none" /\ wants_date(s.v) /\ ok
  <2> DEFINE v == [s.v EXCEPT !.dated = today]
             o == s.written \cup (Voice(s) \cap Strangers)
  <2>1. r = [s EXCEPT !.written = o, !.v = v]
    BY <1>4 DEF TellDate, Spoke
  <2>2. o = {}
    BY <1>1, <1>4, VoiceIsTheDongles
  <2>3. /\ v \in View /\ v.attached = s.v.attached /\ v.asked = s.v.asked /\ v.batch = s.v.batch
        /\ v.pending = s.v.pending /\ v.current = s.v.current
    <3>1. today \in 0..MaxDays
      BY BoxPeerAssumption DEF BoxPeerAssumption
    <3> QED BY <1>1, <3>1 DEF Chain, View
  <2> HIDE DEF v, o
  <2>4. /\ r \in Chain /\ r.p = s.p /\ r.v = v /\ r.inq = s.inq /\ r.sending = s.sending /\ r.over = s.over
        /\ r.written = {}
    BY <1>1, <2>1, <2>2, <2>3 DEF Chain
  <2>5. \A w : (Silent(r, w) <=> Silent(s, w)) /\ (Greeting(r, w) <=> Greeting(s, w))
    BY <2>4 DEF Silent, Greeting
  <2>6. Cabled(r) /\ Aired(r)
    BY <1>1, <2>4, <2>5 DEF Cabled, Aired
  <2>7. Decided(r) /\ r.p.air # "gone"
    BY <2>4 DEF Spoken, Decided
  <2>8. ASSUME r.v.attached PROVE Shows(r) /\ Told(r)
    <3>1. Shows(s) /\ Told(s)
      BY <2>3, <2>4, <2>8 DEF Spoken
    <3>2. Speaker(r) = Speaker(s)
      BY <2>4 DEF Speaker
    <3> QED BY <2>3, <2>4, <2>5, <3>1, <3>2 DEF Shows, Told, Shown
  <2> QED BY <2>4, <2>6, <2>7, <2>8 DEF Spoken, Wires
<1> QED BY <1>2, <1>3, <1>4

\* A link that has said all of an answer has nothing half told.
LEMMA AllSaid ==
    ASSUME NEW id, NEW a, NEW pend \in Seq(Row), OneAnswer(id, a, pend, <<>>, 0, <<>>),
           Complete(pend, <<>>, 0, <<>>)
    PROVE  pend = <<>>
<1>1. Heads \in Nat /\ Len(<<>>) = 0 /\ Len(pend) \in Nat
  BY InOrder
<1>2. Len(pend) <= Heads /\ Len(pend) + 0 + 0 - 0 \in {0, Heads + 1}
  BY <1>1 DEF OneAnswer, Complete
<1>3. Len(pend) = 0
  BY <1>1, <1>2
<1> QED BY <1>3

LEMMA AskedWhole ==
    ASSUME NEW id \in 0..MaxLinks, box.answer \in 0..1
    PROVE  OneAnswer(id, box.answer, <<>>, <<>>, 0, Answer(id)) /\ Complete(<<>>, <<>>, 0, Answer(id))
<1>1. /\ Heads \in Nat /\ Len(<<>>) = 0 /\ Len(Answer(id)) = Heads + 1
      /\ \A i \in 1..(Heads + 1) : Answer(id)[i] = Said(id, box.answer, i)
  BY InOrder, AnswerIs
<1>2. 1..0 = {} /\ 1..(0 - 0) = {} /\ 0 + 0 + (Heads + 1) <= Heads + 1 + 0 /\ 0 <= Heads
  BY <1>1
<1>3. \A i \in 1..(Heads + 1) : 0 + 0 - 0 + i = i
  BY <1>1
<1>4. OneAnswer(id, box.answer, <<>>, <<>>, 0, Answer(id))
  BY <1>1, <1>2, <1>3 DEF OneAnswer
<1>5. 0 + 0 + (Heads + 1) - 0 = Heads + 1
  BY <1>1
<1> QED BY <1>1, <1>4, <1>5 DEF Complete

LEMMA Asks ==
    ASSUME NEW s, Spoken(s), NEW ok \in BOOLEAN, box.answer \in 0..1, NEW r, r = Poll(s, ok)
    PROVE  Spoken(r)
<1>1. s \in Chain /\ Cabled(s) /\ Aired(s) /\ s.written = {} /\ Decided(s) /\ s.p.air # "gone"
  BY DEF Spoken, Wires
<1>2. CASE s.p.carrying = "none" \/ ~wants_poll(s.v, s.over)
  BY <1>2 DEF Poll
<1>3. CASE s.p.carrying # "none" /\ wants_poll(s.v, s.over) /\ ~ok
  <2>1. r = close_usb(s)
    BY <1>3 DEF Poll, Spoke
  <2> QED BY <2>1, SpokenCloses
<1>4. CASE s.p.carrying # "none" /\ wants_poll(s.v, s.over) /\ ok
  <2> DEFINE w == s.p.carrying
             id == Speaker(s)
             v == [s.v EXCEPT !.asked = TRUE]
             o == s.written \cup (Voice(s) \cap Strangers)
             t == s.over \ {"poll"}
             b == [s.sending EXCEPT ![w] = Answer(id)]
  <2>1. s.v.attached /\ (s.v.asked => "poll" \in s.over)
    BY <1>4 DEF wants_poll
  <2>2. Shows(s) /\ Told(s) /\ w \in Way
    BY <2>1 DEF Spoken, Shows
  <2>3. Silent(s, w)
    BY <2>1, <2>2 DEF Told
  <2>4. id \in 0..MaxLinks
    BY <1>1 DEF Chain, Peer, Speaker
  <2>5. Answer(id) \in Seq(Message) /\ <<>> \o Answer(id) = Answer(id)
    <3>1. Answer(id) \in Seq(Message)
      BY <2>4, AnswerIs
    <3> HIDE DEF id
    <3> QED BY <3>1
  <2>6. r = [s EXCEPT !.written = o, !.v = v, !.over = t, !.sending = b]
    <3>1. s.sending[w] = <<>>
      BY <2>3 DEF Silent
    <3>2. r = [s EXCEPT !.written = o, !.v.asked = TRUE, !.over = @ \ {"poll"},
                        !.sending[w] = @ \o Answer(id)]
      BY <1>1, <1>4 DEF Poll, Spoke, Speaker
    <3>3. s.sending[w] \o Answer(id) = Answer(id)
      BY <2>5, <3>1
    <3> HIDE DEF id, o, w
    <3> QED BY <3>2, <3>3
  <2>7. o = {}
    BY <1>1, <1>4, VoiceIsTheDongles
  <2>8. /\ v \in View /\ v.attached = s.v.attached /\ v.asked = TRUE /\ v.batch = s.v.batch
        /\ v.pending = s.v.pending /\ v.current = s.v.current
    BY <1>1 DEF Chain, View
  <2>9. t \in SUBSET Timer /\ "poll" \notin t
    BY <1>1 DEF Chain
  <2>10. b \in [Way -> Seq(Message)] /\ b[w] = Answer(id) /\ \A x \in Way : x # w => b[x] = s.sending[x]
    BY <1>1, <2>2, <2>5 DEF Chain
  <2> HIDE DEF v, o, t, b
  <2>11. /\ r \in Chain /\ r.p = s.p /\ r.v = v /\ r.inq = s.inq /\ r.sending = b /\ r.over = t
         /\ r.written = {}
    BY <1>1, <2>6, <2>7, <2>8, <2>9, <2>10 DEF Chain
  <2>12. \A x \in Way : x # w => (Silent(r, x) <=> Silent(s, x)) /\ (Greeting(r, x) <=> Greeting(s, x))
    BY <2>10, <2>11 DEF Silent, Greeting
  <2>13. Cabled(r)
    <3>1. CASE w = "usb"
      BY <1>1, <2>2, <2>11, <3>1 DEF Cabled, Decided, Shows
    <3>2. CASE w # "usb"
      BY <1>1, <2>11, <2>12, <3>2 DEF Cabled, Way
    <3> QED BY <3>1, <3>2
  <2>14. Aired(r)
    <3>1. CASE w = "air"
      BY <1>1, <2>11, <3>1 DEF Aired, Decided
    <3>2. CASE w # "air"
      BY <1>1, <2>10, <2>11, <2>12, <3>2 DEF Aired, Way
    <3> QED BY <3>1, <3>2
  <2>15. Decided(r) /\ r.p.air # "gone"
    BY <1>1, <2>11 DEF Decided
  <2>16. Shows(r)
    BY <2>2, <2>8, <2>11 DEF Shows, Shown, Speaker
  <2>17. Told(r)
    <3>1. s.inq[w] = <<>> /\ s.sending[w] = <<>>
      BY <2>3 DEF Silent
    <3>2. s.v.pending = <<>>
      <4>1. s.v.pending \in Seq(Row)
        BY <1>1 DEF Chain, View
      <4>2. PICK a \in 0..1 : OneAnswer(id, a, s.v.pending, <<>>, 0, <<>>)
        BY <2>2, <3>1 DEF Told
      <4>3. Complete(s.v.pending, <<>>, 0, <<>>)
        BY <2>2, <3>1 DEF Told
      <4> QED BY <4>1, <4>2, <4>3, AllSaid
    <3>3. r.v.pending = <<>> /\ r.inq[w] = <<>> /\ r.sending[w] = Answer(id) /\ r.p.carrying = w
      BY <2>8, <2>10, <2>11, <3>1, <3>2
    <3>4. Speaker(r) = id
      BY <2>11 DEF Speaker
    <3>5. OneAnswer(id, box.answer, <<>>, <<>>, 0, Answer(id)) /\ Complete(<<>>, <<>>, 0, Answer(id))
      BY <2>4, AskedWhole
    <3>6. r.v.asked /\ "poll" \notin r.over
      BY <2>8, <2>9, <2>11
    <3> HIDE DEF id, w
    <3> QED BY <3>3, <3>4, <3>5, <3>6 DEF Told
  <2> QED BY <2>11, <2>13, <2>14, <2>15, <2>16, <2>17 DEF Spoken, Wires
<1> QED BY <1>2, <1>3, <1>4

-----------------------------------------------------------------------------
(* pump() *)

BoxTypeOK == box \in [at : {"mac", "charger"}, up : BOOLEAN, boots : 0..MaxBoots, date : 0..MaxDays, answer : 0..1]

LEMMA SpokenIsSound == ASSUME NEW s, Spoken(s), NEW b PROVE Sound(s, b)
BY DEF Spoken, Sound

LEMMA Attaches ==
    ASSUME NEW s, Spoken(s), s.p.link = "none", NEW port \in Candidates(s), strangers \subseteq Strangers, BoxTypeOK,
           NEW r, r = attach(s, port)
    PROVE  Spoken(r)
<1>1. s \in Chain /\ Cabled(s) /\ Aired(s) /\ s.written = {} /\ Decided(s) /\ s.p.air # "gone"
  BY DEF Spoken, Wires
<1>2. port \in Ports /\ (port = Cable => s.links < MaxLinks) /\ port # "none"
  BY BoxPeerAssumption DEF BoxPeerAssumption, Candidates, Ports, Cable
<1>3. ~s.p.usb /\ s.p.carrying # "usb"
  BY <1>1 DEF Cabled, Decided, Cable
<1> DEFINE n == IF port = Cable THEN s.links + 1 ELSE s.links
           id == IF port = Cable THEN s.links + 1 ELSE 0
           o == s.over \ {"greet"}
           a == [s.inq EXCEPT !["usb"] = <<>>]
           m == IF port = Cable THEN <<hello>> ELSE <<>>
           b == [s.sending EXCEPT !["usb"] = m]
           q == [s.p EXCEPT !.link = port, !.open = TRUE, !.usb = FALSE, !.boot = box.boots, !.id = id]
<1>4. r = [s EXCEPT !.p = q, !.links = n, !.over = o, !.inq = a, !.sending = b]
  <2>1. r = [s EXCEPT !.p = q, !.links = n, !.over = @ \ {"greet"},
                      !.inq["usb"] = <<>>, !.sending["usb"] = m]
    BY DEF attach
  <2> HIDE DEF n, q, m
  <2> QED BY <2>1
<1>5. n \in 0..MaxLinks /\ id \in 0..MaxLinks
  BY <1>1, <1>2, BoxPeerAssumption DEF Chain, BoxPeerAssumption
<1>6. o \in SUBSET Timer /\ ("poll" \in o <=> "poll" \in s.over)
  BY <1>1 DEF Chain
<1>7. m \in Seq(Message)
  <2>1. hello \in Message
    BY DEF hello, Message
  <2> QED BY <2>1
<1> HIDE DEF n, id, o, m
<1>8. /\ a \in [Way -> Seq(Message)] /\ a["usb"] = <<>> /\ a["air"] = s.inq["air"]
      /\ b \in [Way -> Seq(Message)] /\ b["usb"] = m /\ b["air"] = s.sending["air"]
  BY <1>1, <1>7 DEF Chain, Way
<1>9. /\ q \in Peer /\ q.air = s.p.air /\ q.greeted = s.p.greeted /\ q.open /\ q.link = port /\ ~q.usb
      /\ q.airid = s.p.airid /\ q.boot = box.boots /\ q.carrying = s.p.carrying
  <2>1. box.boots \in 0..MaxBoots
    BY DEF BoxTypeOK
  <2> QED BY <1>1, <1>2, <1>5, <2>1 DEF Chain, Peer
<1> HIDE DEF q, a, b
<1>10. /\ r \in Chain /\ r.p = q /\ r.v = s.v /\ r.inq = a /\ r.sending = b /\ r.over = o
       /\ r.written = {}
  BY <1>1, <1>4, <1>5, <1>6, <1>8, <1>9 DEF Chain
<1>11. /\ Silent(r, "air") <=> Silent(s, "air")
       /\ Greeting(r, "air") <=> Greeting(s, "air")
  BY <1>8, <1>10 DEF Silent, Greeting
<1>12. Cabled(r)
  <2>1. CASE port = Cable
    BY <1>8, <1>9, <1>10, <2>1 DEF Cabled, Greeting, m
  <2>2. CASE port # Cable
    BY <1>8, <1>9, <1>10, <2>2 DEF Cabled, Silent, m
  <2> QED BY <2>1, <2>2
<1>13. Aired(r)
  BY <1>1, <1>8, <1>9, <1>10, <1>11 DEF Aired
<1>14. Decided(r) /\ r.p.air # "gone"
  BY <1>1, <1>3, <1>9, <1>10 DEF Decided
<1>15. ASSUME r.v.attached PROVE Shows(r) /\ Told(r)
  <2>1. Shows(s) /\ Told(s)
    BY <1>10, <1>15 DEF Spoken
  <2>2. r.p.carrying = "air" /\ s.p.carrying = "air" /\ Speaker(r) = Speaker(s)
    BY <1>3, <1>9, <1>10, <2>1 DEF Shows, Way, Speaker
  <2> QED BY <1>6, <1>8, <1>10, <1>11, <2>1, <2>2 DEF Shows, Told
<1>16. r.p.boot <= box.boots
  BY <1>9, <1>10 DEF BoxTypeOK
<1> QED BY <1>10, <1>12, <1>13, <1>14, <1>15, <1>16 DEF Spoken, Wires

LEMMA Looks ==
    ASSUME NEW s, Spoken(s), strangers \subseteq Strangers, BoxTypeOK, NEW r \in Look(s)
    PROVE  Spoken(r)
<1>1. s \in Chain
  BY DEF Spoken, Wires
<1> DEFINE q == [s.p EXCEPT !.looked = TRUE]
           o == s.over \ {"retry"}
           t == [s EXCEPT !.p = q, !.over = o]
<1>2. CASE s.p.link # "none" \/ "retry" \notin s.over
  BY <1>2 DEF Look
<1>3. CASE ~(s.p.link # "none" \/ "retry" \notin s.over)
  <2>1. r \in (IF Candidates(s) = {} THEN {t} ELSE {attach(t, port) : port \in Candidates(s)})
    <3> DEFINE u == [s EXCEPT !.over = @ \ {"retry"}, !.p.looked = TRUE]
    <3>1. u = t
      OBVIOUS
    <3>2. r \in (IF Candidates(s) = {} THEN {u} ELSE {attach(u, port) : port \in Candidates(s)})
      BY <1>3 DEF Look
    <3> HIDE DEF t, u
    <3> QED BY <3>1, <3>2
  <2>2. /\ q \in Peer /\ q.air = s.p.air /\ q.greeted = s.p.greeted /\ q.open = s.p.open /\ q.gone = s.p.gone /\ q.link = s.p.link
        /\ q.usb = s.p.usb /\ q.id = s.p.id /\ q.airid = s.p.airid /\ q.boot = s.p.boot /\ q.carrying = s.p.carrying
        /\ q.shy = s.p.shy
    BY <1>1 DEF Chain, Peer
  <2>3. o \in SUBSET Timer /\ ("poll" \in o <=> "poll" \in s.over)
    BY <1>1 DEF Chain
  <2> HIDE DEF q, o
  <2>4. /\ t \in Chain /\ t.p = q /\ t.v = s.v /\ t.inq = s.inq /\ t.sending = s.sending /\ t.over = o
        /\ t.written = s.written /\ t.links = s.links
    BY <1>1, <2>2, <2>3 DEF Chain
  <2> HIDE DEF t
  <2>5. \A w : (Silent(t, w) <=> Silent(s, w)) /\ (Greeting(t, w) <=> Greeting(s, w))
    BY <2>4 DEF Silent, Greeting
  <2>6. Wires(t)
    BY <2>2, <2>4, <2>5 DEF Spoken, Wires, Cabled, Aired
  <2>7. Decided(t) /\ t.p.air # "gone"
    BY <2>2, <2>4 DEF Spoken, Decided
  <2>8. ASSUME t.v.attached PROVE Shows(t) /\ Told(t)
    <3>1. Shows(s) /\ Told(s)
      BY <2>4, <2>8 DEF Spoken
    <3>2. Speaker(t) = Speaker(s)
      BY <2>2, <2>4 DEF Speaker
    <3> QED BY <2>2, <2>3, <2>4, <2>5, <3>1, <3>2 DEF Shows, Told
  <2>9. Spoken(t)
    BY <2>6, <2>7, <2>8 DEF Spoken
  <2>10. t.p.link = "none"
    BY <1>3, <2>2, <2>4
  <2>11. Candidates(t) = Candidates(s)
    BY <2>2, <2>4 DEF Candidates
  <2> QED BY <2>1, <2>9, <2>10, <2>11, Attaches
<1> QED BY <1>2, <1>3

LEMMA PumpSpoken ==
    ASSUME NEW s, Sound(s, box), s.p = p, BoxTypeOK, today \in 1..MaxDays, strangers \subseteq Strangers,
           use \in {"off", "auto"}, NEW ok1 \in BOOLEAN, NEW ok2 \in BOOLEAN,
           NEW done \in Look(Poll(TellDate(HandOver(DropShy(tend_radio(DropAir(DropGone(ReadAir(ReadUsb(s))))))), ok1), ok2))
    PROVE  Spoken(done)
<1> DEFINE a == ReadUsb(s)
           b == ReadAir(a)
           c == DropGone(b)
           d == DropAir(c)
           e == tend_radio(d)
           f == DropShy(e)
           g == HandOver(f)
           h == TellDate(g, ok1)
           i == Poll(h, ok2)
<1>1. Pumping(a)
  BY UsbRead
<1> HIDE DEF a
<1>2. Pumping(b) /\ b.p.air # "gone"
  BY <1>1, AirRead
<1> HIDE DEF b
<1>3. Pumping(c) /\ c.p.air # "gone" /\ ~c.p.gone
  BY <1>2, GoneDropped
<1> HIDE DEF c
<1>4. Pumping(d) /\ d.p.air \notin {"gone", "closed"} /\ ~d.p.gone
  BY <1>3, AirDropped
<1> HIDE DEF d
<1>5. Pumping(e) /\ e.p.air \notin {"gone", "closed"} /\ ~e.p.gone /\ (e.p.usb => e.p.air = "none")
  BY <1>4, RadioTended
<1> HIDE DEF e
<1>6. Pumping(f) /\ f.p.air \notin {"gone", "closed"} /\ ~f.p.gone /\ (f.p.usb => f.p.air = "none")
  BY <1>5, ShyDropped
<1> HIDE DEF f
<1>7. Spoken(g)
  BY <1>6, HandedOver
<1> HIDE DEF g
<1>8. Spoken(h)
  BY <1>7, DateTold
<1> HIDE DEF h
<1>9. Spoken(i)
  BY <1>8, Asks DEF BoxTypeOK
<1>10. done \in Look(i)
  BY DEF a, b, c, d, e, f, g, h, i
<1> HIDE DEF i
<1> QED BY <1>9, <1>10, Looks

-----------------------------------------------------------------------------
(* The world *)

\* The first message on its way arrives.
LEMMA ArrivesInLine ==
    ASSUME NEW id, NEW a, NEW pend \in Seq(Row), NEW arrived \in Seq(Message), NEW coming \in Seq(Message),
           coming # <<>>, OneAnswer(id, a, pend, arrived, 0, coming), Complete(pend, arrived, 0, coming),
           NEW now, now = Append(arrived, Head(coming)), NEW later, later = Tail(coming)
    PROVE  OneAnswer(id, a, pend, now, 0, later) /\ Complete(pend, now, 0, later)
<1> DEFINE k == Len(pend)
           n == Len(arrived)
           m == Len(coming)
<1>1. k \in Nat /\ n \in Nat /\ m \in Nat /\ m >= 1 /\ Heads \in Nat
  BY InOrder
<1>2. /\ Len(now) = n + 1 /\ now[n + 1] = coming[1] /\ \A i \in 1..n : now[i] = arrived[i]
      /\ Len(later) = m - 1 /\ \A i \in 1..(m - 1) : later[i] = coming[i + 1]
  BY <1>1
<1>3. /\ k <= Heads /\ k + n + m <= Heads + 1 + 0
      /\ \A i \in 1..k : pend[i] = RowOf(id, a, i)
      /\ \A i \in 1..(n - 0) : arrived[0 + i] = Said(id, a, k + i)
      /\ \A i \in 1..m : coming[i] = Said(id, a, k + n - 0 + i)
  BY DEF OneAnswer
<1> HIDE DEF k, n, m
<1>4. \A i \in 1..((n + 1) - 0) : now[0 + i] = Said(id, a, k + i)
  <2> SUFFICES ASSUME NEW i \in 1..((n + 1) - 0) PROVE now[0 + i] = Said(id, a, k + i)
    OBVIOUS
  <2>5. i \in 1..(n + 1) /\ 0 + i = i
    BY <1>1
  <2>1. CASE i \in 1..n
    <3>1. i \in 1..(n - 0)
      BY <1>1, <2>1
    <3>2. arrived[i] = Said(id, a, k + i)
      BY <1>3, <2>5, <3>1
    <3> QED BY <1>2, <2>1, <3>2
  <2>2. CASE i = n + 1
    <3>1. 1 \in 1..m /\ k + n - 0 + 1 = k + (n + 1)
      BY <1>1
    <3>2. coming[1] = Said(id, a, k + (n + 1))
      BY <1>3, <3>1
    <3> QED BY <1>2, <2>2, <3>2
  <2>3. i \in 1..n \/ i = n + 1
    BY <1>1, <2>5
  <2> QED BY <2>1, <2>2, <2>3
<1>5. \A i \in 1..(m - 1) : later[i] = Said(id, a, k + (n + 1) - 0 + i)
  <2> SUFFICES ASSUME NEW i \in 1..(m - 1) PROVE later[i] = Said(id, a, k + (n + 1) - 0 + i)
    OBVIOUS
  <2>1. i + 1 \in 1..m /\ k + n - 0 + (i + 1) = k + (n + 1) - 0 + i
    BY <1>1
  <2>2. coming[i + 1] = Said(id, a, k + n - 0 + (i + 1))
    BY <1>3, <2>1
  <2> QED BY <1>2, <2>1, <2>2
<1>6. k + (n + 1) + (m - 1) = k + n + m /\ k + (n + 1) + (m - 1) - 0 = k + n + m - 0
  BY <1>1
<1>7. OneAnswer(id, a, pend, now, 0, later)
  BY <1>2, <1>3, <1>4, <1>5, <1>6 DEF OneAnswer, k
<1>8. Complete(pend, now, 0, later)
  BY <1>2, <1>6 DEF Complete, k, n, m
<1> QED BY <1>7, <1>8

LEMMA ArriveKeeps ==
    ASSUME NEW s, NEW b, Sound(s, b), NEW w \in Way, s.sending[w] # <<>>,
           NEW r, r = [s EXCEPT !.inq = [s.inq EXCEPT ![w] = Append(s.inq[w], Head(s.sending[w]))],
                                !.sending = [s.sending EXCEPT ![w] = Tail(s.sending[w])]]
    PROVE  Sound(r, b)
<1>1. s \in Chain /\ Cabled(s) /\ Aired(s) /\ s.written = {} /\ s.p.boot <= box.boots /\ Decided(s)
  BY DEF Sound, Wires
<1> DEFINE arrived == s.inq[w]
           coming == s.sending[w]
           now == Append(arrived, Head(coming))
           later == Tail(coming)
           a == [s.inq EXCEPT ![w] = now]
           c == [s.sending EXCEPT ![w] = later]
<1>2. arrived \in Seq(Message) /\ coming \in Seq(Message) /\ coming # <<>>
  BY <1>1 DEF Chain
<1>3. now \in Seq(Message) /\ later \in Seq(Message)
  <2> HIDE DEF arrived, coming
  <2> QED BY <1>2
<1>4. r = [s EXCEPT !.inq = a, !.sending = c]
  OBVIOUS
<1> HIDE DEF now, later
<1>5. /\ a \in [Way -> Seq(Message)] /\ a[w] = now /\ \A x \in Way : x # w => a[x] = s.inq[x]
      /\ c \in [Way -> Seq(Message)] /\ c[w] = later /\ \A x \in Way : x # w => c[x] = s.sending[x]
  BY <1>1, <1>3 DEF Chain
<1> HIDE DEF a, c
<1>6. /\ r \in Chain /\ r.p = s.p /\ r.v = s.v /\ r.inq = a /\ r.sending = c /\ r.over = s.over
      /\ r.written = s.written
  BY <1>1, <1>4, <1>5 DEF Chain
<1>7. \A x \in Way : x # w => (Silent(r, x) <=> Silent(s, x)) /\ (Greeting(r, x) <=> Greeting(s, x))
  BY <1>5, <1>6 DEF Silent, Greeting
<1>8. ~Silent(s, w)
  BY DEF Silent
<1>9. Greeting(s, w) => Greeting(r, w)
  <2> SUFFICES ASSUME Greeting(s, w) PROVE Greeting(r, w)
    OBVIOUS
  <2>1. arrived = <<>> /\ coming = <<hello>>
    BY <1>8 DEF Greeting
  <2>2. now = <<hello>> /\ later = <<>>
    BY <2>1 DEF now, later
  <2> QED BY <1>5, <1>6, <2>2 DEF Greeting
<1>10. Cabled(r)
  <2>1. CASE w = "usb"
    BY <1>1, <1>6, <1>8, <1>9, <2>1 DEF Cabled
  <2>2. CASE w # "usb"
    BY <1>1, <1>6, <1>7, <2>2 DEF Cabled, Way
  <2> QED BY <2>1, <2>2
<1>11. Aired(r)
  <2>1. CASE w = "air"
    BY <1>1, <1>6, <1>8, <1>9, <2>1 DEF Aired
  <2>2. CASE w # "air"
    BY <1>1, <1>5, <1>6, <1>7, <2>2 DEF Aired, Way
  <2> QED BY <2>1, <2>2
<1>12. Decided(r) /\ Speaker(r) = Speaker(s) /\ (Lost(r, b) <=> Lost(s, b)) /\ (Shows(r) <=> Shows(s))
  BY <1>1, <1>6 DEF Decided, Speaker, Lost, Shows
<1>13. ASSUME r.v.attached, ~Lost(r, b) PROVE Told(r)
  <2>1. Told(s) /\ Shows(s)
    BY <1>6, <1>12, <1>13 DEF Sound
  <2>2. CASE s.p.carrying = w
    <3>1. s.v.pending \in Seq(Row)
      BY <1>1 DEF Chain, View
    <3>2. s.v.asked /\ "poll" \notin s.over
      BY <1>8, <2>1, <2>2 DEF Told
    <3>3. PICK x \in 0..1 : OneAnswer(Speaker(s), x, s.v.pending, arrived, 0, coming)
      BY <2>1, <2>2 DEF Told
    <3>4. Complete(s.v.pending, arrived, 0, coming)
      BY <2>1, <2>2 DEF Told
    <3> HIDE DEF arrived, coming
    <3>5. OneAnswer(Speaker(s), x, s.v.pending, now, 0, later) /\ Complete(s.v.pending, now, 0, later)
      BY <1>2, <3>1, <3>3, <3>4, ArrivesInLine DEF now, later
    <3>6. r.inq[w] = now /\ r.sending[w] = later
      BY <1>5, <1>6
    <3> QED BY <1>6, <1>12, <2>1, <2>2, <3>2, <3>5, <3>6 DEF Told
  <2>3. CASE s.p.carrying # w
    <3>1. s.p.carrying \in Way
      BY <2>1 DEF Shows
    <3>2. r.inq[s.p.carrying] = s.inq[s.p.carrying] /\ r.sending[s.p.carrying] = s.sending[s.p.carrying]
      BY <1>5, <1>6, <2>3, <3>1
    <3>3. Silent(r, s.p.carrying) <=> Silent(s, s.p.carrying)
      BY <1>7, <2>3, <3>1
    <3> QED BY <1>6, <1>12, <2>1, <3>2, <3>3 DEF Told
  <2> QED BY <2>2, <2>3
<1> QED BY <1>1, <1>6, <1>10, <1>11, <1>12, <1>13 DEF Sound, Wires

\* The rest of the world changes one or two things; what the invariant has to
\* know of each of them is said of the record.
LEMMA ElapseKeeps ==
    ASSUME NEW s, NEW b, Sound(s, b), NEW t \in Timer, t = "poll" => \A w \in Way : Silent(s, w),
           NEW q \in {s.p, [s.p EXCEPT !.shy = {}]}, NEW r, r = [s EXCEPT !.p = q, !.over = s.over \cup {t}]
    PROVE  Sound(r, b)
<1>1. s \in Chain /\ Cabled(s) /\ Aired(s) /\ s.written = {} /\ s.p.boot <= box.boots /\ Decided(s)
  BY DEF Sound, Wires
<1>2. /\ q \in Peer /\ q.air = s.p.air /\ q.greeted = s.p.greeted /\ q.open = s.p.open /\ q.gone = s.p.gone /\ q.link = s.p.link
      /\ q.usb = s.p.usb /\ q.id = s.p.id /\ q.airid = s.p.airid /\ q.boot = s.p.boot /\ q.carrying = s.p.carrying
  BY <1>1 DEF Chain, Peer
<1> DEFINE o == s.over \cup {t}
<1>3. o \in SUBSET Timer /\ ("poll" \in o => "poll" \in s.over \/ t = "poll")
  BY <1>1 DEF Chain
<1>4. r = [s EXCEPT !.p = q, !.over = o]
  OBVIOUS
<1> HIDE DEF o
<1>5. /\ r \in Chain /\ r.p = q /\ r.v = s.v /\ r.inq = s.inq /\ r.sending = s.sending /\ r.over = o
      /\ r.written = s.written
  BY <1>1, <1>2, <1>3, <1>4 DEF Chain
<1>6. \A w : (Silent(r, w) <=> Silent(s, w)) /\ (Greeting(r, w) <=> Greeting(s, w))
  BY <1>5 DEF Silent, Greeting
<1>7. Cabled(r) /\ Aired(r)
  BY <1>1, <1>2, <1>5, <1>6 DEF Cabled, Aired
<1>8. Decided(r) /\ Speaker(r) = Speaker(s) /\ (Lost(r, b) <=> Lost(s, b))
  BY <1>1, <1>2, <1>5 DEF Decided, Speaker, Lost
<1>9. Shows(r) <=> Shows(s)
  BY <1>2, <1>5, <1>8 DEF Shows
<1>10. ASSUME r.v.attached, ~Lost(r, b) PROVE Told(r)
  <2>1. Told(s) /\ Shows(s)
    BY <1>5, <1>8, <1>10 DEF Sound
  <2>2. s.p.carrying \in Way
    BY <2>1 DEF Shows
  <2>3. ~s.v.asked \/ "poll" \in o => Silent(s, s.p.carrying)
    BY <1>3, <2>1, <2>2 DEF Told
  <2> QED BY <1>2, <1>5, <1>6, <1>8, <2>1, <2>3 DEF Told
<1> QED BY <1>1, <1>2, <1>5, <1>7, <1>8, <1>9, <1>10 DEF Sound, Wires

LEMMA AirUpKeeps ==
    ASSUME NEW s, NEW b, Sound(s, b), s.p.air = "open",
           NEW r, r = [s EXCEPT !.p = [s.p EXCEPT !.air = "ready"], !.sending = [s.sending EXCEPT !["air"] = <<hello>>]]
    PROVE  Sound(r, b)
<1>1. s \in Chain /\ Cabled(s) /\ Aired(s) /\ s.written = {} /\ s.p.boot <= box.boots /\ Decided(s)
  BY DEF Sound, Wires
<1> DEFINE q == [s.p EXCEPT !.air = "ready"]
           m == <<hello>>
           c == [s.sending EXCEPT !["air"] = m]
<1>2. /\ q \in Peer /\ q.air = "ready" /\ q.greeted = s.p.greeted /\ q.open = s.p.open /\ q.gone = s.p.gone /\ q.link = s.p.link
      /\ q.usb = s.p.usb /\ q.id = s.p.id /\ q.airid = s.p.airid /\ q.boot = s.p.boot /\ q.carrying = s.p.carrying
  BY <1>1 DEF Chain, Peer
<1>3. m \in Seq(Message)
  <2>1. hello \in Message
    BY DEF hello, Message
  <2> QED BY <2>1
<1> HIDE DEF m
<1>4. c \in [Way -> Seq(Message)] /\ c["air"] = m /\ c["usb"] = s.sending["usb"]
  BY <1>1, <1>3 DEF Chain, Way
<1>5. r = [s EXCEPT !.p = q, !.sending = c]
  BY DEF m
<1> HIDE DEF q, c
<1>6. /\ r \in Chain /\ r.p = q /\ r.v = s.v /\ r.inq = s.inq /\ r.sending = c /\ r.over = s.over
      /\ r.written = s.written
  BY <1>1, <1>2, <1>4, <1>5 DEF Chain
<1>7. (Silent(r, "usb") <=> Silent(s, "usb")) /\ (Greeting(r, "usb") <=> Greeting(s, "usb"))
  BY <1>4, <1>6 DEF Silent, Greeting
<1>8. Greeting(r, "air")
  BY <1>1, <1>4, <1>6 DEF Aired, Silent, Greeting, m
<1>9. Cabled(r)
  BY <1>1, <1>2, <1>6, <1>7 DEF Cabled
<1>10. Aired(r)
  BY <1>1, <1>2, <1>6, <1>8 DEF Aired
<1>11. Decided(r) /\ Speaker(r) = Speaker(s)
  BY <1>1, <1>2, <1>6 DEF Decided, Speaker
<1>12. s.p.carrying # "air"
  BY <1>1 DEF Decided, Aired
<1>13. (Lost(r, b) <=> Lost(s, b)) /\ (Shows(r) <=> Shows(s))
  BY <1>2, <1>6, <1>11, <1>12 DEF Lost, Shows
<1>14. ASSUME r.v.attached, ~Lost(r, b) PROVE Told(r)
  <2>1. Told(s) /\ Shows(s)
    BY <1>6, <1>13, <1>14 DEF Sound
  <2>2. s.p.carrying = "usb"
    BY <1>12, <2>1 DEF Shows, Way
  <2> QED BY <1>2, <1>4, <1>6, <1>7, <1>11, <2>1, <2>2 DEF Told
<1> QED BY <1>1, <1>2, <1>6, <1>9, <1>10, <1>11, <1>13, <1>14 DEF Sound, Wires

\* The air is lost, or the dongle stops: what it had still to say is gone.
LEMMA StopKeeps ==
    ASSUME NEW s, NEW b, Sound(s, b),
           NEW r \in Chain, SameLinks(r, s), r.v = s.v, r.inq = s.inq, r.over = s.over,
           r.p.link = s.p.link, r.p.open = s.p.open, r.p.gone = s.p.gone, r.p.usb = s.p.usb, r.p.greeted = s.p.greeted,
           r.sending["air"] = <<>>, r.sending["usb"] \in {<<>>, s.sending["usb"]},
           r.p.air = IF s.p.air = "ready" THEN "gone" ELSE r.p.air,
           r.p.air \in {s.p.air, "gone"}, s.p.air = "none" => r.p.air = "none",
           NEW c, s.p.carrying = "usb" => Lost(r, c) \/ (r.sending = [s.sending EXCEPT !["air"] = <<>>] /\ c = b)
    PROVE  Sound(r, c)
<1>1. s \in Chain /\ Cabled(s) /\ Aired(s) /\ s.written = {} /\ s.p.boot <= box.boots /\ Decided(s)
  BY DEF Sound, Wires
<1>2. /\ Silent(s, "usb") => Silent(r, "usb")
      /\ Greeting(s, "usb") => Greeting(r, "usb")
      /\ Silent(s, "air") => Silent(r, "air")
      /\ Greeting(s, "air") => Greeting(r, "air")
  BY DEF Silent, Greeting
<1>3. Cabled(r)
  BY <1>1, <1>2 DEF Cabled
<1>4. Aired(r)
  <2>1. s.p.air \in {"none", "open", "ready", "gone"} /\ r.p.air \in {"none", "open", "gone"}
    BY <1>1 DEF Chain, Peer, Decided
  <2>2. CASE s.p.air \in {"none", "open"}
    BY <1>1, <1>2, <2>1, <2>2 DEF Aired, Greeting
  <2>3. CASE s.p.air \in {"ready", "gone"}
    BY <1>1, <1>2, <2>1, <2>3 DEF Aired
  <2> QED BY <2>1, <2>2, <2>3
<1>5. Decided(r) /\ Speaker(r) = Speaker(s) /\ (Shows(s) => Shows(r))
  BY <1>1 DEF Decided, Speaker, Shows, SameLinks
<1>6. ASSUME r.v.attached, ~Lost(r, c) PROVE Told(r)
  <2>1. Shows(s)
    BY <1>6 DEF Sound
  <2>2. s.p.carrying # "air"
    <3>1. r.p.air # "ready"
      BY <1>1 DEF Chain, Peer
    <3> QED BY <1>6, <3>1 DEF Lost, SameLinks
  <2>3. s.p.carrying = "usb"
    BY <2>1, <2>2 DEF Shows, Way
  <2>4. r.sending["usb"] = s.sending["usb"] /\ c = b
    BY <1>1, <1>6, <2>3 DEF Chain, Way
  <2>5. ~Lost(s, b)
    BY <1>6, <2>3, <2>4 DEF Lost, SameLinks
  <2>6. Told(s)
    BY <1>6, <2>5 DEF Sound
  <2>7. Silent(s, "usb") <=> Silent(r, "usb")
    BY <2>4 DEF Silent
  <2> QED BY <1>5, <2>3, <2>4, <2>6, <2>7 DEF Told, SameLinks
<1> QED BY <1>1, <1>3, <1>4, <1>5, <1>6 DEF Sound, Wires, SameLinks

-----------------------------------------------------------------------------
(* Together *)

\* What the invariant says of the variables, and of the ones outside the record.
Outside ==
    /\ BoxTypeOK /\ today \in 1..MaxDays /\ use \in Uses /\ strangers \subseteq Strangers

LEMMA TypedRecord == TypeOK <=> State \in Chain /\ Outside
BY DEF TypeOK, State, Chain, Outside, BoxTypeOK

LEMMA InvIs == BoxInv <=> Sound(State, box) /\ Outside
BY TypedRecord DEF BoxInv, Sound, Wires

LEMMA BecomesIs == ASSUME NEW r \in Chain, Becomes(r) PROVE State' = r
BY DEF Becomes, State, Chain

THEOREM BoxInvariant == "both" \notin Uses /\ Spec => []BoxInv
<1> SUFFICES ASSUME "both" \notin Uses PROVE Spec => []BoxInv
  OBVIOUS
<1>0. Uses \subseteq {"off", "auto"}
  BY BoxPeerAssumption DEF BoxPeerAssumption
<1>1. Init => BoxInv
  <2> SUFFICES ASSUME Init PROVE BoxInv
    OBVIOUS
  <2>1. Outside
    BY BoxPeerAssumption DEF BoxPeerAssumption, Init, Outside, BoxTypeOK
  <2>2. view \in View
    <3>1. <<>> \in Seq(Row) /\ 0 \in 0..MaxDays
      BY BoxPeerAssumption DEF BoxPeerAssumption
    <3> QED BY <3>1 DEF Init, View, NoView
  <2>3. inq \in [Way -> Seq(Message)] /\ sending \in [Way -> Seq(Message)]
    BY DEF Init
  <2>4. p \in Peer
    BY BoxPeerAssumption DEF BoxPeerAssumption, Init, Peer
  <2>5. links \in 0..MaxLinks /\ over \subseteq Timer /\ written \subseteq Strangers
    BY BoxPeerAssumption DEF BoxPeerAssumption, Init, Timer
  <2>6. State \in Chain
    BY <2>2, <2>3, <2>4, <2>5 DEF State, Chain
  <2>7. /\ State.p = p /\ State.v = view /\ State.written = {}
        /\ Silent(State, "usb") /\ Silent(State, "air")
    BY DEF State, Init, Silent, Way
  <2>8. /\ p.link = "none" /\ p.boot = 0 /\ ~p.usb /\ ~p.greeted /\ p.air = "none" /\ p.carrying = "none" /\ ~view.attached
        /\ box.boots = 0
    BY DEF Init, NoView
  <2>9. Wires(State)
    BY <2>6, <2>7, <2>8 DEF Wires, Cabled, Aired, Cable
  <2>10. Sound(State, box)
    BY <2>7, <2>8, <2>9 DEF Sound, Decided
  <2> QED BY <2>1, <2>10, InvIs
<1>2. BoxInv /\ [Next]_vars => BoxInv'
  <2> SUFFICES ASSUME BoxInv, [Next]_vars PROVE BoxInv'
    OBVIOUS
  <2>1. Sound(State, box) /\ Outside /\ State \in Chain
    BY InvIs DEF Sound, Wires
  <2>2. BoxTypeOK /\ use \in {"off", "auto"} /\ today \in 1..MaxDays /\ strangers \subseteq Strangers
    BY <1>0, <2>1 DEF Outside
  <2>3. /\ State.p = p /\ State.v = view /\ State.over = over /\ State.inq = inq /\ State.sending = sending
        /\ State.written = written /\ State.links = links
    BY DEF State
  \* It is enough to find the record that comes next, sound as it is seen now.
  <2>4. ASSUME NEW r, State' = r, Sound(r, box'), use' = use, box'.boots >= box.boots, Outside'
        PROVE  BoxInv'
    <3>1. BoxTypeOK'
      BY <2>4 DEF Outside
    <3>2. Sound(State, box)'
      BY <2>4, <2>2, <3>1 DEF Sound, Wires, Aired, Chain, Peer, BoxTypeOK
    <3> QED BY <2>4, <3>2, InvIs, PTL
  <2>5. CASE pump
    <3>1. PICK heard \in {ReadAir(ReadUsb(State))} :
            \E tended \in {tend_radio(DropAir(DropGone(heard)))} :
            \E s \in {HandOver(DropShy(tended))} :
            \E ok1, ok2 \in IF s.p.carrying = "usb" /\ links < MaxLinks THEN BOOLEAN ELSE {TRUE} :
            \E t \in {TellDate(s, ok1)} :
            \E u \in {Poll(t, ok2)} :
               /\ \E done \in Look(u) : Becomes(done)
               /\ box' = [box EXCEPT !.date = IF box.up /\ t.v.dated # s.v.dated THEN today ELSE @,
                                     !.answer = IF u.sending # t.sending THEN 1 - @ ELSE @]
      BY <2>5 DEF pump
    <3>2. PICK tended \in {tend_radio(DropAir(DropGone(heard)))} :
            \E s \in {HandOver(DropShy(tended))} :
            \E ok1, ok2 \in IF s.p.carrying = "usb" /\ links < MaxLinks THEN BOOLEAN ELSE {TRUE} :
            \E t \in {TellDate(s, ok1)} :
            \E u \in {Poll(t, ok2)} :
               /\ \E done \in Look(u) : Becomes(done)
               /\ box' = [box EXCEPT !.date = IF box.up /\ t.v.dated # s.v.dated THEN today ELSE @,
                                     !.answer = IF u.sending # t.sending THEN 1 - @ ELSE @]
      BY <3>1
    <3>3. PICK s \in {HandOver(DropShy(tended))} :
            \E ok1, ok2 \in IF s.p.carrying = "usb" /\ links < MaxLinks THEN BOOLEAN ELSE {TRUE} :
            \E t \in {TellDate(s, ok1)} :
            \E u \in {Poll(t, ok2)} :
               /\ \E done \in Look(u) : Becomes(done)
               /\ box' = [box EXCEPT !.date = IF box.up /\ t.v.dated # s.v.dated THEN today ELSE @,
                                     !.answer = IF u.sending # t.sending THEN 1 - @ ELSE @]
      BY <3>2
    <3>4. PICK ok1 \in BOOLEAN, ok2 \in BOOLEAN :
            \E t \in {TellDate(s, ok1)} :
            \E u \in {Poll(t, ok2)} :
               /\ \E done \in Look(u) : Becomes(done)
               /\ box' = [box EXCEPT !.date = IF box.up /\ t.v.dated # s.v.dated THEN today ELSE @,
                                     !.answer = IF u.sending # t.sending THEN 1 - @ ELSE @]
      BY <3>3
    <3>5. PICK t \in {TellDate(s, ok1)} :
            \E u \in {Poll(t, ok2)} :
               /\ \E done \in Look(u) : Becomes(done)
               /\ box' = [box EXCEPT !.date = IF box.up /\ t.v.dated # s.v.dated THEN today ELSE @,
                                     !.answer = IF u.sending # t.sending THEN 1 - @ ELSE @]
      BY <3>4
    <3>6. PICK u \in {Poll(t, ok2)} :
               /\ \E done \in Look(u) : Becomes(done)
               /\ box' = [box EXCEPT !.date = IF box.up /\ t.v.dated # s.v.dated THEN today ELSE @,
                                     !.answer = IF u.sending # t.sending THEN 1 - @ ELSE @]
      BY <3>5
    <3>7. PICK done \in Look(u) : Becomes(done)
      BY <3>6
    <3>8. Spoken(done)
      <4>1. done \in Look(Poll(TellDate(HandOver(DropShy(tend_radio(DropAir(DropGone(ReadAir(ReadUsb(State))))))), ok1), ok2))
        BY <3>1, <3>2, <3>3, <3>5, <3>6, <3>7
      <4> QED BY <2>1, <2>2, <2>3, <4>1, PumpSpoken
    <3>9. State' = done
      BY <3>7, <3>8, BecomesIs DEF Spoken, Wires
    <3>10. UNCHANGED <<today, use, strangers>>
      BY <2>5 DEF pump
    <3>11. BoxTypeOK' /\ box'.boots = box.boots
      <4> DEFINE x == IF box.up /\ t.v.dated # s.v.dated THEN today ELSE box.date
                 y == IF u.sending # t.sending THEN 1 - box.answer ELSE box.answer
      <4>1. x \in 0..MaxDays /\ y \in 0..1
        BY <2>2, BoxPeerAssumption DEF BoxTypeOK, BoxPeerAssumption
      <4>2. box' = [box EXCEPT !.date = x, !.answer = y]
        BY <3>6
      <4> HIDE DEF x, y
      <4> QED BY <2>2, <4>1, <4>2 DEF BoxTypeOK
    <3>12. Outside'
      BY <2>1, <3>10, <3>11 DEF Outside
    <3>13. Sound(done, box')
      BY <3>8, SpokenIsSound
    <3> QED BY <2>2, <2>4, <3>9, <3>10, <3>11, <3>12, <3>13 DEF BoxTypeOK
  <2>6. ASSUME NEW t \in Timer, Elapse(t) PROVE BoxInv'
    <3> DEFINE q == IF t = "shy" THEN [State.p EXCEPT !.shy = {}] ELSE State.p
               r == [State EXCEPT !.p = q, !.over = State.over \cup {t}]
    <3>1. Becomes(r)
      BY <2>1, <2>3, <2>6 DEF Elapse, Becomes, Chain
    <3>2. t = "poll" => \A w \in Way : Silent(State, w)
      BY <2>3, <2>6 DEF Elapse, Running, Silent
    <3>3. q \in {State.p, [State.p EXCEPT !.shy = {}]}
      OBVIOUS
    <3>4. UNCHANGED env
      BY <2>6 DEF Elapse
    <3> HIDE DEF q
    <3>5. Sound(r, box')
      BY <2>1, <3>2, <3>3, <3>4, ElapseKeeps DEF env
    <3>6. Outside'
      BY <2>1, <3>4 DEF env, Outside, BoxTypeOK
    <3> HIDE DEF r
    <3>20. State' = r
      BY <3>1, <3>5, BecomesIs DEF Sound, Wires
    <3> QED BY <2>2, <2>4, <3>20, <3>4, <3>5, <3>6 DEF env, BoxTypeOK
  <2>7. ASSUME NEW w \in Way, Arrive(w) PROVE BoxInv'
    <3> DEFINE r == [State EXCEPT !.inq = [State.inq EXCEPT ![w] = Append(State.inq[w], Head(State.sending[w]))],
                                  !.sending = [State.sending EXCEPT ![w] = Tail(State.sending[w])]]
    <3>1. Becomes(r)
      BY <2>1, <2>3, <2>7 DEF Arrive, Becomes, Chain
    <3>2. UNCHANGED env /\ State.sending[w] # <<>>
      BY <2>3, <2>7 DEF Arrive
    <3>3. Sound(r, box')
      BY <2>1, <3>2, ArriveKeeps DEF env
    <3>4. Outside'
      BY <2>1, <3>2 DEF env, Outside, BoxTypeOK
    <3> HIDE DEF r
    <3>20. State' = r
      BY <3>1, <3>3, BecomesIs DEF Sound, Wires
    <3> QED BY <2>2, <2>4, <3>20, <3>2, <3>3, <3>4 DEF env, BoxTypeOK
  <2>8. CASE AirUp
    <3> DEFINE r == [State EXCEPT !.p = [State.p EXCEPT !.air = "ready"], !.sending = [State.sending EXCEPT !["air"] = <<hello>>]]
    <3>1. Becomes(r)
      BY <2>1, <2>3, <2>8 DEF AirUp, Becomes, Chain
    <3>2. UNCHANGED env /\ State.p.air = "open"
      BY <2>3, <2>8 DEF AirUp
    <3>3. Sound(r, box')
      BY <2>1, <3>2, AirUpKeeps DEF env
    <3>4. Outside'
      BY <2>1, <3>2 DEF env, Outside, BoxTypeOK
    <3> HIDE DEF r
    <3>20. State' = r
      BY <3>1, <3>3, BecomesIs DEF Sound, Wires
    <3> QED BY <2>2, <2>4, <3>20, <3>2, <3>3, <3>4 DEF env, BoxTypeOK
  <2>9. CASE AirLost
    <3> DEFINE c == [State.sending EXCEPT !["air"] = <<>>]
               q == [State.p EXCEPT !.air = "gone"]
               r == [State EXCEPT !.p = q, !.sending = c]
    <3>1. Becomes(r)
      BY <2>1, <2>3, <2>9 DEF AirLost, Becomes, Chain
    <3>2. UNCHANGED env /\ State.p.air \in {"open", "ready"}
      BY <2>3, <2>9 DEF AirLost
    <3>3. c \in [Way -> Seq(Message)] /\ c["air"] = <<>> /\ c["usb"] = State.sending["usb"]
      BY <2>1 DEF Chain, Way
    <3>4. /\ q \in Peer /\ q.air = "gone" /\ q.greeted = State.p.greeted /\ q.open = State.p.open /\ q.gone = State.p.gone
          /\ q.link = State.p.link /\ q.usb = State.p.usb /\ q.id = State.p.id /\ q.airid = State.p.airid
          /\ q.boot = State.p.boot /\ q.carrying = State.p.carrying
      BY <2>1 DEF Chain, Peer
    <3>5. r = [State EXCEPT !.p = q, !.sending = c] /\ c = [State.sending EXCEPT !["air"] = <<>>]
      OBVIOUS
    <3> HIDE DEF r, q, c
    <3>6. /\ r \in Chain /\ r.p = q /\ r.v = State.v /\ r.inq = State.inq /\ r.sending = c /\ r.over = State.over
          /\ r.written = State.written
      BY <2>1, <3>3, <3>4, <3>5 DEF Chain
    <3>7. Sound(r, box')
      <4>1. box' = box
        BY <3>2 DEF env
      <4>2. SameLinks(r, State)
        BY <3>4, <3>6 DEF SameLinks
      <4>3. /\ r.p.link = State.p.link /\ r.p.open = State.p.open /\ r.p.gone = State.p.gone /\ r.p.usb = State.p.usb
            /\ r.p.greeted = State.p.greeted /\ r.p.air = "gone" /\ State.p.air # "none"
            /\ r.sending["air"] = <<>> /\ r.sending["usb"] = State.sending["usb"]
            /\ r.sending = [State.sending EXCEPT !["air"] = <<>>]
        BY <3>2, <3>3, <3>4, <3>5, <3>6
      <4> QED BY <2>1, <3>6, <4>1, <4>2, <4>3, StopKeeps
    <3>8. Outside'
      BY <2>1, <3>2 DEF env, Outside, BoxTypeOK
    <3>20. State' = r
      BY <3>1, <3>7, BecomesIs DEF Sound, Wires
    <3> QED BY <2>2, <2>4, <3>20, <3>2, <3>7, <3>8 DEF env, BoxTypeOK
  <2>10. CASE BoxStarts
    <3>1. State' = State /\ use' = use /\ today' = today /\ strangers' = strangers
      BY <2>10 DEF BoxStarts, State
    <3>2. box'.boots = box.boots + 1 /\ BoxTypeOK'
      <4>1. PICK at \in {"mac", "charger"} : box' = [box EXCEPT !.up = TRUE, !.boots = @ + 1, !.at = at, !.date = 0]
        BY <2>10 DEF BoxStarts
      <4>2. box.boots \in Nat /\ box.boots + 1 \in 0..MaxBoots
        BY <2>2, <2>10, BoxPeerAssumption DEF BoxStarts, BoxTypeOK, BoxPeerAssumption
      <4>3. 0 \in 0..MaxDays
        BY BoxPeerAssumption DEF BoxPeerAssumption
      <4> DEFINE n == box.boots + 1
      <4>4. n \in 0..MaxBoots /\ box' = [box EXCEPT !.up = TRUE, !.boots = n, !.at = at, !.date = 0]
        BY <4>1, <4>2
      <4>5. n = box.boots + 1
        OBVIOUS
      <4> HIDE DEF n
      <4>6. box'.boots = n /\ BoxTypeOK'
        BY <2>2, <4>3, <4>4 DEF BoxTypeOK
      <4> QED BY <4>5, <4>6
    <3>3. Sound(State, box')
      <4>1. State.p.boot <= box.boots /\ State.p.boot \in Nat /\ box.boots \in Nat
        BY <2>1, <2>2 DEF Sound, Wires, Chain, Peer, BoxTypeOK
      <4>2. ~Lost(State, box') => ~Lost(State, box)
        BY <3>2, <4>1 DEF Lost
      <4> QED BY <2>1, <4>2 DEF Sound
    <3>4. Outside'
      BY <2>1, <3>1, <3>2 DEF Outside
    <3> QED BY <2>2, <2>4, <3>1, <3>2, <3>3, <3>4 DEF BoxTypeOK
  <2>11. CASE BoxStops
    <3> DEFINE c == [w \in Way |-> <<>>]
               q == IF State.p.air = "ready" THEN [State.p EXCEPT !.air = "gone"] ELSE State.p
               r == [State EXCEPT !.p = q, !.sending = c]
    <3>1. Becomes(r)
      BY <2>1, <2>3, <2>11 DEF BoxStops, Becomes, Chain
    <3>2. UNCHANGED <<today, use, strangers>> /\ box'.boots = box.boots /\ ~box'.up /\ BoxTypeOK'
      BY <2>2, <2>11 DEF BoxStops, BoxTypeOK
    <3>3. c \in [Way -> Seq(Message)] /\ c["air"] = <<>> /\ c["usb"] = <<>>
      BY DEF Way
    <3>4. /\ q \in Peer /\ q.air = (IF State.p.air = "ready" THEN "gone" ELSE State.p.air)
          /\ q.greeted = State.p.greeted /\ q.open = State.p.open /\ q.gone = State.p.gone
          /\ q.link = State.p.link /\ q.usb = State.p.usb /\ q.id = State.p.id /\ q.airid = State.p.airid
          /\ q.boot = State.p.boot /\ q.carrying = State.p.carrying
      <4>1. CASE State.p.air = "ready"
        BY <2>1, <4>1 DEF Chain, Peer
      <4>2. CASE State.p.air # "ready"
        BY <2>1, <4>2 DEF Chain
      <4> QED BY <4>1, <4>2
    <3>5. r = [State EXCEPT !.p = q, !.sending = c]
      OBVIOUS
    <3> HIDE DEF r, q, c
    <3>6. /\ r \in Chain /\ r.p = q /\ r.v = State.v /\ r.inq = State.inq /\ r.sending = c /\ r.over = State.over
          /\ r.written = State.written
      BY <2>1, <3>3, <3>4, <3>5 DEF Chain
    <3>7. State.p.carrying = "usb" => Lost(r, box')
      BY <3>2, <3>4, <3>6 DEF Lost
    <3>8. Sound(r, box')
      BY <2>1, <3>3, <3>4, <3>6, <3>7, StopKeeps DEF SameLinks
    <3>9. Outside'
      BY <2>1, <3>2 DEF Outside
    <3>20. State' = r
      BY <3>1, <3>8, BecomesIs DEF Sound, Wires
    <3> QED BY <2>2, <2>4, <3>20, <3>2, <3>8, <3>9 DEF BoxTypeOK
  <2>12. CASE Midnight
    <3>1. State' = State /\ use' = use /\ box' = box /\ strangers' = strangers /\ today' \in 1..MaxDays
      BY <2>2, <2>12, BoxPeerAssumption DEF Midnight, State, BoxPeerAssumption
    <3>2. Outside'
      BY <2>1, <3>1 DEF Outside, BoxTypeOK
    <3> QED BY <2>1, <2>2, <2>4, <3>1, <3>2 DEF BoxTypeOK
  <2>13. CASE UNCHANGED vars
    <3>1. State' = State /\ use' = use /\ box' = box /\ strangers' = strangers /\ today' = today
      BY <2>13 DEF vars, State
    <3>2. Outside'
      BY <2>1, <3>1 DEF Outside, BoxTypeOK
    <3> QED BY <2>1, <2>2, <2>4, <3>1, <3>2 DEF BoxTypeOK
  <2> QED BY <2>5, <2>6, <2>7, <2>8, <2>9, <2>10, <2>11, <2>12, <2>13 DEF Next
<1> QED BY <1>1, <1>2, PTL DEF Spec

-----------------------------------------------------------------------------
(* What it shows *)

LEMMA AnswersWhole == BoxInv => WholeAnswers
<1> SUFFICES ASSUME BoxInv, view.attached, view.current # <<>>
             PROVE  /\ {view.current[i].of : i \in DOMAIN view.current} = Room /\ Len(view.current) = Cardinality(Room)
                    /\ \A i, j \in DOMAIN view.current :
                          view.current[i].link = view.current[j].link /\ view.current[i].answer = view.current[j].answer
  BY DEF WholeAnswers
<1>1. PICK id, a : view.current = Rows(id, a)
  BY DEF BoxInv, Sound, Shows, Shown, State
<1>2. Heads \in Nat /\ order \in [1..Heads -> Room] /\ \A d \in Room : \E i \in 1..Heads : order[i] = d
  BY InOrder
<1>3. view.current = [i \in 1..Heads |-> RowOf(id, a, i)]
  BY <1>1 DEF Rows
<1>4. DOMAIN view.current = 1..Heads /\ Len(view.current) = Heads
  BY <1>2, <1>3
<1>5. \A i \in 1..Heads : view.current[i].of = order[i] /\ view.current[i].link = id /\ view.current[i].answer = a
  BY <1>3 DEF RowOf
<1>6. \A d \in Room : \E i \in 1..Heads : order[i] = d
  BY <1>2
<1>7. \A i \in 1..Heads : order[i] \in Room
  BY <1>2
<1>8. {view.current[i].of : i \in DOMAIN view.current} = Room
  BY <1>4, <1>5, <1>6, <1>7
<1> QED BY <1>4, <1>5, <1>8 DEF Heads

LEMMA OnlyDongle == BoxInv => OnlyTheDongle
<1> SUFFICES ASSUME BoxInv PROVE OnlyTheDongle
  OBVIOUS
<1>1. written = {}
  BY DEF BoxInv, Sound, Wires, State
<1>2. ASSUME NEW r \in Live(view) PROVE r.link = Speaker(State)
  <2>1. view.attached /\ r \in Range(view.current)
    BY <1>2 DEF Live
  <2>2. PICK i \in DOMAIN view.current : r = view.current[i]
    BY <2>1 DEF Range
  <2>3. Shown(view, Speaker(State))
    BY <2>1 DEF BoxInv, Sound, Shows, State
  <2>4. view.current # <<>>
    BY <2>2
  <2>5. PICK a : view.current = [k \in 1..Heads |-> RowOf(Speaker(State), a, k)]
    BY <2>3, <2>4 DEF Shown, Rows
  <2>6. i \in 1..Heads /\ r = RowOf(Speaker(State), a, i)
    BY <2>2, <2>5
  <2> QED BY <2>6 DEF RowOf
<1>3. Speaker(State) = IF p.carrying = "usb" THEN p.id ELSE p.airid
  BY DEF Speaker, State
<1> QED BY <1>1, <1>2, <1>3 DEF OnlyTheDongle

\* Whatever the handlers of main's loop do, and whatever of the dongle's words
\* has arrived, the parts of BoxPeer and DongleView stay well formed
\* (src/octomancerd.cc, src/dongle.cc).
THEOREM BoxPeerTypeCorrect == "both" \notin Uses /\ Spec => []TypeOK
<1>1. BoxInv => TypeOK
  BY DEF BoxInv
<1> QED BY <1>1, BoxInvariant, PTL

\* What an attached dongle's page shows is one complete answer of its, never
\* parts of two: observe() shows an answer when it ends, what a link had begun
\* when it was lost is forgotten with it, and the next one starts afresh
\* (DongleView::observe, opened and closed, src/dongle.cc).
THEOREM AnswersAreWhole == "both" \notin Uses /\ Spec => []WholeAnswers
<1> QED BY BoxInvariant, AnswersWhole, PTL

\* What is shown as live was heard over the link that is speaking now, and
\* nothing was ever written to a port that is not a dongle's (BoxPeer::pump,
\* carrier and send, src/octomancerd.cc).
THEOREM OnlyTheDongleIsHeard == "both" \notin Uses /\ Spec => []OnlyTheDongle
<1> QED BY BoxInvariant, OnlyDongle, PTL

=============================================================================
