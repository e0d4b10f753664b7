------------------------- MODULE ClientProgram_proofs -------------------------
(***************************************************************************)
(* ClientProgram: its types, that a request is done as it was sent, that   *)
(* updates are printed whole, and that nothing is sent to a closed port.   *)
(***************************************************************************)
EXTENDS ClientProgram, PathNames_proofs

\* The updates that fit into the client's buffer, and all.
ShortBodies == Bodies \cup {GoneBody(d) : d \in Dirs \cup {Elsewhere}}
AllBodies == ShortBodies \cup LongBodies
Texts == {Text(b) : b \in AllBodies}
Chars == UNION {Range(t) : t \in Texts}

-----------------------------------------------------------------------------
(* Updates and the datagrams they are cut from.                            *)

LEMMA BodyFacts ==
  ASSUME NEW b \in AllBodies
  PROVE  /\ b \in Seq(Range(b)) /\ Len(b) \in Nat
         /\ \A k \in 1..Len(b) : b[k] # "CR"
<1>1. CASE b \in Bodies \cup LongBodies
  <2>1. b \in Seq(Range(b)) /\ "CR" \notin Range(b)
    BY <1>1, BodiesAreLines
  <2>2. Len(b) \in Nat /\ DOMAIN b = 1..Len(b)
    BY <2>1
  <2>3. QED
    BY <2>1, <2>2 DEF Range
<1>2. CASE \E d \in Dirs \cup {Elsewhere} : b = GoneBody(d)
  <2>1. PICK d \in Dirs \cup {Elsewhere} : b = <<d, "gone">>
    BY <1>2 DEF GoneBody
  <2>2. d # "CR"
    BY BodiesAreLines DEF Elsewhere
  <2>3. Len(b) = 2 /\ b[1] = d /\ b[2] = "gone" /\ Range(b) = {d, "gone"}
    BY <2>1 DEF Range
  <2>4. b \in Seq({d, "gone"})
    BY <2>1
  <2>5. QED
    BY <2>2, <2>3, <2>4
<1>3. QED
  BY <1>1, <1>2 DEF AllBodies, ShortBodies

\* A text is its body and five characters.
LEMMA TextFacts ==
  ASSUME NEW b \in AllBodies
  PROVE  /\ Text(b) \in Seq(Chars) /\ Len(Text(b)) = Len(b) + 5
         /\ \A k \in 1..Len(b) : Text(b)[k] = b[k]
         /\ Text(b)[Len(b) + 1] = "CR" /\ Text(b)[Len(b) + 2] = "LF"
         /\ Text(b)[Len(b) + 3] = "." /\ Text(b)[Len(b) + 4] = "CR"
         /\ Text(b)[Len(b) + 5] = "LF"
<1>1. b \in Seq(Range(b)) /\ Len(b) \in Nat
  BY BodyFacts
<1> DEFINE S == Range(b) \cup {"CR", "LF", "."}
<1>2. b \in Seq(S) /\ Terminator \in Seq(S) /\ Len(Terminator) = 5
  BY <1>1 DEF Terminator
<1> HIDE DEF S
<1>3. PICK t : t = Terminator
  OBVIOUS
<1>4. b \in Seq(S) /\ t \in Seq(S)
  BY <1>2, <1>3
<1>5. Len(t) = 5
  BY <1>2, <1>3
<1>6. /\ b \o t \in Seq(S) /\ DOMAIN (b \o t) = 1..(Len(b) + 5)
      /\ \A k \in 1..Len(b) : (b \o t)[k] = b[k]
      /\ \A k \in (Len(b) + 1)..(Len(b) + 5) : (b \o t)[k] = t[k - Len(b)]
  <2>1. /\ b \o t \in Seq(S) /\ DOMAIN (b \o t) = 1..(Len(b) + Len(t))
        /\ \A k \in 1..Len(b) : (b \o t)[k] = b[k]
        /\ \A k \in (Len(b) + 1)..(Len(b) + Len(t)) : (b \o t)[k] = t[k - Len(b)]
    BY <1>4, ConcatIs
  <2>2. QED
    BY <1>5, <2>1
<1>7. /\ b \o Terminator \in Seq(S) /\ DOMAIN (b \o Terminator) = 1..(Len(b) + 5)
      /\ \A k \in 1..Len(b) : (b \o Terminator)[k] = b[k]
      /\ \A k \in (Len(b) + 1)..(Len(b) + 5) :
           (b \o Terminator)[k] = Terminator[k - Len(b)]
  BY <1>3, <1>6
<1>8. Text(b) \in Seq(S) /\ Len(Text(b)) = Len(b) + 5
  <2>1. Len(b) + 5 \in Nat /\ Text(b) = b \o Terminator
    BY <1>1 DEF Text
  <2>2. QED
    BY <1>7, <2>1
<1>9. /\ \A k \in 1..Len(b) : Text(b)[k] = b[k]
      /\ \A k \in 1..5 : Text(b)[Len(b) + k] = Terminator[k]
  <2>1. \A k \in 1..5 : /\ Len(b) + k \in (Len(b) + 1)..(Len(b) + 5)
                         /\ (Len(b) + k) - Len(b) = k
    BY <1>1
  <2>2. Text(b) = b \o Terminator
    BY DEF Text
  <2>3. QED
    BY <1>7, <2>1, <2>2
<1>10. Text(b) \in Seq(Chars)
  <2>1. Text(b) \in Texts
    BY DEF Texts
  <2>2. Range(Text(b)) \subseteq Chars
    BY <2>1 DEF Chars
  <2>3. Text(b) \in Seq(Range(Text(b)))
    BY <1>8 DEF Range
  <2>4. QED
    BY <2>2, <2>3
<1>11. QED
  BY <1>1, <1>8, <1>9, <1>10 DEF Terminator

LEMMA NextStates ==
  ASSUME NEW s \in 0..4, NEW c
  PROVE  NextState(s, c) \in 0..5
BY DEF NextState

After(u, datagram) ==
  CHOOSE after :
    after = [k \in 0..Taken(datagram) |->
               IF k = 0 THEN [read |-> 0, state |-> u.state]
               ELSE Reads(k, datagram[k])[after[k - 1]]]

LEMMA ReadsFacts ==
  ASSUME NEW s \in Positions, NEW k \in Nat, NEW c
  PROVE  Reads(k, c)[s] \in Positions
<1>1. CASE s.state = 5
  BY <1>1 DEF Reads
<1>2. CASE s.state # 5
  <2>1. s.state \in 0..4
    BY <1>2 DEF Positions
  <2>2. NextState(s.state, c) \in 0..5
    BY <2>1, NextStates
  <2>3. QED
    BY <1>2, <2>2 DEF Reads, Positions
<1>3. QED
  BY <1>1, <1>2

LEMMA ReadsOn ==
  ASSUME NEW s \in Positions, NEW k, NEW c, s.state # 5
  PROVE  Reads(k, c)[s] = [read |-> k, state |-> NextState(s.state, c)]
BY DEF Reads

LEMMA AfterFacts ==
  ASSUME NEW u, u.state \in 0..4, NEW datagram, Taken(datagram) \in Nat
  PROVE  /\ After(u, datagram)[0] = [read |-> 0, state |-> u.state]
         /\ \A k \in 1..Taken(datagram) :
              After(u, datagram)[k] = Reads(k, datagram[k])[After(u, datagram)[k - 1]]
         /\ \A k \in 0..Taken(datagram) : After(u, datagram)[k] \in Positions
<1> DEFINE s0 == [read |-> 0, state |-> u.state]
           n == Taken(datagram)
           ReadsNext(s, k) == Reads(k, datagram[k])[s]
           F == [x \in (1..n) \X Positions |-> ReadsNext(x[2], x[1])]
           G == (0..n) \X Positions
           Is(after) == after = [k \in 0..n |-> IF k = 0 THEN s0 ELSE ReadsNext(after[k - 1], k)]
<1>1. s0 \in Positions
  BY DEF Positions
<1>2. ASSUME NEW k \in 1..n, NEW s \in Positions PROVE ReadsNext(s, k) \in Positions
  BY ReadsFacts
<1>3. After(u, datagram) = CHOOSE after : Is(after)
  BY DEF After
<1> HIDE DEF s0, n, ReadsNext
<1>4. n \in Nat /\ 0 \in 0..n /\ \A k \in 1..n : k \in 0..n /\ k - 1 \in 0..n /\ k # 0
  BY DEF n
<1>5. PICK g : IsRecursive(g, n, s0, F)
  <2> HIDE DEF F
  <2>1. QED
    BY <1>4, Recursion
<1>6. \A k \in 1..n : \A s \in Positions : F[<<k, s>>] = ReadsNext(s, k)
  OBVIOUS
<1>7. \A k \in 0..n : g[k] \in Positions
  <2>1. ASSUME NEW k \in 1..n, NEW s, <<k - 1, s>> \in G PROVE <<k, F[<<k, s>>]>> \in G
    <3>1. s \in Positions
      BY <2>1
    <3>2. F[<<k, s>>] \in Positions
      BY <1>2, <1>6, <3>1
    <3> HIDE DEF F
    <3>3. QED
      BY <1>4, <3>2
  <2>2. <<0, s0>> \in G
    BY <1>1, <1>4
  <2>3. \A k \in 0..n : <<k, g[k]>> \in G => g[k] \in Positions
    OBVIOUS
  <2> HIDE DEF F, G
  <2>4. \A k \in 0..n : <<k, g[k]>> \in G
    BY <1>4, <1>5, <2>1, <2>2, RecursionKeeps
  <2>5. QED
    BY <2>3, <2>4
<1>8. Is(g)
  <2> DEFINE h == [k \in 0..n |-> IF k = 0 THEN s0 ELSE ReadsNext(g[k - 1], k)]
             h1 == [k \in 0..n |-> IF k = 0 THEN s0 ELSE F[<<k, g[k - 1]>>]]
  <2>1. g = h1
    BY <1>5 DEF IsRecursive
  <2>2. ASSUME NEW k \in 0..n PROVE h1[k] = h[k]
    <3>1. CASE k = 0
      BY <3>1
    <3>2. CASE k # 0
      <4>1. k \in 1..n /\ g[k - 1] \in Positions
        BY <1>4, <1>7, <3>2
      <4>2. F[<<k, g[k - 1]>>] = ReadsNext(g[k - 1], k)
        BY <1>6, <4>1
      <4> HIDE DEF F
      <4>3. h1[k] = F[<<k, g[k - 1]>>] /\ h[k] = ReadsNext(g[k - 1], k)
        BY <3>2
      <4> HIDE DEF h, h1
      <4>4. QED
        BY <4>2, <4>3
    <3>3. QED
      BY <3>1, <3>2
  <2>3. h1 = h
    <3> HIDE DEF F
    <3>1. QED
      BY <2>2
  <2>4. g = h
    BY <2>1, <2>3
  <2>5. QED
    BY <2>4
<1> DEFINE after == CHOOSE after : Is(after)
<1>9. Is(after)
  BY <1>8
<1> HIDE DEF after
<1>10. after[0] = s0 /\ \A k \in 1..n : after[k] = ReadsNext(after[k - 1], k)
  <2>1. \A k \in 0..n : after[k] = IF k = 0 THEN s0 ELSE ReadsNext(after[k - 1], k)
    BY <1>9
  <2>2. QED
    BY <1>4, <2>1
<1>11. \A k \in 0..n : after[k] \in Positions
  <2> DEFINE U == {k \in 0..n : after[k] \in Positions}
  <2>1. 0 \in U
    BY <1>1, <1>4, <1>10
  <2>2. ASSUME NEW k \in 1..n, k - 1 \in U PROVE k \in U
    BY <1>2, <1>4, <1>10, <2>2
  <2>3. 0..n \subseteq U
    <3> HIDE DEF U
    <3>1. QED
      BY <1>4, <2>1, <2>2, UpToInduction
  <2>4. QED
    BY <2>3
<1>12. After(u, datagram) = after
  BY <1>3 DEF after
<1>13. QED
  BY <1>10, <1>11, <1>12 DEF s0, n, ReadsNext

\* What the thread makes of a datagram: it reads all that recv gives, or as much as
\* an update takes.
LEMMA FedFacts ==
  ASSUME NEW u, u.state \in 0..4, NEW datagram, Taken(datagram) \in Nat
  PROVE  \E r \in 0..Taken(datagram), s \in 0..5 :
           /\ Fed(u, datagram) = [text |-> u.text \o SubSeq(datagram, 1, r), state |-> s]
           /\ After(u, datagram)[Taken(datagram)].read = r
           /\ After(u, datagram)[Taken(datagram)].state = s
           /\ s # 5 => r = Taken(datagram)
           /\ s = 5 => r # 0
<1> DEFINE n == Taken(datagram)
           after == After(u, datagram)
<1>1. Fed(u, datagram) = [text |-> u.text \o SubSeq(datagram, 1, after[n].read),
                          state |-> after[n].state]
  BY DEF Fed, After
<1>2. /\ after[0] = [read |-> 0, state |-> u.state]
      /\ \A k \in 1..n : after[k] = Reads(k, datagram[k])[after[k - 1]]
      /\ \A k \in 0..n : after[k] \in Positions
  BY AfterFacts
<1> HIDE DEF n, after
<1>3. n \in Nat /\ n \in 0..n
  BY DEF n
<1> DEFINE Good(k) == /\ after[k].read \in 0..k
                      /\ after[k].state # 5 => after[k].read = k
                      /\ after[k].state = 5 => after[k].read # 0
           U == {k \in 0..n : Good(k)}
<1>4. 0 \in U
  BY <1>2, <1>3
<1>5. ASSUME NEW k \in 1..n, k - 1 \in U PROVE k \in U
  <2>1. Good(k - 1) /\ k \in Nat /\ k # 0 /\ k \in 0..n /\ after[k - 1] \in Positions
    BY <1>2, <1>3, <1>5
  <2>2. CASE after[k - 1].state = 5
    <3>1. after[k] = after[k - 1]
      BY <1>2, <2>1, <2>2 DEF Reads
    <3>2. QED
      BY <1>3, <2>1, <2>2, <3>1
  <2>3. CASE after[k - 1].state # 5
    <3>1. after[k] = Reads(k, datagram[k])[after[k - 1]]
      BY <1>2
    <3>2. after[k] = [read |-> k, state |-> NextState(after[k - 1].state, datagram[k])]
      BY <2>1, <2>3, <3>1, ReadsOn
    <3>3. after[k].read = k
      BY <3>2
    <3>4. QED
      BY <2>1, <3>3
  <2>4. QED
    BY <2>2, <2>3
<1>6. n \in U
  <2> HIDE DEF U
  <2>1. QED
    BY <1>3, <1>4, <1>5, UpToInduction
<1>7. after[n].state \in 0..5
  BY <1>2, <1>3 DEF Positions
<1>8. QED
  BY <1>1, <1>6, <1>7 DEF n, after

LEMMA TakenFacts ==
  ASSUME NEW b \in AllBodies
  PROVE  /\ Taken(Text(b)) \in Nat /\ Taken(Text(b)) <= Len(Text(b))
         /\ Taken(Text(b)) <= UdpSize /\ Len(Text(b)) \in Nat /\ UdpSize \in Nat
         /\ Len(Text(b)) <= UdpSize => Taken(Text(b)) = Len(Text(b))
         /\ UdpSize <= Len(Text(b)) => Taken(Text(b)) = UdpSize
<1>1. Len(Text(b)) \in Nat
  BY TextFacts
<1>2. UdpSize \in Nat
  BY UdpSizeIsNat
<1>3. QED
  BY <1>1, <1>2 DEF Taken

\* An update that fits into the buffer is read whole, and the state is that after a
\* terminator at its end and nowhere before.
LEMMA FedWhole ==
  ASSUME NEW b \in AllBodies, Len(Text(b)) <= UdpSize
  PROVE  Fed(EmptyUpdate, Text(b)) = [text |-> Text(b), state |-> 5]
<1> DEFINE t == Text(b)
           after == After(EmptyUpdate, t)
<1>1. /\ Len(b) \in Nat /\ \A k \in 1..Len(b) : t[k] # "CR"
      /\ t \in Seq(Chars) /\ Len(t) = Len(b) + 5
      /\ t[Len(b) + 1] = "CR" /\ t[Len(b) + 2] = "LF"
      /\ t[Len(b) + 3] = "." /\ t[Len(b) + 4] = "CR" /\ t[Len(b) + 5] = "LF"
  BY BodyFacts, TextFacts
<1>2. Taken(t) = Len(b) + 5 /\ Taken(t) \in Nat
  BY <1>1, TakenFacts
<1>3. EmptyUpdate.state = 0 /\ EmptyUpdate.text = <<>> /\ EmptyUpdate.state \in 0..4
  BY DEF EmptyUpdate
<1>4. /\ after[0] = [read |-> 0, state |-> 0]
      /\ \A k \in 1..(Len(b) + 5) : after[k] = Reads(k, t[k])[after[k - 1]]
      /\ \A k \in 0..(Len(b) + 5) : after[k] \in Positions
  BY <1>2, <1>3, AfterFacts
<1> HIDE DEF after, t
<1>5. PICK m \in Nat : m = Len(b)
  BY <1>1
<1>6. after[m].state = 0
  <2> DEFINE U == {k \in 0..m : after[k].state = 0}
  <2>1. 0 \in U
    BY <1>4, <1>5
  <2>2. ASSUME NEW k \in 1..m, k - 1 \in U PROVE k \in U
    <3>1. /\ after[k - 1].state = 0 /\ k \in 1..(m + 5) /\ k \in 0..m
          /\ after[k - 1] \in Positions
      BY <1>4, <1>5, <2>2
    <3>2. after[k] = [read |-> k, state |-> NextState(0, t[k])]
      BY <1>4, <1>5, <3>1, ReadsOn
    <3>3. NextState(0, t[k]) = 0
      BY <1>1, <1>5 DEF NextState
    <3>4. QED
      BY <3>1, <3>2, <3>3
  <2>3. 0..m \subseteq U
    <3> HIDE DEF U
    <3>1. QED
      BY <1>5, <2>1, <2>2, UpToInduction
  <2>4. QED
    BY <1>5, <2>3
<1>7. ASSUME NEW j \in 1..5, NEW s \in 0..4, after[m + (j - 1)].state = s
      PROVE  after[m + j] = [read |-> m + j, state |-> NextState(s, t[m + j])]
  <2>1. /\ m + j \in 1..(m + 5) /\ (m + j) - 1 = m + (j - 1)
        /\ after[m + (j - 1)] \in Positions
    BY <1>4, <1>5
  <2>2. after[m + j] = Reads(m + j, t[m + j])[after[m + (j - 1)]]
    BY <1>4, <1>5, <2>1
  <2>3. QED
    BY <1>7, <2>1, <2>2, ReadsOn
<1>8. after[m + 1].state = 1
  BY <1>1, <1>5, <1>6, <1>7 DEF NextState
<1>9. after[m + 2].state = 2
  BY <1>1, <1>5, <1>7, <1>8 DEF NextState
<1>10. after[m + 3].state = 3
  BY <1>1, <1>5, <1>7, <1>9 DEF NextState
<1>11. after[m + 4].state = 4
  BY <1>1, <1>5, <1>7, <1>10 DEF NextState
<1>12. after[m + 5] = [read |-> m + 5, state |-> 5]
  BY <1>1, <1>5, <1>7, <1>11 DEF NextState
<1>13. PICK r \in 0..Taken(t), s \in 0..5 :
         /\ Fed(EmptyUpdate, t) = [text |-> EmptyUpdate.text \o SubSeq(t, 1, r), state |-> s]
         /\ After(EmptyUpdate, t)[Taken(t)].read = r
         /\ After(EmptyUpdate, t)[Taken(t)].state = s
         /\ s # 5 => r = Taken(t)
         /\ s = 5 => r # 0
  <2>1. EmptyUpdate.state \in 0..4 /\ Taken(t) \in Nat
    BY <1>2, <1>3
  <2>2. QED
    BY <2>1, FedFacts, Zenon
<1>14. r = Len(t) /\ s = 5
  <2>1. Taken(t) = m + 5 /\ Len(t) = m + 5
    BY <1>1, <1>2, <1>5
  <2>2. r = after[m + 5].read /\ s = after[m + 5].state
    BY <1>13, <2>1 DEF after
  <2>3. QED
    BY <1>12, <2>1, <2>2
<1>15. <<>> \o SubSeq(t, 1, Len(t)) = t
  <2>1. t \in Seq(Chars)
    BY <1>1
  <2>2. QED
    BY <2>1
<1>16. QED
  BY <1>3, <1>13, <1>14, <1>15 DEF t

\* The text of a deletion has seven characters, which the client's buffer holds.
LEMMA GoneFacts ==
  ASSUME NEW d \in Dirs \cup {Elsewhere}
  PROVE  /\ GoneBody(d) \in AllBodies /\ Len(Text(GoneBody(d))) = 7
         /\ Len(GoneBody(d)) = 2 /\ GoneBody(d)[1] = d /\ GoneBody(d)[2] = "gone"
         /\ 7 <= UdpSize
<1>1. GoneBody(d) \in AllBodies
  BY DEF AllBodies, ShortBodies
<1>2. Len(GoneBody(d)) = 2 /\ GoneBody(d)[1] = d /\ GoneBody(d)[2] = "gone"
  BY DEF GoneBody
<1>3. Len(Text(GoneBody(d))) = 7
  <2>1. Len(Text(GoneBody(d))) = Len(GoneBody(d)) + 5
    BY <1>1, TextFacts
  <2>2. Len(GoneBody(d)) = 2
    BY <1>2
  <2>3. QED
    BY <2>1, <2>2
<1>4. QED
  BY <1>1, <1>2, <1>3, BodiesFit

\* Only a body whose text begins with that of a deletion is the deletion's: what is
\* behind the word "gone" is no line break in any other.
LEMMA GoneBegins ==
  ASSUME NEW b \in AllBodies, NEW d \in Dirs \cup {Elsewhere},
         NEW r \in 0..Len(Text(b)), SubSeq(Text(b), 1, r) = Text(GoneBody(d))
  PROVE  b = GoneBody(d)
<1> DEFINE g == Text(GoneBody(d))
           t == Text(b)
<1>1. /\ t \in Seq(Chars) /\ Len(b) \in Nat /\ Len(t) = Len(b) + 5
      /\ \A k \in 1..Len(b) : t[k] = b[k] /\ b[k] # "CR"
  BY BodyFacts, TextFacts
<1>2. /\ g \in Seq(Chars) /\ Len(g) = 7 /\ g[1] = d /\ g[2] = "gone" /\ g[3] = "CR"
  <2>1. /\ GoneBody(d) \in AllBodies /\ Len(GoneBody(d)) = 2
        /\ GoneBody(d)[1] = d /\ GoneBody(d)[2] = "gone" /\ Len(g) = 7
    BY GoneFacts
  <2>2. /\ g \in Seq(Chars)
        /\ \A k \in 1..Len(GoneBody(d)) : g[k] = GoneBody(d)[k]
        /\ g[Len(GoneBody(d)) + 1] = "CR"
    BY <2>1, TextFacts
  <2>3. QED
    BY <2>1, <2>2
<1> HIDE DEF g, t
<1>3. SubSeq(t, 1, r) = g /\ r \in 0..Len(t)
  BY DEF g, t
<1>4. r = 7
  <2>1. Len(SubSeq(t, 1, r)) = r
    BY <1>1, <1>3
  <2>2. QED
    BY <1>2, <1>3, <2>1
<1>5. 7 <= Len(t) /\ \A k \in 1..7 : t[k] = g[k]
  <2>1. \A k \in 1..r : SubSeq(t, 1, r)[k] = t[k]
    BY <1>1, <1>3
  <2>2. QED
    BY <1>1, <1>3, <1>4, <2>1
<1>6. Len(b) = 2
  <2>1. Len(b) >= 2
    BY <1>1, <1>5
  <2>2. t[3] = "CR"
    BY <1>2, <1>5
  <2>3. ~(Len(b) >= 3)
    BY <1>1, <2>2
  <2>4. PICK n \in Nat : n = Len(b)
    BY <1>1
  <2>5. n >= 2 /\ ~(n >= 3)
    BY <2>1, <2>3, <2>4
  <2>6. n = 2
    BY <2>5
  <2>7. QED
    BY <2>4, <2>6
<1>7. b[1] = d /\ b[2] = "gone"
  BY <1>1, <1>2, <1>5, <1>6
<1>8. b \notin Bodies \cup LongBodies
  <2>1. "gone" \in Range(b)
    <3>1. b \in Seq(Range(b))
      BY BodyFacts
    <3>2. 2 \in DOMAIN b
      BY <1>6, <3>1
    <3>3. QED
      BY <1>7, <3>2 DEF Range
  <2>2. QED
    BY <2>1, BodiesAreLines
<1>9. PICK e \in Dirs \cup {Elsewhere} : b = GoneBody(e)
  BY <1>8 DEF AllBodies, ShortBodies
<1>10. e = d
  BY <1>7, <1>9 DEF GoneBody
<1>11. QED
  BY <1>9, <1>10

LEMMA GoneOnly ==
  ASSUME NEW b \in AllBodies, NEW d \in Dirs \cup {Elsewhere}, Text(b) = Text(GoneBody(d))
  PROVE  b = GoneBody(d)
<1>1. Text(b) \in Seq(Chars) /\ Len(Text(b)) \in Nat
  BY TextFacts
<1>2. SubSeq(Text(b), 1, Len(Text(b))) = Text(b)
  BY <1>1
<1>3. Len(Text(b)) \in 0..Len(Text(b))
  BY <1>1
<1>4. QED
  BY <1>2, <1>3, GoneBegins

\* What the thread has of an update too long for its buffer.
Unfinished(u) == u # EmptyUpdate => Len(u.text) >= UdpSize

\* What it makes of a datagram then.
LEMMA HeardFacts ==
  ASSUME NEW u \in [text : Seq(Chars), state : 0..4], Unfinished(u), NEW b \in AllBodies
  PROVE  /\ Fed(u, Text(b)) \in [text : Seq(Chars), state : 0..5]
         /\ u = EmptyUpdate /\ Len(Text(b)) <= UdpSize =>
              Fed(u, Text(b)) = [text |-> Text(b), state |-> 5]
         /\ ~Complete(Fed(u, Text(b))) =>
              Unfinished(Fed(u, Text(b))) /\ (u # EmptyUpdate \/ Len(Text(b)) > UdpSize)
         /\ Complete(Fed(u, Text(b))) =>
              \A d \in Dirs : Fed(u, Text(b)).text = Text(GoneBody(d)) => b = GoneBody(d)
<1> DEFINE t == Text(b)
           f == Fed(u, t)
<1>1. t \in Seq(Chars) /\ Len(t) \in Nat
  BY TextFacts
<1>2. /\ Taken(t) \in Nat /\ Taken(t) <= Len(t) /\ UdpSize \in Nat
      /\ UdpSize <= Len(t) => Taken(t) = UdpSize
  BY TakenFacts
<1>3. u = EmptyUpdate /\ Len(t) <= UdpSize => f = [text |-> t, state |-> 5]
  BY FedWhole
<1> HIDE DEF f, t
<1>4. u.text \in Seq(Chars) /\ u.state \in 0..4
  OBVIOUS
<1>5. PICK r \in 0..Taken(t), s \in 0..5 :
        /\ f = [text |-> u.text \o SubSeq(t, 1, r), state |-> s]
        /\ s # 5 => r = Taken(t)
        /\ s = 5 => r # 0
  <2>1. \E r \in 0..Taken(t), s \in 0..5 :
           /\ Fed(u, t) = [text |-> u.text \o SubSeq(t, 1, r), state |-> s]
           /\ After(u, t)[Taken(t)].read = r
           /\ After(u, t)[Taken(t)].state = s
           /\ s # 5 => r = Taken(t)
           /\ s = 5 => r # 0
    BY <1>2, <1>4, FedFacts, Zenon
  <2>2. QED
    BY <2>1 DEF f
<1>6. r \in 0..Len(t) /\ r \in Nat
  BY <1>1, <1>2, <1>5
<1> DEFINE piece == SubSeq(t, 1, r)
<1>7. piece \in Seq(Chars) /\ Len(piece) = r
  BY <1>1, <1>6
<1> HIDE DEF piece
<1>8. f = [text |-> u.text \o piece, state |-> s]
  BY <1>5 DEF piece
<1>9. u.text \o piece \in Seq(Chars) /\ Len(u.text \o piece) = Len(u.text) + r
  BY <1>4, <1>7
<1>10. f.text = u.text \o piece /\ f.state = s
  BY <1>8
<1>11. f \in [text : Seq(Chars), state : 0..5]
  <2>1. u.text \o piece \in Seq(Chars) /\ s \in 0..5
    BY <1>9
  <2>2. QED
    BY <1>8, <2>1, Zenon
<1>12. Len(f.text) = Len(u.text) + r /\ Len(u.text) \in Nat
  BY <1>4, <1>9, <1>10
<1>13. u # EmptyUpdate => Len(u.text) >= UdpSize
  BY DEF Unfinished
<1>14. ASSUME ~Complete(f) PROVE Unfinished(f) /\ (u # EmptyUpdate \/ Len(t) > UdpSize)
  <2>1. s # 5 /\ r = Taken(t)
    BY <1>5, <1>10, <1>14 DEF Complete
  <2>2. u # EmptyUpdate \/ Len(t) > UdpSize
    BY <1>1, <1>2, <1>3, <1>14 DEF Complete
  <2>3. Len(f.text) >= UdpSize
    BY <1>1, <1>2, <1>6, <1>12, <1>13, <2>1, <2>2
  <2>4. QED
    BY <2>2, <2>3 DEF Unfinished
<1>15. ASSUME Complete(f), NEW d \in Dirs, f.text = Text(GoneBody(d)) PROVE b = GoneBody(d)
  <2>1. s = 5 /\ r # 0
    BY <1>5, <1>10, <1>15 DEF Complete
  <2>2. Len(Text(GoneBody(d))) = 7 /\ 7 <= UdpSize
    BY GoneFacts
  <2>3. u = EmptyUpdate
    <3>1. Len(f.text) = 7
      BY <1>15, <2>2
    <3>2. /\ Len(f.text) = Len(u.text) + r /\ Len(u.text) \in Nat /\ UdpSize \in Nat
          /\ r \in Nat /\ r # 0 /\ 7 <= UdpSize
      BY <1>2, <1>6, <1>12, <2>1, <2>2
    <3>3. PICK n \in Nat : n = Len(u.text)
      BY <3>2
    <3>4. n + r = 7 /\ UdpSize \in Nat /\ r \in Nat /\ r # 0 /\ 7 <= UdpSize
      BY <3>1, <3>2, <3>3
    <3>5. ~(n >= UdpSize)
      BY <3>4
    <3>6. QED
      BY <1>13, <3>3, <3>5
  <2>4. u.text \o piece = piece
    BY <1>7, <2>3 DEF EmptyUpdate
  <2>5. SubSeq(t, 1, r) = Text(GoneBody(d))
    BY <1>10, <1>15, <2>4 DEF piece
  <2>6. QED
    BY <1>6, <2>5, GoneBegins DEF t
<1>16. QED
  BY <1>3, <1>11, <1>14, <1>15 DEF f, t

-----------------------------------------------------------------------------
(* Requests and the pieces they are received in.                           *)

ReadSet == [buffer : [0..(BuffSize - 1) -> Int], index : Nat, string : Seq(Int)]

\* The loop ends: with the first newline, or with the last byte received.
LEMMA CopiedFacts ==
  ASSUME NEW h, h.index \in Nat, NEW m \in Nat, NEW junk
  PROVE  /\ CopiedTo(h, m, junk) \in h.index..(h.index + m)
         /\ \/ ByteAt(h.buffer, CopiedTo(h, m, junk), junk) = Newline
            \/ CopiedTo(h, m, junk) + 1 >= m
         /\ \A j \in h.index..(CopiedTo(h, m, junk) - 1) :
              ByteAt(h.buffer, j, junk) # Newline /\ j + 1 < m
<1> DEFINE i == h.index
           Ends(k) == ByteAt(h.buffer, k, junk) = Newline \/ k + 1 >= m
           T == {k \in Nat : k >= i /\ Ends(k)}
           Is(k) == /\ ByteAt(h.buffer, k, junk) = Newline \/ k + 1 >= m
                    /\ \A j \in i..(k - 1) : ByteAt(h.buffer, j, junk) # Newline /\ j + 1 < m
<1>1. CopiedTo(h, m, junk) = CHOOSE k \in i..(i + m) : Is(k)
  BY DEF CopiedTo
<1>2. i \in Nat
  OBVIOUS
<1> HIDE DEF i
<1>3. i + m \in T
  BY <1>2
<1>4. PICK x \in T : \A y \in T : x <= y
  <2>1. T \subseteq Nat
    OBVIOUS
  <2> HIDE DEF T
  <2>2. QED
    BY <1>3, <2>1, LeastNat
<1>5. x \in i..(i + m)
  BY <1>2, <1>3, <1>4
<1>6. Is(x)
  <2>1. ASSUME NEW j \in i..(x - 1) PROVE ByteAt(h.buffer, j, junk) # Newline /\ j + 1 < m
    <3>1. j \in Nat /\ j >= i /\ ~(x <= j)
      BY <1>2, <1>5, <2>1
    <3>2. ~Ends(j)
      BY <1>4, <3>1
    <3>3. QED
      BY <3>1, <3>2
  <2>2. Ends(x)
    BY <1>4
  <2>3. QED
    BY <2>1, <2>2
<1> HIDE DEF Is
<1>7. (CHOOSE k \in i..(i + m) : Is(k)) \in i..(i + m) /\ Is(CHOOSE k \in i..(i + m) : Is(k))
  BY <1>5, <1>6
<1>8. CopiedTo(h, m, junk) \in i..(i + m) /\ Is(CopiedTo(h, m, junk))
  BY <1>1, <1>7
<1>9. QED
  BY <1>8 DEF i, Is

\* What the handler has read is bytes, whatever it copies.
LEMMA ReceivedFacts ==
  ASSUME NEW h \in ReadSet, NEW n \in Nat, NEW piece \in [1..n -> Int], NEW junk \in Int
  PROVE  Received(h, piece, junk) \in ReadSet
<1> DEFINE buffer == [k \in 0..(BuffSize - 1) |->
                        IF k < n THEN piece[k + 1] ELSE h.buffer[k]]
           g == [h EXCEPT !.buffer = buffer]
           last == CopiedTo(g, n, junk)
           copied == [k \in 1..(last + 1 - h.index) |->
                        ByteAt(buffer, h.index + k - 1, junk)]
<1>1. Len(piece) = n
  OBVIOUS
<1>2. Received(h, piece, junk) =
        [buffer |-> buffer, index |-> last + 1, string |-> h.string \o copied]
  BY <1>1 DEF Received
<1>3. h.buffer \in [0..(BuffSize - 1) -> Int] /\ h.index \in Nat /\ h.string \in Seq(Int)
  BY DEF ReadSet
<1>4. buffer \in [0..(BuffSize - 1) -> Int]
  <2>1. ASSUME NEW k \in 0..(BuffSize - 1)
        PROVE  (IF k < n THEN piece[k + 1] ELSE h.buffer[k]) \in Int
    <3>1. k < n => k + 1 \in 1..n
      BY BuffSizeIsNat
    <3>2. QED
      BY <1>3, <3>1
  <2>2. QED
    BY <2>1
<1> HIDE DEF buffer
<1>5. g.index = h.index
  BY DEF ReadSet
<1> HIDE DEF g
<1>6. last \in h.index..(h.index + n)
  BY <1>3, <1>5, CopiedFacts
<1> HIDE DEF last
<1>7. \A k \in Nat : ByteAt(buffer, k, junk) \in Int
  BY <1>4, BuffSizeIsNat DEF ByteAt, Junk
<1>8. copied \in Seq(Int)
  <2>1. PICK c \in Nat : c = last + 1 - h.index
    BY <1>3, <1>6
  <2>2. \A k \in 1..c : h.index + k - 1 \in Nat
    BY <1>3
  <2>3. copied \in [1..c -> Int]
    BY <1>7, <2>1, <2>2
  <2> HIDE DEF copied
  <2>4. QED
    BY <2>3
<1> HIDE DEF copied
<1>9. h.string \o copied \in Seq(Int)
  BY <1>3, <1>8
<1>10. last + 1 \in Nat
  BY <1>3, <1>6
<1>11. QED
  BY <1>2, <1>4, <1>9, <1>10 DEF ReadSet

LEMMA NothingReadFacts == NothingRead \in ReadSet
BY DEF NothingRead, ReadSet, Junk

LEMMA RequestFacts ==
  ASSUME NEW n \in Nat
  PROVE  /\ Request(n) \in [1..(n + 2) -> Int]
         /\ SubSeq(Request(n), 1, n + 2) = Request(n)
         /\ \A i \in 0..(n + 2), k \in Nat :
              i + k <= n + 2 => SubSeq(Request(n), i + 1, i + k) \in [1..k -> Int]
<1> DEFINE r == Request(n)
<1>1. r \in [1..(n + 2) -> Int]
  BY DEF Request, Newline, Nul
<1>2. r \in Seq(Int) /\ Len(r) = n + 2
  BY <1>1
<1> HIDE DEF r
<1>3. SubSeq(r, 1, n + 2) = r
  BY <1>1, <1>2
<1>4. ASSUME NEW i \in 0..(n + 2), NEW k \in Nat, i + k <= n + 2
      PROVE  SubSeq(r, i + 1, i + k) \in [1..k -> Int]
  <2>1. SubSeq(r, i + 1, i + k) = [j \in 1..(i + k - (i + 1) + 1) |-> r[i + 1 + j - 1]]
    BY <1>2, <1>4
  <2>2. i + k - (i + 1) + 1 = k
    BY <1>4
  <2>3. \A j \in 1..k : i + 1 + j - 1 \in 1..(n + 2)
    BY <1>4
  <2>4. QED
    BY <1>1, <2>1, <2>2, <2>3
<1>5. QED
  BY <1>1, <1>3, <1>4 DEF r

\* A request that the handler receives at once, with nothing read before, is what it
\* is to make of it.
LEMMA WholeRequest ==
  ASSUME NEW n \in Nat, n + 2 <= BuffSize, NEW junk \in Int
  PROVE  /\ Received(NothingRead, Request(n), junk).string = Line(n)
         /\ IsLine(Received(NothingRead, Request(n), junk))
<1> DEFINE buffer == [k \in 0..(BuffSize - 1) |->
                        IF k < n + 2 THEN Request(n)[k + 1] ELSE NothingRead.buffer[k]]
           g == [NothingRead EXCEPT !.buffer = buffer]
           last == CopiedTo(g, n + 2, junk)
           copied == [k \in 1..(last + 1 - NothingRead.index) |->
                        ByteAt(buffer, NothingRead.index + k - 1, junk)]
           r == Received(NothingRead, Request(n), junk)
<1>1. Len(Request(n)) = n + 2
  BY DEF Request
<1>2. r.string = NothingRead.string \o copied
  BY <1>1 DEF Received
<1>3. NothingRead.index = 0 /\ NothingRead.string = <<>>
  BY DEF NothingRead
<1>4. g.index = 0 /\ g.buffer = buffer
  BY DEF NothingRead
<1>5. \A k \in 0..n : ByteAt(buffer, k, junk) = IF k < n THEN k + 1 ELSE Newline
  <2>1. ASSUME NEW k \in 0..n PROVE ByteAt(buffer, k, junk) = IF k < n THEN k + 1 ELSE Newline
    <3>1. k \in 0..(BuffSize - 1) /\ k < n + 2 /\ k < BuffSize /\ k + 1 \in 1..(n + 2)
      BY BuffSizeIsNat
    <3>2. buffer[k] = Request(n)[k + 1]
      BY <3>1
    <3>3. Request(n)[k + 1] = IF k < n THEN k + 1 ELSE Newline
      BY <3>1 DEF Request
    <3>4. buffer[k] # Junk
      BY <3>1, <3>2, <3>3 DEF Junk, Newline
    <3> HIDE DEF buffer
    <3>5. QED
      BY <3>1, <3>2, <3>3, <3>4 DEF ByteAt
  <2>2. QED
    BY <2>1
<1> HIDE DEF buffer, g, r
<1>6. last = n
  <2>1. /\ last \in 0..(0 + (n + 2))
        /\ ByteAt(g.buffer, last, junk) = Newline \/ last + 1 >= n + 2
        /\ \A j \in 0..(last - 1) : ByteAt(g.buffer, j, junk) # Newline /\ j + 1 < n + 2
    <3>1. g.index \in Nat /\ n + 2 \in Nat
      BY <1>4
    <3>2. QED
      BY <1>4, <3>1, CopiedFacts
  <2> HIDE DEF last
  <2>2. ~(last < n)
    <3>1. SUFFICES ASSUME last < n PROVE FALSE
      OBVIOUS
    <3>2. last \in 0..n /\ last + 1 # Newline
      BY <2>1, <3>1 DEF Newline
    <3>3. ByteAt(buffer, last, junk) = last + 1
      BY <1>5, <3>1, <3>2
    <3>4. QED
      BY <1>4, <2>1, <3>1, <3>2, <3>3
  <2>3. ~(last > n)
    <3>1. SUFFICES ASSUME last > n PROVE FALSE
      OBVIOUS
    <3>2. n \in 0..(last - 1) /\ n \in 0..n
      BY <2>1, <3>1
    <3>3. ByteAt(buffer, n, junk) = Newline
      BY <1>5, <3>2
    <3>4. QED
      BY <1>4, <2>1, <3>2, <3>3
  <2>4. QED
    BY <2>1, <2>2, <2>3
<1>7. copied = Line(n)
  <2>1. NothingRead.index = 0 /\ last + 1 - NothingRead.index = n + 1
    BY <1>3, <1>6
  <2>2. \A k \in 1..(n + 1) : NothingRead.index + k - 1 = k - 1 /\ k - 1 \in 0..n
    BY <2>1
  <2>3. \A k \in 1..(n + 1) : ByteAt(buffer, NothingRead.index + k - 1, junk) =
                                 IF k <= n THEN k ELSE Newline
    <3>1. ASSUME NEW k \in 1..(n + 1)
          PROVE  ByteAt(buffer, NothingRead.index + k - 1, junk) = IF k <= n THEN k ELSE Newline
      <4>1. NothingRead.index + k - 1 = k - 1 /\ k - 1 \in 0..n
        BY <2>2
      <4>2. ByteAt(buffer, k - 1, junk) = IF k - 1 < n THEN (k - 1) + 1 ELSE Newline
        BY <1>5, <4>1
      <4>3. QED
        BY <4>1, <4>2
    <3>2. QED
      BY <3>1
  <2> HIDE DEF last
  <2>4. QED
    BY <2>1, <2>3 DEF Line
<1>8. Line(n) \in Seq(Int) /\ Len(Line(n)) = n + 1 /\ Line(n)[n + 1] = Newline
  BY DEF Line, Newline
<1> HIDE DEF copied
<1>9. r.string = Line(n)
  <2>1. <<>> \o Line(n) = Line(n)
    BY <1>8
  <2>2. QED
    BY <1>2, <1>3, <1>7, <2>1
<1>10. IsLine(r)
  <2>1. Line(n) # <<>> /\ Last(Line(n)) = Newline
    BY <1>8 DEF Last
  <2>2. QED
    BY <1>9, <2>1 DEF IsLine
<1>11. QED
  BY <1>9, <1>10 DEF r

-----------------------------------------------------------------------------
(* The list of items of a command line.                                    *)

Words == STRING \cup {NoValue, "refused", "client"}
Arguments == [dash : BOOLEAN, text : Words]
Items == [isParam : BOOLEAN, name : Words, value : Words]
Options == {item \in Items : item.isParam}

\* What parse_params makes of argument i, when next and later are the lists from the
\* next argument and the one after that.
At(args, i, next, later) ==
  IF ~args[i].dash
  THEN Then(Item(FALSE, NoValue, args[i].text), next)
  ELSE IF args[i].text \in NotAlpha THEN Refused
  ELSE IF args[i].text \notin TakesValue
  THEN Then(Item(TRUE, args[i].text, NoValue), next)
  ELSE IF i = Len(args) \/ args[i + 1].dash THEN Refused
  ELSE Then(Item(TRUE, args[i].text, args[i + 1].text), later)

From(args) ==
  CHOOSE from :
    from = [i \in 1..(Len(args) + 2) |->
              IF i > Len(args) THEN <<>> ELSE At(args, i, from[i + 1], from[i + 2])]

LEMMA ParsedFrom ==
  ASSUME NEW args
  PROVE  ParseParams(args) = From(args)[1]
BY DEF ParseParams, From, At

LEMMA ArgumentFacts ==
  ASSUME NEW args \in Seq(Arguments), NEW i \in 1..Len(args)
  PROVE  args[i].dash \in BOOLEAN /\ args[i].text \in Words
<1>1. args[i] \in Arguments
  OBVIOUS
<1>2. QED
  BY <1>1 DEF Arguments

LEMMA ItemFacts ==
  ASSUME NEW isParam \in BOOLEAN, NEW name \in Words, NEW value \in Words
  PROVE  /\ Item(isParam, name, value) \in Items
         /\ Item(isParam, name, value).isParam = isParam
         /\ Item(isParam, name, value).name = name
         /\ Item(isParam, name, value).value = value
BY DEF Item, Items

LEMMA RefusedFacts ==
  /\ Refused \in Seq(Items) /\ Len(Refused) = 1 /\ ~Refused[1].isParam
  /\ Refused[1].name = "refused" /\ Refused # <<>>
  /\ NoValue \in Words /\ NoValue # "refused"
<1>1. NoValue \in Words /\ NoValue # "refused"
  BY DEF NoValue, Words
<1>2. PICK item \in Items : /\ item = Item(FALSE, "refused", NoValue)
                            /\ ~item.isParam /\ item.name = "refused"
  <2>1. "refused" \in Words
    BY DEF Words
  <2>2. QED
    BY <1>1, <2>1, ItemFacts
<1>3. Refused = <<item>>
  BY <1>2 DEF Refused
<1>4. /\ <<item>> \in Seq(Items) /\ Len(<<item>>) = 1 /\ <<item>>[1] = item
      /\ <<item>> # <<>>
  OBVIOUS
<1>5. QED
  BY <1>1, <1>2, <1>3, <1>4

LEMMA ThenFacts ==
  ASSUME NEW item \in Items, item.name # "refused" \/ item.isParam, NEW rest \in Seq(Items)
  PROVE  /\ Then(item, rest) \in Seq(Items)
         /\ rest = Refused => Then(item, rest) = Refused
         /\ rest # Refused =>
              /\ Then(item, rest) = <<item>> \o rest
              /\ Then(item, rest) # Refused
              /\ Len(Then(item, rest)) = 1 + Len(rest)
              /\ Then(item, rest)[1] = item
              /\ \A k \in 1..Len(rest) : Then(item, rest)[k + 1] = rest[k]
              /\ Tail(Then(item, rest)) = rest
<1>1. CASE rest = Refused
  BY <1>1, RefusedFacts DEF Then
<1>2. CASE rest # Refused
  <2>1. Then(item, rest) = <<item>> \o rest
    BY <1>2 DEF Then
  <2>2. /\ <<item>> \o rest \in Seq(Items)
        /\ Len(<<item>> \o rest) = 1 + Len(rest)
        /\ (<<item>> \o rest)[1] = item
        /\ \A k \in 1..Len(rest) : (<<item>> \o rest)[k + 1] = rest[k]
    OBVIOUS
  <2>3. Tail(<<item>> \o rest) = rest
    OBVIOUS
  <2>4. <<item>> \o rest # Refused
    BY <2>2, RefusedFacts
  <2>5. QED
    BY <1>2, <2>1, <2>2, <2>3, <2>4
<1>3. QED
  BY <1>1, <1>2

\* How list is made of argument i: an input, an option alone, or one with its value in
\* front of the list that follows; or it is refused.
Goes(args, i, list, next, later) ==
  \/ \E item \in Items :
       /\ item = Item(FALSE, NoValue, args[i].text)
       /\ ~args[i].dash /\ ~item.isParam /\ item.name # "refused"
       /\ list = Then(item, next)
  \/ \E item \in Items :
       /\ item = Item(TRUE, args[i].text, NoValue)
       /\ args[i].dash /\ args[i].text \notin NotAlpha \cup TakesValue
       /\ item.isParam
       /\ list = Then(item, next)
  \/ \E item \in Items :
       /\ item = Item(TRUE, args[i].text, args[i + 1].text)
       /\ i + 1 \in 1..Len(args) /\ args[i].dash /\ ~args[i + 1].dash
       /\ args[i].text \notin NotAlpha /\ args[i].text \in TakesValue
       /\ item.isParam
       /\ list = Then(item, later)
  \/ /\ list = Refused /\ args[i].dash
     /\ \/ args[i].text \in NotAlpha
        \/ /\ args[i].text \in TakesValue
           /\ ~(i + 1 \in 1..Len(args) /\ ~args[i + 1].dash)

LEMMA AtCases ==
  ASSUME NEW args \in Seq(Arguments), NEW i \in 1..Len(args), NEW next, NEW later
  PROVE  Goes(args, i, At(args, i, next, later), next, later)
<1>1. /\ args[i].dash \in BOOLEAN /\ args[i].text \in Words
      /\ NoValue \in Words /\ NoValue # "refused"
  BY ArgumentFacts, RefusedFacts
<1>2. CASE ~args[i].dash
  <2>1. PICK item \in Items : /\ item = Item(FALSE, NoValue, args[i].text)
                              /\ ~item.isParam /\ item.name = NoValue
    BY <1>1, ItemFacts
  <2>2. At(args, i, next, later) = Then(item, next)
    BY <1>2, <2>1 DEF At
  <2>3. QED
    BY <1>1, <1>2, <2>1, <2>2 DEF Goes
<1>3. CASE args[i].dash /\ args[i].text \notin NotAlpha /\ args[i].text \notin TakesValue
  <2>1. PICK item \in Items : item = Item(TRUE, args[i].text, NoValue) /\ item.isParam
    BY <1>1, ItemFacts
  <2>2. At(args, i, next, later) = Then(item, next)
    BY <1>3, <2>1 DEF At
  <2>3. QED
    BY <1>3, <2>1, <2>2 DEF Goes
<1>4. CASE /\ args[i].dash /\ args[i].text \notin NotAlpha /\ args[i].text \in TakesValue
           /\ i # Len(args) /\ ~args[i + 1].dash
  <2>1. i + 1 \in 1..Len(args)
    BY <1>4
  <2>2. args[i + 1].text \in Words
    BY <2>1, ArgumentFacts
  <2>3. PICK item \in Items : /\ item = Item(TRUE, args[i].text, args[i + 1].text)
                              /\ item.isParam
    BY <1>1, <2>2, ItemFacts
  <2>4. At(args, i, next, later) = Then(item, later)
    BY <1>4, <2>3 DEF At
  <2>5. QED
    BY <1>4, <2>1, <2>3, <2>4 DEF Goes
<1>5. CASE /\ args[i].dash
           /\ \/ args[i].text \in NotAlpha
              \/ args[i].text \in TakesValue /\ (i = Len(args) \/ args[i + 1].dash)
  <2>1. At(args, i, next, later) = Refused
    BY <1>5 DEF At
  <2>2. i = Len(args) => ~(i + 1 \in 1..Len(args))
    OBVIOUS
  <2>3. QED
    BY <1>5, <2>1, <2>2 DEF Goes
<1>6. QED
  BY <1>2, <1>3, <1>4, <1>5

LEMMA AtIsList ==
  ASSUME NEW args \in Seq(Arguments), NEW i \in 1..Len(args),
         NEW next \in Seq(Items), NEW later \in Seq(Items)
  PROVE  At(args, i, next, later) \in Seq(Items)
<1>1. ASSUME NEW item \in Items, NEW rest \in Seq(Items),
             item.name # "refused" \/ item.isParam
      PROVE  Then(item, rest) \in Seq(Items)
  BY <1>1, ThenFacts
<1> DEFINE list == At(args, i, next, later)
<1>2. Goes(args, i, list, next, later)
  BY AtCases
<1> HIDE DEF list
<1>3. list \in Seq(Items)
  BY <1>1, <1>2, RefusedFacts DEF Goes
<1>4. QED
  BY <1>3 DEF list

\* From is the function that ParseParams defines.
LEMMA FromFacts ==
  ASSUME NEW args \in Seq(Arguments)
  PROVE  /\ \A i \in 1..(Len(args) + 2) : From(args)[i] \in Seq(Items)
         /\ From(args)[Len(args) + 1] = <<>>
         /\ \A i \in 1..Len(args) :
              From(args)[i] = At(args, i, From(args)[i + 1], From(args)[i + 2])
<1> DEFINE n == Len(args)
           Lists == Seq(Items)
           Pairs == Lists \X Lists
           s0 == <<<<>>, <<>>>>
           Next2(k, x) == <<At(args, n + 1 - k, x[1], x[2]), x[1]>>
           F == [y \in (1..n) \X Pairs |-> Next2(y[1], y[2])]
           G == (0..n) \X Pairs
           Body(from, i) == IF i > n THEN <<>> ELSE At(args, i, from[i + 1], from[i + 2])
           Is(from) == from = [i \in 1..(n + 2) |-> Body(from, i)]
<1>1. From(args) = CHOOSE from : Is(from)
  BY DEF From
<1>2. n \in Nat
  OBVIOUS
<1>3. \A i \in 1..n, next \in Lists, later \in Lists : At(args, i, next, later) \in Lists
  BY AtIsList
<1>4. <<>> \in Lists
  OBVIOUS
<1> HIDE DEF n, Lists
<1>5. s0 \in Pairs
  BY <1>4
<1>6. ASSUME NEW k \in 1..n, NEW x \in Pairs PROVE Next2(k, x) \in Pairs
  <2>1. n + 1 - k \in 1..n /\ x[1] \in Lists /\ x[2] \in Lists
    BY <1>2
  <2>2. At(args, n + 1 - k, x[1], x[2]) \in Lists
    BY <1>3, <2>1
  <2>3. QED
    BY <2>1, <2>2
<1> HIDE DEF Pairs, s0, Next2
<1>7. PICK g : IsRecursive(g, n, s0, F)
  <2> HIDE DEF F
  <2>1. QED
    BY <1>2, Recursion
<1>8. \A k \in 1..n : \A x \in Pairs : F[<<k, x>>] = Next2(k, x)
  OBVIOUS
<1>9. \A k \in 0..n : g[k] \in Pairs
  <2>1. ASSUME NEW k \in 1..n, NEW x, <<k - 1, x>> \in G PROVE <<k, F[<<k, x>>]>> \in G
    <3>1. x \in Pairs
      BY <2>1
    <3>2. F[<<k, x>>] \in Pairs
      BY <1>6, <1>8, <3>1
    <3> HIDE DEF F
    <3>3. QED
      BY <1>2, <3>2
  <2>2. <<0, s0>> \in G
    BY <1>2, <1>5
  <2>3. \A k \in 0..n : <<k, g[k]>> \in G => g[k] \in Pairs
    OBVIOUS
  <2> HIDE DEF F, G
  <2>4. \A k \in 0..n : <<k, g[k]>> \in G
    BY <1>2, <1>7, <2>1, <2>2, RecursionKeeps
  <2>5. QED
    BY <2>3, <2>4
<1>10. g[0] = s0 /\ \A k \in 1..n : g[k] = Next2(k, g[k - 1])
  <2> HIDE DEF F
  <2>1. \A k \in 0..n : g[k] = IF k = 0 THEN s0 ELSE F[<<k, g[k - 1]>>]
    BY <1>7 DEF IsRecursive
  <2>2. \A k \in 1..n : k \in 0..n /\ k - 1 \in 0..n /\ k # 0
    BY <1>2
  <2>3. 0 \in 0..n
    BY <1>2
  <2>4. \A k \in 1..n : g[k] = F[<<k, g[k - 1]>>]
    BY <2>1, <2>2
  <2>5. QED
    BY <1>8, <1>9, <2>1, <2>2, <2>3, <2>4
<1> HIDE DEF F, G
\* The list from argument i on is the first of the pair after n + 1 - i steps.
<1> DEFINE h == [i \in 1..(n + 2) |-> IF i > n THEN <<>> ELSE g[n + 1 - i][1]]
<1>11. ASSUME NEW k \in 0..n PROVE h[n + 1 - k] = g[k][1] /\ h[n + 2 - k] = g[k][2]
  <2>1. g[0][1] = <<>> /\ g[0][2] = <<>>
    BY <1>10 DEF s0
  <2>2. n + 1 - k \in 1..(n + 2) /\ n + 2 - k \in 1..(n + 2)
    BY <1>2
  <2>3. CASE k = 0
    BY <1>2, <2>1, <2>2, <2>3
  <2>4. CASE k # 0
    <3>1. k - 1 \in 0..n /\ k \in 1..n /\ ~(n + 1 - k > n) /\ n + 1 - (n + 1 - k) = k
      BY <1>2, <2>4
    <3>2. h[n + 1 - k] = g[k][1]
      BY <2>2, <3>1
    <3>3. g[k][2] = g[k - 1][1]
      BY <1>10, <3>1 DEF Next2
    <3>4. h[n + 2 - k] = g[k - 1][1]
      <4>1. CASE k = 1
        BY <1>2, <2>1, <2>2, <4>1
      <4>2. CASE k # 1
        <5>1. ~(n + 2 - k > n) /\ n + 1 - (n + 2 - k) = k - 1
          BY <1>2, <3>1, <4>2
        <5>2. QED
          BY <2>2, <5>1
      <4>3. QED
        BY <4>1, <4>2
    <3>5. QED
      BY <3>2, <3>3, <3>4
  <2>5. QED
    BY <2>3, <2>4
<1>12. ASSUME NEW i \in 1..n PROVE h[i] = At(args, i, h[i + 1], h[i + 2])
  <2>1. PICK k \in 1..n : i = n + 1 - k
    <3>1. n + 1 - i \in 1..n /\ i = n + 1 - (n + 1 - i)
      BY <1>2
    <3>2. QED
      BY <3>1
  <2>2. k - 1 \in 0..n /\ k \in 0..n /\ i + 1 = n + 1 - (k - 1) /\ i + 2 = n + 2 - (k - 1)
    BY <1>2, <2>1
  <2> HIDE DEF h
  <2>3. h[i] = g[k][1] /\ h[i + 1] = g[k - 1][1] /\ h[i + 2] = g[k - 1][2]
    BY <1>11, <2>1, <2>2
  <2>4. g[k][1] = At(args, i, g[k - 1][1], g[k - 1][2])
    BY <1>10, <2>1 DEF Next2
  <2>5. QED
    BY <2>3, <2>4
<1>13. Is(h)
  <2> DEFINE h2 == [i \in 1..(n + 2) |-> Body(h, i)]
  <2>1. ASSUME NEW i \in 1..(n + 2) PROVE h[i] = Body(h, i)
    <3>1. CASE i > n
      BY <3>1
    <3>2. CASE ~(i > n)
      <4>1. i \in 1..n
        BY <1>2, <3>2
      <4> HIDE DEF h
      <4>2. QED
        BY <1>12, <3>2, <4>1
    <3>3. QED
      BY <3>1, <3>2
  <2>2. h = [i \in 1..(n + 2) |-> h[i]]
    OBVIOUS
  <2> HIDE DEF h, Body
  <2>3. [i \in 1..(n + 2) |-> h[i]] = [i \in 1..(n + 2) |-> Body(h, i)]
    BY <2>1
  <2>4. QED
    BY <2>2, <2>3
<1> HIDE DEF h
<1> DEFINE from == CHOOSE from : Is(from)
<1>14. Is(from)
  BY <1>13
<1> HIDE DEF from
<1>15. \A i \in 1..(n + 2) : from[i] = Body(from, i)
  BY <1>14
<1>16. \A i \in 1..(n + 2) : i > n => from[i] = <<>>
  BY <1>15
<1>17. ASSUME NEW i \in 1..n PROVE from[i] = At(args, i, from[i + 1], from[i + 2])
  <2>1. i \in 1..(n + 2) /\ ~(i > n)
    BY <1>2
  <2>2. QED
    BY <1>15, <2>1
<1> HIDE DEF Body, Is
\* By induction on how far i is from the end.
<1>18. \A i \in 1..(n + 2) : from[i] \in Lists
  <2> DEFINE U == {k \in 0..n : from[n + 1 - k] \in Lists /\ from[n + 2 - k] \in Lists}
  <2>1. 0 \in U
    <3>1. /\ n + 1 - 0 \in 1..(n + 2) /\ n + 2 - 0 \in 1..(n + 2) /\ n + 1 - 0 > n
          /\ n + 2 - 0 > n /\ 0 \in 0..n
      BY <1>2
    <3>2. QED
      BY <1>4, <1>16, <3>1
  <2>2. ASSUME NEW k \in 1..n, k - 1 \in U PROVE k \in U
    <3> DEFINE i == n + 1 - k
    <3>1. i \in 1..n /\ i + 1 = n + 1 - (k - 1) /\ i + 2 = n + 2 - (k - 1) /\ k \in 0..n
          /\ n + 2 - k = i + 1
      BY <1>2
    <3>2. from[i + 1] \in Lists /\ from[i + 2] \in Lists
      BY <2>2, <3>1
    <3> HIDE DEF i
    <3>3. from[i] \in Lists
      BY <1>3, <1>17, <3>1, <3>2
    <3>4. QED
      BY <3>1, <3>2, <3>3 DEF i
  <2>3. 0..n \subseteq U
    <3> HIDE DEF U
    <3>1. QED
      BY <1>2, <2>1, <2>2, UpToInduction
  <2>4. ASSUME NEW i \in 1..(n + 2) PROVE from[i] \in Lists
    <3>1. CASE i > n
      BY <1>4, <1>16, <3>1
    <3>2. CASE ~(i > n)
      <4>1. n + 1 - i \in 0..n /\ n + 1 - (n + 1 - i) = i
        BY <1>2, <3>2
      <4>2. QED
        BY <2>3, <4>1
    <3>3. QED
      BY <3>1, <3>2
  <2>5. QED
    BY <2>4
<1>19. from[n + 1] = <<>>
  BY <1>2, <1>16
<1>20. From(args) = from
  BY <1>1 DEF from
<1>21. QED
  BY <1>17, <1>18, <1>19, <1>20 DEF n, Lists

-----------------------------------------------------------------------------
(* Groups of arguments and their items.                                    *)

\* A group that opt (params_parser.c) takes: only options of TakesValue have a value,
\* which does not begin with a dash.
IsTaken(g) ==
  \/ Len(g) = 1 /\ g[1].dash /\ g[1].text \notin NotAlpha \cup TakesValue
  \/ Len(g) = 2 /\ g[1].dash /\ ~g[2].dash /\ g[1].text \in TakesValue

GroupsTaken(args) == {g \in {<<args>>} \cup Cuts(args) : \A k \in DOMAIN g : IsTaken(g[k])}

\* The items of the arguments of the user, which main reads from argument i on.
ItemsFrom(args, i) == From(<<Input("client")>> \o args)[i + 1]

\* The item of a group, and what parse_params makes of the group in a command line.
ItemOf(g) ==
  IF Len(g) = 1 THEN Item(TRUE, g[1].text, NoValue) ELSE Item(TRUE, g[1].text, g[2].text)

LEMMA CommandLineFacts ==
  ASSUME NEW args \in Seq(Argument)
  PROVE  /\ args \in Seq(Arguments) /\ <<Input("client")>> \o args \in Seq(Arguments)
         /\ Len(<<Input("client")>> \o args) = Len(args) + 1
         /\ (<<Input("client")>> \o args)[1] = Input("client")
         /\ \A i \in 1..Len(args) : (<<Input("client")>> \o args)[i + 1] = args[i]
<1>1. Argument \subseteq Arguments
  BY DEF Argument, Arguments, Words
<1>2. PICK c \in Arguments : c = Input("client")
  <2>1. "client" \in Words
    BY DEF Words
  <2>2. QED
    BY <2>1 DEF Arguments, Input
<1>3. args \in Seq(Arguments)
  BY <1>1
<1>4. /\ <<c>> \o args \in Seq(Arguments) /\ Len(<<c>> \o args) = Len(args) + 1
      /\ (<<c>> \o args)[1] = c
      /\ \A i \in 1..Len(args) : (<<c>> \o args)[i + 1] = args[i]
  BY <1>3
<1>5. QED
  BY <1>2, <1>3, <1>4

\* What ItemsFrom is, argument by argument.
LEMMA ItemsFromFacts ==
  ASSUME NEW args \in Seq(Argument)
  PROVE  /\ \A i \in 1..(Len(args) + 1) : ItemsFrom(args, i) \in Seq(Items)
         /\ ItemsFrom(args, Len(args) + 1) = <<>>
         /\ \A i \in 1..Len(args) :
              Goes(args, i, ItemsFrom(args, i), ItemsFrom(args, i + 1), ItemsFrom(args, i + 2))
<1> DEFINE all == <<Input("client")>> \o args
<1>1. /\ all \in Seq(Arguments) /\ Len(all) = Len(args) + 1
      /\ \A i \in 1..Len(args) : all[i + 1] = args[i]
  BY CommandLineFacts
<1>2. \A i : ItemsFrom(args, i) = From(all)[i + 1]
  BY DEF ItemsFrom
<1>3. PICK n \in Nat : n = Len(args)
  OBVIOUS
<1> HIDE DEF all
<1>4. /\ \A i \in 1..(n + 3) : From(all)[i] \in Seq(Items)
      /\ From(all)[n + 2] = <<>>
      /\ \A i \in 1..(n + 1) : From(all)[i] = At(all, i, From(all)[i + 1], From(all)[i + 2])
  <2>1. /\ Len(all) + 2 = n + 3 /\ Len(all) + 1 = n + 2 /\ Len(all) = n + 1
    BY <1>1, <1>3
  <2>2. QED
    BY <1>1, <2>1, FromFacts
<1>5. ASSUME NEW i \in 1..(n + 1) PROVE ItemsFrom(args, i) \in Seq(Items)
  <2>1. i + 1 \in 1..(n + 3)
    BY <1>3
  <2>2. QED
    BY <1>2, <1>4, <2>1
<1>6. ItemsFrom(args, n + 1) = <<>>
  <2>1. (n + 1) + 1 = n + 2
    BY <1>3
  <2>2. QED
    BY <1>2, <1>4, <2>1
<1>7. ASSUME NEW i \in 1..n
      PROVE  ItemsFrom(args, i) =
               At(all, i + 1, ItemsFrom(args, i + 1), ItemsFrom(args, i + 2))
  <2>1. i + 1 \in 1..(n + 1) /\ (i + 1) + 1 = i + 2 /\ (i + 1) + 2 = (i + 2) + 1
    BY <1>3
  <2>2. QED
    BY <1>2, <1>4, <2>1
<1>8. ASSUME NEW i \in 1..n
      PROVE  Goes(args, i, ItemsFrom(args, i), ItemsFrom(args, i + 1), ItemsFrom(args, i + 2))
  <2> DEFINE list == ItemsFrom(args, i)
             next == ItemsFrom(args, i + 1)
             later == ItemsFrom(args, i + 2)
  <2>1. /\ i + 1 \in 1..Len(all) /\ all[i + 1] = args[i]
        /\ (i + 1) + 1 \in 1..Len(all) <=> i + 1 \in 1..Len(args)
        /\ i + 1 \in 1..Len(args) => all[(i + 1) + 1] = args[i + 1]
    BY <1>1, <1>3
  <2>2. list = At(all, i + 1, next, later)
    BY <1>7
  <2> HIDE DEF list, next, later
  <2>3. Goes(all, i + 1, list, next, later)
    BY <1>1, <2>1, <2>2, AtCases
  <2>4. Goes(args, i, list, next, later)
    <3>1. CASE /\ (i + 1) + 1 \in 1..Len(all)
      BY <1>3, <2>1, <2>3, <3>1 DEF Goes
    <3>2. CASE ~((i + 1) + 1 \in 1..Len(all))
      BY <2>1, <2>3, <3>2 DEF Goes
    <3>3. QED
      BY <3>1, <3>2
  <2>5. QED
    BY <2>4 DEF list, next, later
<1>9. QED
  BY <1>3, <1>5, <1>6, <1>8

\* g is the group of arguments that begins at i.
GroupAt(args, i, g) ==
  /\ IsTaken(g) /\ i \in 1..Len(args) /\ i + Len(g) \in 1..(Len(args) + 1)
  /\ g = SubSeq(args, i, i + Len(g) - 1)

LEMMA GroupAtFacts ==
  ASSUME NEW args \in Seq(Argument), NEW i, NEW g, GroupAt(args, i, g)
  PROVE  /\ g[1] = args[i] /\ Len(g) \in 1..2
         /\ Len(g) = 2 => g[2] = args[i + 1] /\ i + 1 \in 1..Len(args)
<1>1. Len(g) \in 1..2 /\ i \in 1..Len(args) /\ i + Len(g) \in 1..(Len(args) + 1)
  BY DEF GroupAt, IsTaken
<1>2. PICK l \in 1..2 : l = Len(g)
  BY <1>1
<1>3. g = SubSeq(args, i, i + l - 1)
  BY <1>2 DEF GroupAt
<1>4. CASE l = 1
  <2>1. SubSeq(args, i, i + 1 - 1)[1] = args[i]
    BY <1>1
  <2>2. QED
    BY <1>1, <1>2, <1>3, <1>4, <2>1
<1>5. CASE l = 2
  <2>1. i + 1 \in 1..Len(args)
    BY <1>1, <1>2, <1>5
  <2>2. SubSeq(args, i, i + 2 - 1)[1] = args[i] /\ SubSeq(args, i, i + 2 - 1)[2] = args[i + 1]
    BY <1>1, <2>1
  <2>3. QED
    BY <1>1, <1>2, <1>3, <1>5, <2>1, <2>2
<1>6. QED
  BY <1>2, <1>4, <1>5

\* A group is parsed into its item.
LEMMA GroupParsed ==
  ASSUME NEW args \in Seq(Argument), NEW i, NEW g, GroupAt(args, i, g)
  PROVE  /\ ItemsFrom(args, i) = Then(ItemOf(g), ItemsFrom(args, i + Len(g)))
         /\ ItemOf(g) \in Options
<1>1. i \in 1..Len(args) /\ IsTaken(g)
  BY DEF GroupAt
<1>2. Goes(args, i, ItemsFrom(args, i), ItemsFrom(args, i + 1), ItemsFrom(args, i + 2))
  BY <1>1, ItemsFromFacts
<1>3. /\ g[1] = args[i] /\ Len(g) \in 1..2
      /\ Len(g) = 2 => g[2] = args[i + 1] /\ i + 1 \in 1..Len(args)
  BY GroupAtFacts
<1> DEFINE list == ItemsFrom(args, i)
           next == ItemsFrom(args, i + 1)
           later == ItemsFrom(args, i + 2)
<1> HIDE DEF list, next, later
<1>4. Goes(args, i, list, next, later)
  BY <1>2 DEF list, next, later
<1>5. CASE Len(g) = 1 /\ g[1].dash /\ g[1].text \notin NotAlpha \cup TakesValue
  <2>1. args[i].dash /\ args[i].text \notin NotAlpha /\ args[i].text \notin TakesValue
    BY <1>3, <1>5
  <2>2. \E item \in Items :
          item = Item(TRUE, args[i].text, NoValue) /\ item.isParam /\ list = Then(item, next)
    BY <1>4, <2>1 DEF Goes
  <2>3. ItemOf(g) = Item(TRUE, args[i].text, NoValue)
    BY <1>3, <1>5 DEF ItemOf
  <2>4. ItemsFrom(args, i + Len(g)) = next
    BY <1>5 DEF next
  <2>5. QED
    BY <2>2, <2>3, <2>4 DEF list, Options
<1>6. CASE Len(g) = 2 /\ g[1].dash /\ ~g[2].dash /\ g[1].text \in TakesValue
  <2>1. /\ args[i].dash /\ args[i].text \in TakesValue /\ args[i].text \notin NotAlpha
        /\ i + 1 \in 1..Len(args) /\ ~args[i + 1].dash
    BY <1>3, <1>6 DEF TakesValue, Commands, NotAlpha
  <2>2. \E item \in Items :
          /\ item = Item(TRUE, args[i].text, args[i + 1].text) /\ item.isParam
          /\ list = Then(item, later)
    BY <1>4, <2>1 DEF Goes
  <2>3. ItemOf(g) = Item(TRUE, args[i].text, args[i + 1].text)
    BY <1>3, <1>6 DEF ItemOf
  <2>4. ItemsFrom(args, i + Len(g)) = later
    BY <1>6 DEF later
  <2>5. QED
    BY <2>2, <2>3, <2>4 DEF list, Options
<1>7. QED
  BY <1>1, <1>5, <1>6 DEF IsTaken

\* An option in the list was parsed from a group.
LEMMA ParsedIsGroup ==
  ASSUME NEW args \in Seq(Argument), NEW i \in 1..(Len(args) + 1),
         ItemsFrom(args, i) # Refused, ItemsFrom(args, i) # <<>>,
         ItemsFrom(args, i)[1] \in Options
  PROVE  \E g :
           /\ GroupAt(args, i, g)
           /\ ItemsFrom(args, i + Len(g)) # Refused
           /\ ItemsFrom(args, i + Len(g)) \in Seq(Items)
           /\ Len(ItemsFrom(args, i)) = 1 + Len(ItemsFrom(args, i + Len(g)))
           /\ \A k \in 1..Len(ItemsFrom(args, i + Len(g))) :
                ItemsFrom(args, i)[k + 1] = ItemsFrom(args, i + Len(g))[k]
<1>1. PICK n \in Nat : n = Len(args)
  OBVIOUS
<1>2. /\ \A j \in 1..(n + 1) : ItemsFrom(args, j) \in Seq(Items)
      /\ ItemsFrom(args, n + 1) = <<>>
      /\ \A j \in 1..n :
           Goes(args, j, ItemsFrom(args, j), ItemsFrom(args, j + 1), ItemsFrom(args, j + 2))
  BY <1>1, ItemsFromFacts
<1>3. i \in 1..n
  BY <1>1, <1>2
<1> DEFINE list == ItemsFrom(args, i)
           next == ItemsFrom(args, i + 1)
           later == ItemsFrom(args, i + 2)
<1>4. next \in Seq(Items) /\ (i + 1 \in 1..n => later \in Seq(Items))
  <2>1. i + 1 \in 1..(n + 1) /\ (i + 1 \in 1..n => i + 2 \in 1..(n + 1))
    BY <1>1, <1>3
  <2>2. QED
    BY <1>2, <2>1
<1>5. Goes(args, i, list, next, later) /\ list # Refused /\ list[1] \in Options
  BY <1>2, <1>3
<1> HIDE DEF list, next, later
<1>6. ASSUME NEW item \in Items, list = Then(item, next), ~item.isParam,
             item.name # "refused"
      PROVE  FALSE
  <2>1. next # Refused => list[1] = item
    BY <1>4, <1>6, ThenFacts
  <2>2. next = Refused => list = Refused
    BY <1>4, <1>6, ThenFacts
  <2>3. QED
    BY <1>5, <1>6, <2>1, <2>2 DEF Options
<1>7. ASSUME NEW item \in Items, NEW rest \in Seq(Items), list = Then(item, rest),
             item.isParam
      PROVE  /\ rest # Refused /\ Len(list) = 1 + Len(rest)
             /\ \A k \in 1..Len(rest) : list[k + 1] = rest[k]
  <2>1. rest # Refused
    BY <1>5, <1>7, ThenFacts
  <2>2. /\ Len(Then(item, rest)) = 1 + Len(rest)
        /\ \A k \in 1..Len(rest) : Then(item, rest)[k + 1] = rest[k]
    BY <1>7, <2>1, ThenFacts
  <2>3. QED
    BY <1>7, <2>1, <2>2
<1>8. CASE \E item \in Items :
             /\ args[i].dash /\ args[i].text \notin NotAlpha \cup TakesValue
             /\ item.isParam
             /\ list = Then(item, next)
  <2> DEFINE g == SubSeq(args, i, i + 1 - 1)
  <2>1. Len(g) = 1 /\ g[1] = args[i]
    BY <1>1, <1>3
  <2>2. i + 1 \in 1..(n + 1)
    BY <1>1, <1>3
  <2>3. g = SubSeq(args, i, i + Len(g) - 1)
    BY <2>1
  <2> HIDE DEF g
  <2>4. IsTaken(g)
    BY <1>8, <2>1 DEF IsTaken
  <2>5. GroupAt(args, i, g)
    BY <1>1, <1>3, <2>1, <2>2, <2>3, <2>4 DEF GroupAt
  <2>6. ItemsFrom(args, i + Len(g)) = next
    BY <2>1 DEF next
  <2>7. next # Refused /\ Len(list) = 1 + Len(next) /\ \A k \in 1..Len(next) : list[k + 1] = next[k]
    BY <1>4, <1>7, <1>8
  <2>8. QED
    BY <1>4, <2>5, <2>6, <2>7 DEF list
<1>9. CASE \E item \in Items :
             /\ i + 1 \in 1..Len(args) /\ args[i].dash /\ ~args[i + 1].dash
             /\ args[i].text \in TakesValue
             /\ item.isParam
             /\ list = Then(item, later)
  <2> DEFINE g == SubSeq(args, i, i + 2 - 1)
  <2>1. i + 1 \in 1..n /\ i + 2 \in 1..(n + 1)
    BY <1>1, <1>3, <1>9
  <2>2. Len(g) = 2 /\ g[1] = args[i] /\ g[2] = args[i + 1]
    BY <1>1, <1>3, <2>1
  <2>3. g = SubSeq(args, i, i + Len(g) - 1)
    BY <2>2
  <2> HIDE DEF g
  <2>4. IsTaken(g)
    BY <1>9, <2>2 DEF IsTaken
  <2>5. GroupAt(args, i, g)
    BY <1>1, <1>3, <2>1, <2>2, <2>3, <2>4 DEF GroupAt
  <2>6. ItemsFrom(args, i + Len(g)) = later
    BY <2>2 DEF later
  <2>7. later \in Seq(Items)
    BY <1>4, <2>1
  <2>8. later # Refused /\ Len(list) = 1 + Len(later) /\ \A k \in 1..Len(later) : list[k + 1] = later[k]
    BY <1>7, <1>9, <2>7
  <2>9. QED
    BY <2>5, <2>6, <2>7, <2>8 DEF list
<1>10. QED
  BY <1>5, <1>6, <1>8, <1>9 DEF Goes

\* main's choice by the items of the arguments of the user.
LEMMA ChooseFacts ==
  ASSUME NEW args \in Seq(Argument), NEW items, items = ItemsFrom(args, 1)
  PROVE  Choose(args) =
           IF items = Refused \/ Len(items) \notin 1..2 \/ \E i \in Range(items) : ~i.isParam
           THEN Exit
           ELSE Choice(FirstCommand(items).name, FirstCommand(items).value,
                       \E i \in Range(items) : i.name = "w")
<1> DEFINE all == <<Input("client")>> \o args
           list == ParseParams(all)
<1>1. /\ all \in Seq(Arguments) /\ Len(all) = Len(args) + 1 /\ all[1] = Input("client")
  BY CommandLineFacts
<1>2. items = From(all)[2]
  BY DEF ItemsFrom
<1>3. Choose(args) =
        IF list = Refused \/ Len(list) \notin 2..3 \/ \E i \in Range(Tail(list)) : ~i.isParam
        THEN Exit
        ELSE Choice(FirstCommand(Tail(list)).name, FirstCommand(Tail(list)).value,
                    \E i \in Range(Tail(list)) : i.name = "w")
  BY DEF Choose
<1>4. list = From(all)[1]
  BY ParsedFrom
<1> HIDE DEF all, list
<1>5. PICK item \in Items : /\ item = Item(FALSE, NoValue, "client")
                            /\ item.name = NoValue /\ item.name # "refused"
  <2>1. "client" \in Words /\ NoValue \in Words /\ NoValue # "refused"
    BY RefusedFacts DEF Words
  <2>2. /\ Item(FALSE, NoValue, "client") \in Items
        /\ Item(FALSE, NoValue, "client").name = NoValue
    BY <2>1, ItemFacts
  <2>3. QED
    BY <2>1, <2>2
<1>6. items \in Seq(Items) /\ list = Then(item, items)
  <2>1. Len(args) + 1 \in 1..Len(all) /\ 1 \in 1..Len(all) /\ 2 \in 1..(Len(all) + 2)
    BY <1>1
  <2>2. items \in Seq(Items)
    BY <1>1, <1>2, <2>1, FromFacts
  <2>3. From(all)[1] = At(all, 1, From(all)[1 + 1], From(all)[1 + 2])
    BY <1>1, <2>1, FromFacts
  <2>4. ~all[1].dash /\ all[1].text = "client"
    BY <1>1 DEF Input
  <2>5. At(all, 1, items, From(all)[3]) = Then(item, items)
    BY <1>5, <2>4 DEF At
  <2>6. QED
    BY <1>2, <1>4, <2>2, <2>3, <2>5
<1>7. CASE items = Refused
  <2>1. list = Refused
    BY <1>5, <1>6, <1>7, ThenFacts
  <2>2. QED
    BY <1>3, <1>7, <2>1
<1>8. CASE items # Refused
  <2>1. /\ Then(item, items) # Refused /\ Len(Then(item, items)) = 1 + Len(items)
        /\ Tail(Then(item, items)) = items
    BY <1>5, <1>6, <1>8, ThenFacts
  <2>2. Len(list) \in 2..3 <=> Len(items) \in 1..2
    <3>1. PICK m \in Nat : m = Len(items)
      BY <1>6
    <3>2. Len(list) = 1 + m
      BY <1>6, <2>1, <3>1
    <3>3. \A k \in Nat : 1 + k \in 2..3 <=> k \in 1..2
      OBVIOUS
    <3>4. QED
      BY <3>1, <3>2, <3>3
  <2>3. list # Refused /\ Tail(list) = items
    BY <1>6, <2>1
  <2>4. QED
    BY <1>3, <1>8, <2>2, <2>3
<1>9. QED
  BY <1>7, <1>8

\* Groups of the user's are parsed into their items and no others.
LEMMA GroupsParsed ==
  ASSUME NEW args \in Seq(Argument), NEW g \in GroupsTaken(args)
  PROVE  /\ DOMAIN g = 1..Len(g) /\ Len(g) \in 1..2
         /\ ItemsFrom(args, 1) \in Seq(Items) /\ Len(ItemsFrom(args, 1)) = Len(g)
         /\ ItemsFrom(args, 1) # Refused
         /\ \A k \in 1..Len(g) :
              /\ IsTaken(g[k]) /\ ItemsFrom(args, 1)[k] = ItemOf(g[k])
              /\ ItemOf(g[k]) \in Options
<1>1. PICK n \in Nat : n = Len(args)
  OBVIOUS
<1>2. PICK none \in Seq(Items) :
        none = ItemsFrom(args, n + 1) /\ Len(none) = 0 /\ none # Refused
  <2>1. <<>> \in Seq(Items) /\ Len(<<>>) = 0
    OBVIOUS
  <2>2. QED
    BY <1>1, <2>1, ItemsFromFacts, RefusedFacts
<1>3. \A k \in DOMAIN g : IsTaken(g[k])
  BY DEF GroupsTaken
\* The list of one group from j on, where the list behind it is rest.
<1>4. ASSUME NEW j, NEW h, GroupAt(args, j, h),
             ItemsFrom(args, j + Len(h)) \in Seq(Items), ItemsFrom(args, j + Len(h)) # Refused
      PROVE  /\ ItemsFrom(args, j) \in Seq(Items) /\ ItemsFrom(args, j) # Refused
             /\ Len(ItemsFrom(args, j + Len(h))) = 0 => Len(ItemsFrom(args, j)) = 1
             /\ Len(ItemsFrom(args, j + Len(h))) = 1 => Len(ItemsFrom(args, j)) = 2
             /\ ItemsFrom(args, j)[1] = ItemOf(h) /\ ItemOf(h) \in Options
             /\ \A k \in 1..Len(ItemsFrom(args, j + Len(h))) :
                  ItemsFrom(args, j)[k + 1] = ItemsFrom(args, j + Len(h))[k]
  <2>1. PICK item \in Options, rest \in Seq(Items) :
          /\ item = ItemOf(h) /\ rest = ItemsFrom(args, j + Len(h))
          /\ ItemsFrom(args, j) = Then(item, rest) /\ rest # Refused
    BY <1>4, GroupParsed
  <2>2. /\ Then(item, rest) \in Seq(Items) /\ Then(item, rest) # Refused
        /\ Len(Then(item, rest)) = 1 + Len(rest)
        /\ Then(item, rest)[1] = item
        /\ \A k \in 1..Len(rest) : Then(item, rest)[k + 1] = rest[k]
    <3>1. item \in Items /\ item.isParam
      BY DEF Options
    <3>2. QED
      BY <2>1, <3>1, ThenFacts
  <2>3. PICK m \in Nat : m = Len(rest)
    OBVIOUS
  <2>4. (m = 0 => Len(Then(item, rest)) = 1) /\ (m = 1 => Len(Then(item, rest)) = 2)
    <3>1. Len(Then(item, rest)) = 1 + Len(rest)
      BY <2>2
    <3>2. Len(Then(item, rest)) = 1 + m
      BY <2>3, <3>1
    <3>3. QED
      BY <3>2
  <2>5. QED
    BY <2>1, <2>2, <2>3, <2>4
<1>5. CASE g = <<args>>
  <2>1. DOMAIN g = 1..1 /\ Len(g) = 1 /\ g[1] = args
    BY <1>5
  <2>2. IsTaken(args)
    BY <1>3, <2>1
  <2>3. n \in 1..2
    BY <1>1, <2>2 DEF IsTaken
  <2>4. args = SubSeq(args, 1, 1 + n - 1)
    BY <1>1
  <2>5. GroupAt(args, 1, args)
    BY <1>1, <2>2, <2>3, <2>4 DEF GroupAt
  <2>6. ItemsFrom(args, 1 + Len(args)) = none
    <3>1. 1 + Len(args) = n + 1
      BY <1>1
    <3>2. QED
      BY <1>2, <3>1
  <2>7. /\ ItemsFrom(args, 1) \in Seq(Items) /\ ItemsFrom(args, 1) # Refused
        /\ Len(ItemsFrom(args, 1)) = 1
        /\ ItemsFrom(args, 1)[1] = ItemOf(args) /\ ItemOf(args) \in Options
    BY <1>2, <1>4, <2>5, <2>6
  <2>8. QED
    BY <1>2, <2>1, <2>2, <2>7
<1>6. CASE g \in Cuts(args)
  <2>1. PICK i \in 1..(n - 1) : g = <<SubSeq(args, 1, i), SubSeq(args, i + 1, n)>>
    BY <1>1, <1>6 DEF Cuts
  <2>2. DOMAIN g = 1..2 /\ Len(g) = 2
    BY <2>1
  <2>3. g[1] = SubSeq(args, 1, i) /\ g[2] = SubSeq(args, i + 1, n)
    BY <2>1
  <2>4. IsTaken(g[1]) /\ IsTaken(g[2])
    BY <1>3, <2>2
  <2>5. Len(SubSeq(args, 1, i)) = i /\ Len(SubSeq(args, i + 1, n)) = n - i
    BY <1>1
  <2>6. Len(g[1]) = i /\ Len(g[2]) = n - i
    BY <2>3, <2>5
  <2>7. GroupAt(args, 1, g[1])
    <3>1. 1 \in 1..Len(args) /\ 1 + i \in 1..(Len(args) + 1) /\ 1 + i - 1 = i
      BY <1>1
    <3>2. QED
      BY <2>3, <2>4, <2>6, <3>1 DEF GroupAt
  <2>8. GroupAt(args, i + 1, g[2])
    <3>1. /\ i + 1 \in 1..Len(args) /\ (i + 1) + (n - i) \in 1..(Len(args) + 1)
          /\ (i + 1) + (n - i) - 1 = n
      BY <1>1
    <3>2. QED
      BY <2>3, <2>4, <2>6, <3>1 DEF GroupAt
  <2>9. ItemsFrom(args, (i + 1) + Len(g[2])) = none
    <3>1. (i + 1) + (n - i) = n + 1
      BY <1>1
    <3>2. QED
      BY <1>2, <2>6, <3>1
  <2>10. PICK rest \in Seq(Items) :
           /\ rest = ItemsFrom(args, i + 1) /\ rest # Refused /\ Len(rest) = 1
           /\ rest[1] = ItemOf(g[2]) /\ ItemOf(g[2]) \in Options
    <3>1. PICK h : h = g[2]
      OBVIOUS
    <3>2. GroupAt(args, i + 1, h) /\ ItemsFrom(args, (i + 1) + Len(h)) = none
      BY <2>8, <2>9, <3>1
    <3>3. /\ ItemsFrom(args, i + 1) \in Seq(Items) /\ ItemsFrom(args, i + 1) # Refused
          /\ Len(ItemsFrom(args, i + 1)) = 1
      BY <1>2, <1>4, <3>2
    <3>4. ItemsFrom(args, i + 1)[1] = ItemOf(h) /\ ItemOf(h) \in Options
      BY <1>2, <1>4, <3>2
    <3>5. ItemOf(h) = ItemOf(g[2])
      BY <3>1
    <3>6. QED
      BY <3>3, <3>4, <3>5
  <2>11. rest = ItemsFrom(args, 1 + Len(g[1]))
    <3>1. 1 + i = i + 1
      OBVIOUS
    <3>2. QED
      BY <2>6, <2>10, <3>1
  <2>12. /\ ItemsFrom(args, 1) \in Seq(Items) /\ ItemsFrom(args, 1) # Refused
         /\ Len(ItemsFrom(args, 1)) = 2
         /\ ItemsFrom(args, 1)[1] = ItemOf(g[1]) /\ ItemOf(g[1]) \in Options
         /\ \A k \in 1..Len(rest) : ItemsFrom(args, 1)[k + 1] = rest[k]
    <3>1. PICK h : h = g[1]
      OBVIOUS
    <3>2. GroupAt(args, 1, h) /\ ItemsFrom(args, 1 + Len(h)) = rest
      BY <2>7, <2>11, <3>1
    <3>3. /\ ItemsFrom(args, 1) \in Seq(Items) /\ ItemsFrom(args, 1) # Refused
          /\ Len(ItemsFrom(args, 1)) = 2
      BY <1>4, <2>10, <3>2
    <3>4. ItemsFrom(args, 1)[1] = ItemOf(h) /\ ItemOf(h) \in Options
      BY <1>4, <2>10, <3>2
    <3>5. \A k \in 1..Len(rest) : ItemsFrom(args, 1)[k + 1] = rest[k]
      BY <1>4, <2>10, <3>2
    <3>6. ItemOf(h) = ItemOf(g[1])
      BY <3>1
    <3>7. QED
      BY <3>3, <3>4, <3>5, <3>6
  <2>13. Len(ItemsFrom(args, 1)) = 2 /\ ItemsFrom(args, 1)[2] = ItemOf(g[2])
    <3>1. 1 \in 1..Len(rest)
      BY <2>10
    <3>2. ItemsFrom(args, 1)[1 + 1] = rest[1]
      BY <2>12, <3>1
    <3>3. QED
      BY <2>10, <2>12, <3>2
  <2>14. \A k \in 1..2 : k = 1 \/ k = 2
    OBVIOUS
  <2>15. QED
    BY <2>2, <2>4, <2>10, <2>12, <2>13, <2>14
<1>7. QED
  BY <1>5, <1>6 DEF GroupsTaken

\* The item of a group has the name and the value of the group.
LEMMA ItemOfFacts ==
  ASSUME NEW g, IsTaken(g), ItemOf(g) \in Options
  PROVE  /\ ItemOf(g).name = g[1].text
         /\ ItemOf(g).value = IF Len(g) = 2 THEN g[2].text ELSE NoValue
<1>1. CASE Len(g) = 1
  BY <1>1 DEF ItemOf, Item
<1>2. CASE Len(g) = 2
  BY <1>2 DEF ItemOf, Item
<1>3. QED
  BY <1>1, <1>2 DEF IsTaken

\* Groups that are parsed are executed as they stand.
LEMMA GroupsStand ==
  ASSUME NEW args \in Seq(Argument), NEW g \in GroupsTaken(args), g \in Groups(args)
  PROVE  Choose(args) # Exit /\ Stands(Choose(args), g)
<1>1. PICK items \in Seq(Items) :
        /\ items = ItemsFrom(args, 1) /\ items # Refused
        /\ Len(items) = Len(g) /\ Len(g) \in 1..2 /\ DOMAIN g = 1..Len(g)
        /\ \A k \in 1..Len(g) :
             IsTaken(g[k]) /\ items[k] = ItemOf(g[k]) /\ ItemOf(g[k]) \in Options
  BY GroupsParsed
<1>2. PICK n \in 1..2 : n = Len(g)
  BY <1>1
<1>3. DOMAIN items = 1..n /\ DOMAIN g = 1..n /\ Range(items) = {items[k] : k \in 1..n}
  BY <1>1, <1>2 DEF Range
<1>4. \A k \in 1..n :
        /\ items[k] \in Options /\ items[k].name = g[k][1].text
        /\ items[k].value = IF Len(g[k]) = 2 THEN g[k][2].text ELSE NoValue
  BY <1>1, <1>2, ItemOfFacts
<1>5. \A i \in Range(items) : i.isParam
  BY <1>3, <1>4 DEF Options
<1> DEFINE first == FirstCommand(items)
           waits == \E i \in Range(items) : i.name = "w"
           named == {k \in 1..n : items[k].name \in Commands}
<1>6. Choose(args) = Choice(first.name, first.value, waits)
  <2>1. Len(items) \in 1..2
    BY <1>1
  <2>2. QED
    BY <1>1, <1>5, <2>1, ChooseFacts
<1>7. first = IF named = {} THEN Item(TRUE, NoCommand, NoValue)
              ELSE items[CHOOSE k \in named : \A j \in named : k <= j]
  BY <1>3 DEF FirstCommand
<1>8. waits = \E k \in DOMAIN g : g[k][1].text = "w"
  BY <1>3, <1>4
<1>9. named = {k \in DOMAIN g : g[k][1].text \in Commands}
  BY <1>3, <1>4
<1> HIDE DEF first, waits
<1>10. /\ Choose(args).command = first.name /\ Choose(args).value = first.value
       /\ Choose(args).wait = waits
  BY <1>6 DEF Choice
<1>11. CASE named = {}
  <2>1. first.name = NoCommand
    BY <1>7, <1>11 DEF Item
  <2>2. Choose(args) # Exit
    BY <1>10, <2>1 DEF Exit, Choice, NoCommand
  <2>3. QED
    BY <1>8, <1>9, <1>10, <1>11, <2>1, <2>2 DEF Stands
<1>12. CASE named # {}
  <2>1. PICK k \in named : first = items[k] /\ \A j \in named : k <= j
    <3>1. \E k \in named : \A j \in named : k <= j
      <4>1. CASE 1 \in named
        BY <4>1
      <4>2. CASE 1 \notin named
        BY <1>12, <4>2
      <4>3. QED
        BY <4>1, <4>2
    <3> DEFINE c == CHOOSE k \in named : \A j \in named : k <= j
    <3> HIDE DEF named
    <3>2. c \in named /\ \A j \in named : c <= j
      BY <3>1
    <3>3. first = items[c]
      BY <1>7, <1>12
    <3> HIDE DEF c
    <3>4. QED
      BY <3>2, <3>3
  <2>2. k \in 1..n /\ first.name \in Commands
    BY <2>1
  <2>3. first.name = g[k][1].text /\ first.value = g[k][2].text
    <3>1. IsGroup(g[k]) /\ g[k][1].text \in Commands
      BY <1>3, <1>4, <2>1, <2>2 DEF Groups
    <3>2. Len(g[k]) = 2
      BY <3>1 DEF IsGroup
    <3>3. QED
      BY <1>4, <2>1, <2>2, <3>2
  <2>4. Choose(args) # Exit
    <3>1. "exit" \notin Commands
      BY DEF Commands
    <3>2. Exit.command = "exit"
      BY DEF Exit, Choice
    <3>3. QED
      BY <1>10, <2>2, <3>1, <3>2
  <2> HIDE DEF named
  <2>5. QED
    BY <1>8, <1>9, <1>10, <1>12, <2>1, <2>3, <2>4 DEF Stands
<1>13. QED
  BY <1>11, <1>12

\* What is executed is groups of the user's.
LEMMA ExecutedIsGroups ==
  ASSUME NEW args \in Seq(Argument), Choose(args) # Exit
  PROVE  GroupsTaken(args) # {}
<1>1. PICK n \in Nat : n = Len(args)
  OBVIOUS
<1>2. /\ \A i \in 1..(n + 1) : ItemsFrom(args, i) \in Seq(Items)
      /\ ItemsFrom(args, n + 1) = <<>>
  BY <1>1, ItemsFromFacts
<1>3. PICK items \in Seq(Items) :
        /\ items = ItemsFrom(args, 1) /\ items # Refused /\ Len(items) \in 1..2
        /\ \A i \in Range(items) : i.isParam
  <2>1. ItemsFrom(args, 1) \in Seq(Items)
    <3>1. 1 \in 1..(n + 1)
      OBVIOUS
    <3>2. QED
      BY <1>2, <3>1
  <2>2. QED
    BY <2>1, ChooseFacts
<1>4. \A k \in 1..Len(items) : items[k] \in Options
  <2>1. \A k \in 1..Len(items) : items[k] \in Range(items) /\ items[k] \in Items
    BY DEF Range
  <2>2. QED
    BY <1>3, <2>1 DEF Options
\* The group at j, if there are items from there on.
<1>5. ASSUME NEW j \in 1..(n + 1), NEW list \in Seq(Items), list = ItemsFrom(args, j),
             list # Refused, Len(list) # 0, list[1] \in Options
      PROVE  \E g : \E rest \in Seq(Items) :
               /\ GroupAt(args, j, g) /\ rest = ItemsFrom(args, j + Len(g))
               /\ rest # Refused
               /\ Len(list) = 1 => Len(rest) = 0
               /\ Len(list) = 2 => Len(rest) = 1 /\ list[2] = rest[1]
  <2>1. j \in 1..(Len(args) + 1) /\ list # <<>>
    BY <1>1, <1>5
  <2>2. PICK g : /\ GroupAt(args, j, g)
                 /\ ItemsFrom(args, j + Len(g)) # Refused
                 /\ ItemsFrom(args, j + Len(g)) \in Seq(Items)
                 /\ Len(list) = 1 + Len(ItemsFrom(args, j + Len(g)))
                 /\ \A k \in 1..Len(ItemsFrom(args, j + Len(g))) :
                      list[k + 1] = ItemsFrom(args, j + Len(g))[k]
    BY <1>5, <2>1, ParsedIsGroup
  <2>3. PICK rest \in Seq(Items) : rest = ItemsFrom(args, j + Len(g))
    BY <2>2
  <2>4. PICK m \in Nat : m = Len(rest)
    OBVIOUS
  <2>5. Len(list) = 1 + m
    BY <2>2, <2>3, <2>4
  <2>6. (Len(list) = 1 => m = 0) /\ (Len(list) = 2 => m = 1)
    BY <2>5
  <2>7. \A k \in 1..m : list[k + 1] = rest[k]
    BY <2>2, <2>3, <2>4
  <2>8. m = 1 => list[2] = rest[1]
    <3>1. SUFFICES ASSUME m = 1 PROVE list[1 + 1] = rest[1]
      OBVIOUS
    <3>2. 1 \in 1..m
      BY <3>1
    <3>3. QED
      BY <2>7, <3>2
  <2>9. QED
    BY <2>2, <2>3, <2>4, <2>6, <2>8
\* A list that ends at j is that of the end of the arguments.
<1>6. ASSUME NEW j \in 1..(n + 1), NEW list \in Seq(Items), list = ItemsFrom(args, j),
             list # Refused, Len(list) = 0
      PROVE  j = n + 1
  <2>1. SUFFICES ASSUME j \in 1..n PROVE FALSE
    OBVIOUS
  <2>2. Goes(args, j, list, ItemsFrom(args, j + 1), ItemsFrom(args, j + 2))
    BY <1>1, <1>6, <2>1, ItemsFromFacts
  <2>3. list = <<>>
    BY <1>6
  <2>4. /\ ItemsFrom(args, j + 1) \in Seq(Items)
        /\ j + 1 \in 1..n => ItemsFrom(args, j + 2) \in Seq(Items)
    <3>1. j + 1 \in 1..(n + 1) /\ (j + 1 \in 1..n => j + 2 \in 1..(n + 1))
      BY <2>1
    <3>2. QED
      BY <1>2, <3>1
  <2>5. ASSUME NEW item \in Items, NEW rest \in Seq(Items), list = Then(item, rest),
               item.name # "refused" \/ item.isParam
        PROVE  FALSE
    <3>1. rest = Refused => list = Refused
      BY <2>5, ThenFacts
    <3>2. rest # Refused => list = <<item>> \o rest
      BY <2>5, ThenFacts
    <3>3. <<item>> \o rest # <<>>
      OBVIOUS
    <3>4. QED
      BY <1>6, <2>3, <3>1, <3>2, <3>3
  <2>6. QED
    BY <1>1, <1>6, <2>2, <2>4, <2>5 DEF Goes
<1>7. PICK g1 : \E rest \in Seq(Items) :
        /\ GroupAt(args, 1, g1) /\ rest = ItemsFrom(args, 1 + Len(g1))
        /\ rest # Refused
        /\ Len(items) = 1 => Len(rest) = 0
        /\ Len(items) = 2 => Len(rest) = 1 /\ items[2] = rest[1]
  <2>1. PICK m \in 1..2 : m = Len(items)
    BY <1>3
  <2>2. 1 \in 1..(n + 1) /\ m # 0 /\ 1 \in 1..m
    OBVIOUS
  <2>3. QED
    BY <1>3, <1>4, <1>5, <2>1, <2>2
<1> DEFINE rest1 == ItemsFrom(args, 1 + Len(g1))
<1> HIDE DEF rest1
<1>8. /\ GroupAt(args, 1, g1) /\ rest1 \in Seq(Items) /\ rest1 # Refused
      /\ Len(items) = 1 => Len(rest1) = 0
      /\ Len(items) = 2 => Len(rest1) = 1 /\ items[2] = rest1[1]
  BY <1>7 DEF rest1
<1>9. PICK i \in 1..2 : /\ i = Len(g1) /\ 1 \in 1..n /\ 1 + i \in 1..(n + 1)
                        /\ g1 = SubSeq(args, 1, i) /\ IsTaken(g1)
  <2>1. PICK i \in 1..2 : i = Len(g1) /\ g1 = SubSeq(args, 1, 1 + i - 1)
    BY <1>8 DEF GroupAt, IsTaken
  <2>2. 1 + i - 1 = i
    OBVIOUS
  <2>3. QED
    BY <1>1, <1>8, <2>1, <2>2 DEF GroupAt
<1>10. CASE Len(items) = 1
  <2>1. Len(rest1) = 0 /\ rest1 = ItemsFrom(args, 1 + i)
    BY <1>8, <1>9, <1>10 DEF rest1
  <2>2. 1 + i = n + 1
    BY <1>6, <1>8, <1>9, <2>1
  <2>3. SubSeq(args, 1, n) = args
    BY <1>1
  <2>4. g1 = args
    BY <1>9, <2>2, <2>3
  <2>5. <<args>> \in GroupsTaken(args)
    <3>1. \A k \in DOMAIN <<args>> : <<args>>[k] = args
      OBVIOUS
    <3>2. \A k \in DOMAIN <<args>> : IsTaken(<<args>>[k])
      BY <1>9, <2>4, <3>1
    <3>3. QED
      BY <3>2 DEF GroupsTaken
  <2>6. QED
    BY <2>5
<1>11. CASE Len(items) = 2
  <2>1. Len(rest1) = 1 /\ items[2] = rest1[1] /\ 2 \in 1..Len(items)
    BY <1>8, <1>11
  <2>2. rest1[1] \in Options
    BY <1>4, <2>1
  <2>3. 1 + i \in 1..(n + 1) /\ rest1 = ItemsFrom(args, 1 + i) /\ Len(rest1) # 0
    BY <1>9, <2>1 DEF rest1
  <2>4. PICK g2 : \E rest \in Seq(Items) :
          /\ GroupAt(args, 1 + i, g2) /\ rest = ItemsFrom(args, (1 + i) + Len(g2))
          /\ rest # Refused /\ Len(rest) = 0
    BY <1>5, <1>8, <2>1, <2>2, <2>3
  <2>5. GroupAt(args, 1 + i, g2)
    BY <2>4
  <2>6. PICK l \in 1..2 : /\ l = Len(g2) /\ (1 + i) + l \in 1..(n + 1)
                          /\ g2 = SubSeq(args, 1 + i, (1 + i) + l - 1) /\ IsTaken(g2)
    <3>1. IsTaken(g2) /\ Len(g2) \in 1..2
      BY <2>5 DEF GroupAt, IsTaken
    <3>2. PICK l \in 1..2 : l = Len(g2)
      BY <3>1
    <3>3. /\ (1 + i) + l \in 1..(Len(args) + 1)
          /\ g2 = SubSeq(args, 1 + i, (1 + i) + l - 1)
      BY <2>5, <3>2 DEF GroupAt
    <3>4. QED
      BY <1>1, <3>1, <3>2, <3>3
  <2>7. PICK rest2 \in Seq(Items) :
          rest2 = ItemsFrom(args, (1 + i) + l) /\ rest2 # Refused /\ Len(rest2) = 0
    BY <2>4, <2>6
  <2>8. (1 + i) + l = n + 1
    BY <1>6, <2>6, <2>7
  <2>9. /\ (1 + i) + l - 1 = n /\ 1 + i = i + 1 /\ i \in 1..(n - 1)
    BY <2>8
  <2>10. g2 = SubSeq(args, i + 1, Len(args))
    BY <1>1, <2>6, <2>9
  <2>11. <<g1, g2>> \in Cuts(args)
    BY <1>1, <1>9, <2>9, <2>10 DEF Cuts
  <2>12. \A k \in DOMAIN <<g1, g2>> : IsTaken(<<g1, g2>>[k])
    <3>1. \A k \in DOMAIN <<g1, g2>> : <<g1, g2>>[k] = g1 \/ <<g1, g2>>[k] = g2
      OBVIOUS
    <3>2. QED
      BY <1>9, <2>6, <3>1
  <2>13. <<g1, g2>> \in GroupsTaken(args)
    BY <2>11, <2>12 DEF GroupsTaken
  <2>14. QED
    BY <2>13
<1>12. QED
  BY <1>3, <1>10, <1>11

\* A group begins with one of the arguments.
LEMMA GroupsBegin ==
  ASSUME NEW args \in Seq(Argument), NEW g \in {<<args>>} \cup Cuts(args),
         NEW k \in DOMAIN g, Len(g[k]) \in 1..2
  PROVE  /\ g[k][1] \in Argument /\ g[k][1] \in Range(args)
         /\ Len(g[k]) = 2 => g[k][2].dash \in BOOLEAN
<1>1. PICK n \in Nat : n = Len(args)
  OBVIOUS
<1>2. PICK i \in 1..n, l \in 1..2 :
        /\ i + l - 1 \in 1..n /\ g[k] = SubSeq(args, i, i + l - 1)
  <2>1. PICK m \in 1..2 : m = Len(g[k])
    OBVIOUS
  <2>2. CASE g = <<args>>
    <3>1. g[k] = args
      BY <2>2
    <3>2. m = n /\ 1 + m - 1 = n /\ 1 \in 1..n /\ args = SubSeq(args, 1, n)
      BY <1>1, <2>1, <3>1
    <3>3. QED
      BY <3>1, <3>2
  <2>3. CASE g \in Cuts(args)
    <3>1. PICK j \in 1..(n - 1) : g = <<SubSeq(args, 1, j), SubSeq(args, j + 1, n)>>
      BY <1>1, <2>3 DEF Cuts
    <3>2. g[k] = SubSeq(args, 1, j) \/ g[k] = SubSeq(args, j + 1, n)
      BY <3>1
    <3>3. CASE g[k] = SubSeq(args, 1, j)
      <4>1. Len(SubSeq(args, 1, j)) = j
        BY <1>1
      <4>2. m = j
        BY <2>1, <3>3, <4>1
      <4>3. 1 + m - 1 = j /\ 1 \in 1..n /\ j \in 1..n
        BY <4>2
      <4>4. QED
        BY <3>3, <4>3
    <3>4. CASE g[k] = SubSeq(args, j + 1, n)
      <4>1. Len(SubSeq(args, j + 1, n)) = n - j
        BY <1>1
      <4>2. m = n - j
        BY <2>1, <3>4, <4>1
      <4>3. (j + 1) + m - 1 = n /\ j + 1 \in 1..n /\ n \in 1..n
        BY <4>2
      <4>4. QED
        BY <3>4, <4>3
    <3>5. QED
      BY <3>2, <3>3, <3>4
  <2>4. QED
    BY <2>2, <2>3
<1>3. SubSeq(args, i, i + l - 1)[1] = args[i]
  BY <1>1, <1>2
<1>4. Len(g[k]) = 2 => SubSeq(args, i, i + l - 1)[2] \in Argument
  <2>1. SUFFICES ASSUME Len(g[k]) = 2 PROVE SubSeq(args, i, i + l - 1)[2] \in Argument
    OBVIOUS
  <2>2. Len(SubSeq(args, i, i + l - 1)) = l
    BY <1>1, <1>2
  <2>3. l = 2
    BY <1>2, <2>1, <2>2
  <2>4. i + 1 \in 1..n /\ SubSeq(args, i, i + 2 - 1)[2] = args[i + 1]
    BY <1>1, <1>2, <2>3
  <2>5. QED
    BY <1>1, <2>3, <2>4
<1>5. args[i] \in Argument /\ args[i] \in Range(args)
  BY <1>1 DEF Range
<1>6. QED
  BY <1>2, <1>3, <1>4, <1>5 DEF Argument

\* Without "-t" the groups that opt takes are those of the grammar, but for the values
\* that begin with a dash.
LEMMA TakenIsGroups ==
  ASSUME NEW args \in Seq(Argument), UsesNoT(args), NEW g \in {<<args>>} \cup Cuts(args),
         NEW k \in DOMAIN g
  PROVE  IsTaken(g[k]) <=> IsGroup(g[k]) /\ ~(Len(g[k]) = 2 /\ g[k][2].dash)
<1>1. Len(g[k]) \in 1..2 /\ g[k][1].dash => g[k][1].text # "t"
  <2>1. SUFFICES ASSUME Len(g[k]) \in 1..2, g[k][1].dash, g[k][1].text = "t" PROVE FALSE
    OBVIOUS
  <2>2. g[k][1] \in Argument /\ g[k][1] \in Range(args)
    BY <2>1, GroupsBegin
  <2>3. g[k][1] = Option("t")
    BY <2>1, <2>2 DEF Argument, Option
  <2>4. QED
    BY <2>2, <2>3 DEF UsesNoT
<1>2. \A name : name # "t" => (name \in TakesValue <=> name \in Commands)
  BY DEF TakesValue
<1>3. QED
  BY <1>1, <1>2 DEF IsTaken, IsGroup

\* Whatever the user types without "-t", of any length, main does what the grammar of
\* params_parser.h and the list in client.c:8 make of it, and refuses nothing that is in
\* the grammar but values that begin with a dash.
THEOREM CommandLinesAreUnderstood ==
  ASSUME NEW args \in Seq(Argument), UsesNoT(args)
  PROVE  UnderstoodAs(args, Choose(args))
<1>1. CASE Choose(args) = Exit
  <2>1. SUFFICES ASSUME NEW g \in Groups(args),
                        \A k \in DOMAIN g : ~(Len(g[k]) = 2 /\ g[k][2].dash)
                 PROVE  FALSE
    BY <1>1 DEF UnderstoodAs
  <2>2. g \in {<<args>>} \cup Cuts(args) /\ \A k \in DOMAIN g : IsGroup(g[k])
    BY DEF Groups
  <2>3. g \in GroupsTaken(args)
    BY <2>1, <2>2, TakenIsGroups DEF GroupsTaken
  <2>4. QED
    BY <1>1, <2>3, GroupsStand
<1>2. CASE Choose(args) # Exit
  <2>1. PICK g : g \in GroupsTaken(args)
    BY <1>2, ExecutedIsGroups
  <2>2. g \in {<<args>>} \cup Cuts(args) /\ \A k \in DOMAIN g : IsTaken(g[k])
    BY <2>1 DEF GroupsTaken
  <2>3. g \in Groups(args)
    BY <2>2, TakenIsGroups DEF Groups
  <2>4. QED
    BY <1>2, <2>1, <2>3, GroupsStand DEF UnderstoodAs
<1>3. QED
  BY <1>1, <1>2

-----------------------------------------------------------------------------
(* What the runs of the program and their connections are.                 *)

ChoiceSet == {Exit} \cup {Choose(args) : args \in CommandLines \cup UsualLines}
Asked == {<<>>} \cup ({c.command : c \in ChoiceSet} \X Dirs)
Dids == Asked \cup ({"r", "d"} \X (Dirs \cup {Elsewhere}))
ArgLists == CommandLines \cup UsualLines \cup {<<>>}
LineLists == Files \cup {UsualFile, <<>>}
Parsed ==
  {Failed}
    \cup {ParseSettings(FlattenSeq([k \in DOMAIN l |-> l[k].text])) : l \in LineLists}

ClientSet ==
  [pc : Pc, choice : ChoiceSet, args : ArgLists, lines : LineLists, settings : Parsed]
ConnSet ==
  [state : {"none", "reading", "line", "answered"}, open : BOOLEAN, asked : Asked,
   sent : Nat, taken : Nat, read : ReadSet, did : Dids, code : Codes \cup {"none"},
   back : 0..CodeLen]

Runs == client \in [Proc -> ClientSet] /\ conn \in [Proc -> ConnSet]

\* The other runs and their connections are as they were.
OthersKeep(p) ==
  \A q \in Proc : q # p => client'[q] = client[q] /\ conn'[q] = conn[q]

\* Run p goes on to pc, with the choice it made.
GoesTo(p, pc) == client'[p].pc = pc /\ client'[p].choice = client[p].choice

LEMMA ChoiceFacts ==
  ASSUME NEW c \in ChoiceSet, c # Exit
  PROVE  c.command \in {NoCommand, "t"} \/ c.value \in Dirs
BY UserNamesDirs DEF ChoiceSet

LEMMA OffFacts ==
  /\ Off \in ClientSet /\ Off.pc = "off" /\ Off.choice = Exit
  /\ NoConnection \in ConnSet
  /\ NoConnection.state = "none" /\ NoConnection.asked = <<>> /\ NoConnection.sent = 0
  /\ NoConnection.taken = 0 /\ NoConnection.open = FALSE /\ NoConnection.code = "none"
<1>1. Off \in ClientSet
  <2>1. /\ "off" \in Pc /\ Exit \in ChoiceSet /\ <<>> \in ArgLists /\ <<>> \in LineLists
        /\ Failed \in Parsed
    BY DEF Pc, ChoiceSet, ArgLists, LineLists, Parsed
  <2>2. QED
    BY <2>1 DEF Off, ClientSet
<1>2. NoConnection \in ConnSet
  <2>1. <<>> \in Asked /\ <<>> \in Dids /\ 0 \in 0..CodeLen
    BY DEF Asked, Dids, CodeLen
  <2>2. QED
    BY <2>1, NothingReadFacts DEF NoConnection, ConnSet
<1>3. QED
  BY <1>1, <1>2 DEF Off, NoConnection

\* A request's length.
LEMMA LengthFacts ==
  ASSUME Runs, NEW p \in Proc, conn[p].asked # <<>>
  PROVE  /\ Length(p) \in Nat /\ Length(p) - 2 \in Nat /\ Length(p) >= 3
         /\ Length(p) = (Length(p) - 2) + 2
         /\ TextLen[conn[p].asked[2]] = Length(p) - 2
         /\ conn[p].asked[2] \in Dirs
<1>1. conn[p].asked \in Asked
  BY DEF Runs, ConnSet
<1>2. conn[p].asked[2] \in Dirs
  BY <1>1 DEF Asked
<1>3. TextLen[conn[p].asked[2]] \in Nat \ {0}
  BY <1>2, RequestsHaveText
<1>4. PICK t \in Nat \ {0} : t = TextLen[conn[p].asked[2]]
  BY <1>3
<1>5. Length(p) = t + 2
  BY <1>4 DEF Length
<1>6. t + 2 \in Nat /\ (t + 2) - 2 = t /\ t + 2 >= 3
  OBVIOUS
<1>7. QED
  BY <1>2, <1>4, <1>5, <1>6

LEMMA ClientChange ==
  ASSUME Runs, NEW p \in Proc, NEW r \in ClientSet, client' = [client EXCEPT ![p] = r],
         conn' = conn
  PROVE  Runs' /\ OthersKeep(p) /\ client'[p] = r
BY DEF Runs, OthersKeep

LEMMA PcChange ==
  ASSUME Runs, NEW p \in Proc, NEW pc \in Pc, client' = [client EXCEPT ![p].pc = pc]
  PROVE  /\ client' \in [Proc -> ClientSet] /\ GoesTo(p, pc)
         /\ \A q \in Proc : q # p => client'[q] = client[q]
<1>1. PICK r : r = [client[p] EXCEPT !.pc = pc]
  OBVIOUS
<1>2. client[p] \in ClientSet /\ client' = [client EXCEPT ![p] = r]
  BY <1>1 DEF Runs
<1>3. r \in ClientSet /\ r.pc = pc /\ r.choice = client[p].choice
  BY <1>1, <1>2 DEF ClientSet
<1>4. QED
  BY <1>2, <1>3 DEF Runs, GoesTo

LEMMA ConnChange ==
  ASSUME Runs, NEW p \in Proc, NEW r \in ConnSet, conn' = [conn EXCEPT ![p] = r]
  PROVE  /\ conn' \in [Proc -> ConnSet] /\ conn'[p] = r
         /\ \A q \in Proc : q # p => conn'[q] = conn[q]
BY DEF Runs

LEMMA OverFacts ==
  ASSUME Runs, NEW p \in Proc, Over(p)
  PROVE  /\ client' \in [Proc -> ClientSet] /\ client'[p] = Off
         /\ \A q \in Proc : q # p => client'[q] = client[q]
BY OffFacts DEF Runs, Over

-----------------------------------------------------------------------------
(* What each action does to a run and its connection.                      *)

LEMMA StartFacts ==
  ASSUME Runs, NEW p \in Proc, Start(p)
  PROVE  /\ Runs' /\ OthersKeep(p) /\ conn' = conn
         /\ client[p].pc = "off" /\ conn[p].state = "none"
         /\ client'[p].pc = "options" /\ MayStart(client'[p].choice)
<1>1. PICK args \in CommandLines \cup UsualLines :
        /\ MayStart(Choose(args))
        /\ client' = [client EXCEPT ![p] = [Off EXCEPT
             !.pc = "options", !.choice = Choose(args), !.args = args]]
  BY DEF Start
<1>2. PICK r : r = [Off EXCEPT !.pc = "options", !.choice = Choose(args), !.args = args]
  OBVIOUS
<1>3. Choose(args) \in ChoiceSet /\ args \in ArgLists /\ "options" \in Pc
  BY DEF ChoiceSet, ArgLists, Pc
<1>4. r \in ClientSet /\ r.pc = "options" /\ r.choice = Choose(args)
  BY <1>2, <1>3, OffFacts DEF ClientSet
<1>5. client' = [client EXCEPT ![p] = r] /\ conn' = conn
  BY <1>1, <1>2 DEF Start
<1>6. Runs' /\ OthersKeep(p) /\ client'[p] = r
  BY <1>4, <1>5, ClientChange
<1>7. QED
  BY <1>1, <1>4, <1>5, <1>6 DEF Start

LEMMA LoadFacts ==
  ASSUME Runs, NEW p \in Proc, LoadSettings(p)
  PROVE  /\ Runs' /\ OthersKeep(p) /\ conn' = conn
         /\ client[p].pc = "options" /\ client[p].choice # Exit
         /\ GoesTo(p, "settings")
<1> DEFINE Read(lines) == FlattenSeq([k \in DOMAIN lines |-> lines[k].text])
           To(lines, settings) ==
             client' = [client EXCEPT ![p].pc = "settings", ![p].args = <<>>,
                          ![p].lines = lines, ![p].settings = settings]
<1>1. PICK lines \in IF May("new") THEN Files ELSE {UsualFile} :
        \E file \in {Read(lines)} : \E settings \in {ParseSettings(file)} : To(lines, settings)
  BY Zenon DEF LoadSettings
<1>2. lines \in LineLists
  BY DEF LineLists
<1> HIDE DEF To, Read
<1>3. PICK settings : settings = ParseSettings(Read(lines)) /\ To(lines, settings)
  BY <1>1, Zenon
<1>4. settings \in Parsed
  BY <1>2, <1>3 DEF Parsed, Read
<1>5. client' = [client EXCEPT ![p].pc = "settings", ![p].args = <<>>,
                     ![p].lines = lines, ![p].settings = settings]
  BY <1>3 DEF To
<1>6. PICK r : r = [client[p] EXCEPT !.pc = "settings", !.args = <<>>,
                      !.lines = lines, !.settings = settings]
  OBVIOUS
<1>7. client[p] \in ClientSet /\ "settings" \in Pc /\ <<>> \in ArgLists
  BY DEF Runs, Pc, ArgLists
<1>8. r \in ClientSet /\ r.pc = "settings" /\ r.choice = client[p].choice
  BY <1>2, <1>4, <1>6, <1>7 DEF ClientSet
<1>9. client' = [client EXCEPT ![p] = r]
  BY <1>5, <1>6 DEF Runs
<1>10. conn' = conn
  BY DEF LoadSettings
<1>11. Runs' /\ OthersKeep(p) /\ client'[p] = r
  BY <1>8, <1>9, <1>10, ClientChange
<1>12. QED
  BY <1>8, <1>10, <1>11 DEF LoadSettings, GoesTo

\* The actions that end a run and leave its connection, if there is one, alone.
LEMMA OverAlone ==
  ASSUME Runs, NEW p \in Proc, Over(p), conn' = conn
  PROVE  Runs' /\ OthersKeep(p) /\ client'[p] = Off
BY OverFacts DEF Runs, OthersKeep

LEMMA OpenFacts ==
  ASSUME Runs, NEW p \in Proc, OpenPort(p)
  PROVE  /\ Runs' /\ OthersKeep(p) /\ conn' = conn /\ client[p].pc = "settings"
         /\ \/ Over(p) /\ client'[p] = Off
            \/ /\ GoesTo(p, "ready") /\ UNCHANGED <<hearing, net>>
               /\ client[p].choice.wait => port = None /\ port' = p
               /\ ~client[p].choice.wait => port' = port
<1>1. conn' = conn /\ client[p].pc = "settings"
  BY DEF OpenPort
<1>2. CASE client[p].choice.wait /\ port # None
  <2>1. Over(p)
    BY <1>2 DEF OpenPort, PortIsFree
  <2>2. QED
    BY <1>1, <2>1, OverAlone
<1>3. CASE ~(client[p].choice.wait /\ port # None)
  <2>1. /\ client' = [client EXCEPT ![p] = Ready(p)]
        /\ port' = IF client[p].choice.wait THEN p ELSE port
        /\ UNCHANGED <<hearing, net>>
    BY <1>3 DEF OpenPort, PortIsFree
  <2>2. PICK r : r = Ready(p)
    OBVIOUS
  <2>3. "ready" \in Pc /\ client[p].choice \in ChoiceSet
    BY DEF Pc, Runs, ClientSet
  <2>4. r \in ClientSet /\ r.pc = "ready" /\ r.choice = client[p].choice
    BY <2>2, <2>3, OffFacts DEF Ready, ClientSet
  <2>5. Runs' /\ OthersKeep(p) /\ client'[p] = r
    BY <1>1, <2>1, <2>2, <2>4, ClientChange
  <2>6. QED
    BY <1>1, <1>3, <2>1, <2>4, <2>5 DEF GoesTo
<1>4. QED
  BY <1>2, <1>3

LEMMA NothingFacts ==
  ASSUME Runs, NEW p \in Proc, NothingToDo(p)
  PROVE  /\ Runs' /\ OthersKeep(p) /\ conn' = conn /\ client[p].pc = "ready"
         /\ client[p].choice.command = NoCommand
         /\ \/ Over(p) /\ client'[p] = Off /\ ~client[p].choice.wait
            \/ GoesTo(p, "waiting") /\ UNCHANGED <<port, hearing, net>> /\ client[p].choice.wait
<1>1. conn' = conn /\ client[p].pc = "ready" /\ client[p].choice.command = NoCommand
  BY DEF NothingToDo
<1>2. CASE ~client[p].choice.wait
  <2>1. Over(p)
    BY <1>2 DEF NothingToDo
  <2>2. QED
    BY <1>1, <1>2, <2>1, OverAlone
<1>3. CASE client[p].choice.wait
  <2>1. client' = [client EXCEPT ![p].pc = "waiting"] /\ UNCHANGED <<port, hearing, net>>
    BY <1>3 DEF NothingToDo
  <2>2. /\ client' \in [Proc -> ClientSet] /\ GoesTo(p, "waiting")
        /\ \A q \in Proc : q # p => client'[q] = client[q]
    BY <2>1, PcChange DEF Pc
  <2>3. QED
    BY <1>1, <1>3, <2>1, <2>2 DEF Runs, OthersKeep
<1>4. QED
  BY <1>2, <1>3

LEMMA NewFacts ==
  ASSUME NEW asked \in Asked
  PROVE  /\ NewConnection(asked) \in ConnSet
         /\ NewConnection(asked).state = "reading"
         /\ NewConnection(asked).open = (asked # <<>>)
         /\ NewConnection(asked).asked = asked
         /\ NewConnection(asked).sent = 0 /\ NewConnection(asked).taken = 0
         /\ NewConnection(asked).read = NothingRead
<1>1. PICK r : r = NewConnection(asked)
  OBVIOUS
<1>2. (asked # <<>>) \in BOOLEAN
  OBVIOUS
<1>3. PICK o \in BOOLEAN : o = (asked # <<>>)
  BY <1>2
<1>4. r = [NoConnection EXCEPT !.state = "reading", !.open = o, !.asked = asked]
  BY <1>1, <1>3 DEF NewConnection
<1>5. /\ NoConnection \in ConnSet /\ NoConnection.sent = 0 /\ NoConnection.taken = 0
      /\ NoConnection.read = NothingRead
  BY OffFacts DEF NoConnection
<1>6. /\ r \in ConnSet /\ r.state = "reading" /\ r.open = o /\ r.asked = asked
      /\ r.sent = 0 /\ r.taken = 0 /\ r.read = NothingRead
  BY <1>4, <1>5 DEF ConnSet
<1>7. QED
  BY <1>1, <1>3, <1>6

LEMMA NewCode ==
  ASSUME NEW asked
  PROVE  NewConnection(asked).code = "none"
BY DEF NewConnection, NoConnection

\* What execute_command asks for.
Wanted(p) == <<client[p].choice.command, client[p].choice.value>>

LEMMA ConnectFacts ==
  ASSUME Runs, NEW p \in Proc, Connect(p), client[p].choice # Exit
  PROVE  /\ Runs' /\ OthersKeep(p) /\ client[p].pc = "ready"
         /\ client[p].choice.command # NoCommand
         /\ \/ Over(p) /\ client'[p] = Off /\ conn' = conn /\ ended # "no"
            \/ /\ Over(p) /\ client'[p] = Off /\ conn'[p] = NewConnection(<<>>)
               /\ client[p].choice.command = "t"
            \/ /\ GoesTo(p, "sending") /\ UNCHANGED <<port, hearing, net>>
               /\ conn'[p] = NewConnection(Wanted(p)) /\ Wanted(p) \in Asked
               /\ Wanted(p) # <<>>
               /\ client[p].choice.command # "t" /\ client[p].choice.value \in Dirs
<1>1. client[p].pc = "ready" /\ client[p].choice.command # NoCommand
  BY DEF Connect
<1>2. CASE ended # "no"
  <2>1. Over(p) /\ conn' = conn
    BY <1>2 DEF Connect, ServerIsThere
  <2>2. QED
    BY <1>1, <1>2, <2>1, OverAlone
<1>3. CASE ended = "no" /\ client[p].choice.command = "t"
  <2>1. Over(p) /\ conn' = [conn EXCEPT ![p] = NewConnection(<<>>)]
    BY <1>3 DEF Connect, ServerIsThere
  <2>2. NewConnection(<<>>) \in ConnSet
    BY NewFacts DEF Asked
  <2>3. /\ conn' \in [Proc -> ConnSet] /\ conn'[p] = NewConnection(<<>>)
        /\ \A q \in Proc : q # p => conn'[q] = conn[q]
    BY <2>1, <2>2, ConnChange
  <2>4. QED
    BY <1>1, <1>3, <2>1, <2>3, OverFacts DEF Runs, OthersKeep
<1>4. CASE ended = "no" /\ client[p].choice.command # "t"
  <2>1. /\ client' = [client EXCEPT ![p].pc = "sending"]
        /\ conn' = [conn EXCEPT ![p] = NewConnection(Wanted(p))]
        /\ UNCHANGED <<port, hearing, net>>
    BY <1>4 DEF Connect, ServerIsThere, Wanted
  <2>2. client[p].choice \in ChoiceSet
    BY DEF Runs, ClientSet
  <2>3. client[p].choice.value \in Dirs
    BY <1>1, <1>4, <2>2, ChoiceFacts
  <2>4. Wanted(p) \in Asked /\ Wanted(p) # <<>>
    BY <2>2, <2>3 DEF Asked, Wanted
  <2>5. NewConnection(Wanted(p)) \in ConnSet
    BY <2>4, NewFacts
  <2>6. /\ conn' \in [Proc -> ConnSet] /\ conn'[p] = NewConnection(Wanted(p))
        /\ \A q \in Proc : q # p => conn'[q] = conn[q]
    BY <2>1, <2>5, ConnChange
  <2>7. /\ client' \in [Proc -> ClientSet] /\ GoesTo(p, "sending")
        /\ \A q \in Proc : q # p => client'[q] = client[q]
    BY <2>1, PcChange DEF Pc
  <2>8. QED
    BY <1>1, <1>4, <2>1, <2>3, <2>4, <2>6, <2>7 DEF Runs, OthersKeep
<1>5. QED
  BY <1>2, <1>3, <1>4

LEMMA SendFacts ==
  ASSUME Runs, NEW p \in Proc, conn[p].asked # <<>>, Send(p)
  PROVE  /\ Runs' /\ OthersKeep(p) /\ client[p].pc = "sending"
         /\ GoesTo(p, "sending") \/ GoesTo(p, "receiving")
         /\ client'[p].pc = "receiving" <=> conn'[p].sent = Length(p)
         /\ conn'[p].sent \in (conn[p].sent + 1)..Length(p)
         /\ ~May("pieces") => conn'[p].sent = Length(p)
         /\ conn'[p].state = conn[p].state /\ conn'[p].open = conn[p].open
         /\ conn'[p].asked = conn[p].asked /\ conn'[p].taken = conn[p].taken
         /\ conn'[p].read = conn[p].read /\ conn'[p].did = conn[p].did
         /\ conn'[p].code = conn[p].code
<1>1. PICK n \in (conn[p].sent + 1)..Length(p) :
        /\ ~May("pieces") => n = Length(p)
        /\ conn' = [conn EXCEPT ![p].sent = n]
        /\ client' = [client EXCEPT ![p].pc = IF n = Length(p) THEN "receiving" ELSE @]
  BY DEF Send
<1>2. client[p].pc = "sending"
  BY DEF Send
<1>3. conn[p] \in ConnSet /\ client[p] \in ClientSet
  BY DEF Runs
<1>4. n \in Nat
  <2>1. conn[p].sent \in Nat /\ Length(p) \in Nat
    BY <1>3, LengthFacts DEF ConnSet
  <2>2. QED
    BY <2>1
<1>5. PICK r : r = [conn[p] EXCEPT !.sent = n]
  OBVIOUS
<1>6. /\ r \in ConnSet /\ r.sent = n /\ r.state = conn[p].state /\ r.open = conn[p].open
      /\ r.asked = conn[p].asked /\ r.taken = conn[p].taken /\ r.read = conn[p].read
      /\ r.did = conn[p].did /\ r.code = conn[p].code
  BY <1>3, <1>4, <1>5 DEF ConnSet
<1>7. conn' = [conn EXCEPT ![p] = r]
  BY <1>1, <1>5
<1>8. /\ conn' \in [Proc -> ConnSet] /\ conn'[p] = r
      /\ \A q \in Proc : q # p => conn'[q] = conn[q]
  BY <1>6, <1>7, ConnChange
<1>9. PICK pc \in {"sending", "receiving"} :
        /\ pc = "receiving" <=> n = Length(p)
        /\ client' = [client EXCEPT ![p].pc = pc]
  <2>1. CASE n = Length(p)
    BY <1>1, <2>1
  <2>2. CASE n # Length(p)
    <3>1. client' = [client EXCEPT ![p].pc = client[p].pc]
      BY <1>1, <2>2
    <3>2. QED
      BY <1>2, <2>2, <3>1
  <2>3. QED
    BY <2>1, <2>2
<1>10. /\ client' \in [Proc -> ClientSet] /\ GoesTo(p, pc)
       /\ \A q \in Proc : q # p => client'[q] = client[q]
  BY <1>9, PcChange DEF Pc
<1>11. Runs' /\ OthersKeep(p)
  BY <1>8, <1>10 DEF Runs, OthersKeep
<1>12. client'[p].pc = pc
  BY <1>10 DEF GoesTo
<1>13. QED
  BY <1>1, <1>2, <1>6, <1>8, <1>9, <1>10, <1>11, <1>12

LEMMA ReceiveAnswerFacts ==
  ASSUME Runs, NEW p \in Proc, ReceiveAnswer(p)
  PROVE  /\ Runs' /\ OthersKeep(p) /\ client' = client
         /\ client[p].pc = "receiving" /\ conn[p].state = "answered" /\ conn[p].code # "none"
         /\ conn'[p].state = conn[p].state /\ conn'[p].open = conn[p].open
         /\ conn'[p].asked = conn[p].asked /\ conn'[p].taken = conn[p].taken
         /\ conn'[p].sent = conn[p].sent
         /\ conn'[p].read = conn[p].read /\ conn'[p].did = conn[p].did
         /\ conn'[p].code = conn[p].code
<1>1. PICK n \in (conn[p].back + 1)..CodeLen : conn' = [conn EXCEPT ![p].back = n]
  BY DEF ReceiveAnswer
<1>2. conn[p] \in ConnSet
  BY DEF Runs
<1>3. n \in 0..CodeLen
  BY <1>2 DEF ConnSet, CodeLen
<1>4. PICK r : r = [conn[p] EXCEPT !.back = n]
  OBVIOUS
<1>5. /\ r \in ConnSet /\ r.sent = conn[p].sent /\ r.state = conn[p].state
      /\ r.open = conn[p].open
      /\ r.asked = conn[p].asked /\ r.taken = conn[p].taken /\ r.read = conn[p].read
      /\ r.did = conn[p].did /\ r.code = conn[p].code
  BY <1>2, <1>3, <1>4 DEF ConnSet
<1>6. conn' = [conn EXCEPT ![p] = r]
  BY <1>1, <1>4
<1>7. /\ conn' \in [Proc -> ConnSet] /\ conn'[p] = r
      /\ \A q \in Proc : q # p => conn'[q] = conn[q]
  BY <1>5, <1>6, ConnChange
<1>8. client' = client
  BY DEF ReceiveAnswer, clientVars
<1>9. Runs' /\ OthersKeep(p)
  BY <1>7, <1>8 DEF Runs, OthersKeep
<1>10. QED
  BY <1>5, <1>7, <1>8, <1>9 DEF ReceiveAnswer

LEMMA ResetFacts ==
  ASSUME Runs, NEW p \in Proc, Reset(p)
  PROVE  /\ Runs' /\ OthersKeep(p) /\ Over(p) /\ client'[p] = Off /\ conn'[p] = NoConnection
         /\ client[p].pc = "receiving" /\ conn[p].state = "answered"
         /\ conn[p].taken < Length(p)
<1>1. Over(p) /\ conn' = [conn EXCEPT ![p] = NoConnection]
  BY DEF Reset
<1>2. /\ conn' \in [Proc -> ConnSet] /\ conn'[p] = NoConnection
      /\ \A q \in Proc : q # p => conn'[q] = conn[q]
  BY <1>1, OffFacts, ConnChange
<1>3. QED
  BY <1>1, <1>2, OverFacts DEF Runs, OthersKeep, Reset

LEMMA SpinFacts ==
  ASSUME Runs, NEW p \in Proc, Spin(p)
  PROVE  /\ Runs' /\ OthersKeep(p) /\ GoesTo(p, "spinning") /\ conn' = conn
         /\ client[p].pc = "receiving"
         /\ \/ conn[p].state = "answered" /\ conn[p].code = "none"
            \/ ended # "no" /\ conn[p].state # "answered"
<1>1. client' = [client EXCEPT ![p].pc = "spinning"] /\ conn' = conn
  BY DEF Spin
<1>2. /\ client' \in [Proc -> ClientSet] /\ GoesTo(p, "spinning")
      /\ \A q \in Proc : q # p => client'[q] = client[q]
  BY <1>1, PcChange DEF Pc
<1>3. QED
  BY <1>1, <1>2 DEF Runs, OthersKeep, Spin

LEMMA FinishFacts ==
  ASSUME Runs, NEW p \in Proc, Finish(p)
  PROVE  /\ Runs' /\ OthersKeep(p) /\ conn'[p] = NoConnection
         /\ client[p].pc = "receiving"
         /\ \/ Over(p) /\ client'[p] = Off
               /\ ~(conn[p].code \in {"200", "201", "202"} /\ client[p].choice.wait)
            \/ GoesTo(p, "waiting") /\ UNCHANGED <<port, hearing, net>>
               /\ conn[p].code \in {"200", "201", "202"} /\ client[p].choice.wait
<1>1. client[p].pc = "receiving" /\ conn' = [conn EXCEPT ![p] = NoConnection]
  BY DEF Finish
<1>2. /\ conn' \in [Proc -> ConnSet] /\ conn'[p] = NoConnection
      /\ \A q \in Proc : q # p => conn'[q] = conn[q]
  BY <1>1, OffFacts, ConnChange
<1>3. CASE conn[p].code \in {"200", "201", "202"} /\ client[p].choice.wait
  <2>1. client' = [client EXCEPT ![p].pc = "waiting"] /\ UNCHANGED <<port, hearing, net>>
    BY <1>3 DEF Finish
  <2>2. /\ client' \in [Proc -> ClientSet] /\ GoesTo(p, "waiting")
        /\ \A q \in Proc : q # p => client'[q] = client[q]
    BY <2>1, PcChange DEF Pc
  <2>3. QED
    BY <1>1, <1>2, <1>3, <2>1, <2>2 DEF Runs, OthersKeep
<1>4. CASE ~(conn[p].code \in {"200", "201", "202"} /\ client[p].choice.wait)
  <2>1. Over(p)
    BY <1>4 DEF Finish
  <2>2. QED
    BY <1>1, <1>2, <1>4, <2>1, OverFacts DEF Runs, OthersKeep
<1>5. QED
  BY <1>3, <1>4

\* What comes in one piece and fits into the buffer is the whole request.
LEMMA ReceiveFacts ==
  ASSUME Runs, NEW p \in Proc, conn[p].asked # <<>>, conn[p].sent <= Length(p), Receive(p)
  PROVE  /\ Runs' /\ OthersKeep(p) /\ client' = client
         /\ conn[p].state = "reading" /\ conn'[p].state \in {"reading", "line"}
         /\ conn'[p].open = conn[p].open /\ conn'[p].asked = conn[p].asked
         /\ conn'[p].sent = conn[p].sent /\ conn'[p].code = conn[p].code
         /\ conn[p].taken < conn'[p].taken /\ conn'[p].taken <= conn[p].sent
         /\ /\ ~May("pieces") /\ Length(p) <= BuffSize /\ conn[p].sent = Length(p)
            /\ conn[p].taken = 0 /\ conn[p].read = NothingRead
            => /\ conn'[p].state = "line" /\ conn'[p].taken = Length(p)
               /\ conn'[p].read.string = Line(TextLen[conn[p].asked[2]])
<1> DEFINE c == conn[p]
           m == Length(p) - 2
<1>1. c \in ConnSet /\ c.state = "reading" /\ c.taken < c.sent
  BY DEF Runs, Receive
<1> DEFINE Has(n, read) ==
             conn' = [conn EXCEPT ![p].taken = @ + n, ![p].read = read,
                        ![p].state = IF IsLine(read) THEN "line" ELSE @]
           GoesOn(n, junk) ==
             /\ ~May("pieces") => n = conn[p].sent - conn[p].taken \/ n = BuffSize
             /\ \E piece \in {SubSeq(Request(Length(p) - 2), conn[p].taken + 1,
                                      conn[p].taken + n)} :
                \E read \in {Received(conn[p].read, piece, junk)} : Has(n, read)
<1>2. PICK n \in 1..(IF conn[p].sent - conn[p].taken < BuffSize
                    THEN conn[p].sent - conn[p].taken ELSE BuffSize),
           junk \in {Junk, Newline} : GoesOn(n, junk)
  BY Zenon DEF Receive
<1> DEFINE piece == SubSeq(Request(m), c.taken + 1, c.taken + n)
           read == Received(c.read, piece, junk)
<1>3. conn' = [conn EXCEPT ![p].taken = @ + n, ![p].read = read,
                 ![p].state = IF IsLine(read) THEN "line" ELSE @]
  <2> HIDE DEF Has
  <2>1. Has(n, read)
    BY <1>2
  <2>2. QED
    BY <2>1 DEF Has
<1>4. /\ c.taken \in Nat /\ c.sent \in Nat /\ Length(p) \in Nat /\ m \in Nat
      /\ Length(p) = m + 2 /\ BuffSize \in Nat /\ c.read \in ReadSet
  BY <1>1, LengthFacts, BuffSizeIsNat DEF ConnSet
<1>5. c.taken < c.sent /\ c.sent <= Length(p)
  BY <1>1
<1> HIDE DEF c, m, piece, read
<1>6. n \in Nat /\ n # 0 /\ n <= c.sent - c.taken /\ n <= BuffSize
  <2>1. PICK rest \in Int : rest = c.sent - c.taken
    BY <1>4
  <2>2. n \in 1..(IF rest < BuffSize THEN rest ELSE BuffSize)
    BY <1>2, <2>1 DEF c
  <2>3. n \in Nat /\ n # 0 /\ n <= rest /\ n <= BuffSize
    BY <1>4, <2>2
  <2>4. QED
    BY <2>1, <2>3
<1>7. junk \in Int
  BY <1>2 DEF Junk, Newline
<1>8. piece \in [1..n -> Int]
  <2>1. c.taken \in 0..(m + 2) /\ c.taken + n <= m + 2
    BY <1>4, <1>5, <1>6
  <2>2. QED
    BY <1>4, <1>6, <2>1, RequestFacts DEF piece
<1>9. read \in ReadSet
  BY <1>4, <1>6, <1>7, <1>8, ReceivedFacts DEF read
<1>10. PICK s \in {"reading", "line"} :
         /\ s = (IF IsLine(read) THEN "line" ELSE c.state)
         /\ IsLine(read) => s = "line"
  BY <1>1 DEF c
<1>11. c.taken + n \in Nat
  BY <1>4, <1>6
<1>12. PICK r : r = [c EXCEPT !.taken = c.taken + n, !.read = read, !.state = s]
  OBVIOUS
<1>13. c \in ConnSet
  BY <1>1 DEF c
<1>14. /\ r \in ConnSet /\ r.state = s /\ r.open = c.open /\ r.asked = c.asked
       /\ r.sent = c.sent /\ r.taken = c.taken + n /\ r.read = read /\ r.code = c.code
  BY <1>9, <1>11, <1>12, <1>13 DEF ConnSet
<1>15. conn' = [conn EXCEPT ![p] = r]
  BY <1>3, <1>10, <1>12 DEF c, Runs
<1>16. /\ conn' \in [Proc -> ConnSet] /\ conn'[p] = r
       /\ \A q \in Proc : q # p => conn'[q] = conn[q]
  BY <1>14, <1>15, ConnChange
<1>17. client' = client
  BY DEF Receive, clientVars
<1>18. Runs' /\ OthersKeep(p)
  BY <1>16, <1>17 DEF Runs, OthersKeep
<1>19. c.taken < c.taken + n /\ c.taken + n <= c.sent
  BY <1>4, <1>6
<1>20. ASSUME ~May("pieces"), Length(p) <= BuffSize, c.sent = Length(p), c.taken = 0,
              c.read = NothingRead
       PROVE  s = "line" /\ c.taken + n = Length(p) /\ read.string = Line(m)
  <2>1. n = c.sent - c.taken \/ n = BuffSize
    BY <1>2, <1>20 DEF c
  <2>2. n = m + 2
    BY <1>4, <1>6, <1>20, <2>1
  <2>3. piece = Request(m)
    <3>1. piece = SubSeq(Request(m), 0 + 1, 0 + n)
      BY <1>20 DEF piece
    <3>2. piece = SubSeq(Request(m), 1, m + 2)
      BY <1>4, <2>2, <3>1
    <3>3. QED
      BY <1>4, <3>2, RequestFacts
  <2>4. read.string = Line(m) /\ IsLine(read)
    BY <1>4, <1>7, <1>20, <2>3, WholeRequest DEF read
  <2>5. c.taken + n = Length(p)
    BY <1>4, <1>20, <2>2
  <2>6. QED
    BY <1>10, <2>4, <2>5
<1>21. TextLen[conn[p].asked[2]] = m
  BY LengthFacts DEF m
<1>22. conn[p].state = "reading"
  BY <1>1 DEF c
<1>23. QED
  BY <1>14, <1>16, <1>17, <1>18, <1>19, <1>20, <1>21, <1>22 DEF c

LEMMA ReceiveNothingFacts ==
  ASSUME Runs, NEW p \in Proc, ReceiveNothing(p)
  PROVE  /\ Runs' /\ OthersKeep(p) /\ client' = client
         /\ conn[p].state = "reading" /\ ~conn[p].open /\ conn[p].taken = conn[p].sent
         /\ \/ conn' = conn /\ ended' = "own"
            \/ /\ conn'[p].state = "line" /\ UNCHANGED ended
               /\ conn'[p].open = conn[p].open /\ conn'[p].asked = conn[p].asked
               /\ conn'[p].sent = conn[p].sent /\ conn'[p].taken = conn[p].taken
<1>1. /\ client' = client /\ conn[p].state = "reading" /\ ~conn[p].open
      /\ conn[p].taken = conn[p].sent
  BY DEF ReceiveNothing, clientVars
<1>2. CASE conn' = conn /\ ended' = "own"
  BY <1>1, <1>2 DEF Runs, OthersKeep
<1>3. CASE ~(conn' = conn /\ ended' = "own")
  <2>1. /\ conn' = [conn EXCEPT ![p].state = "line",
                      ![p].read = [@ EXCEPT !.string = <<Junk, Newline>>]]
        /\ UNCHANGED ended
    BY <1>3 DEF ReceiveNothing
  <2>2. conn[p] \in ConnSet /\ conn[p].read \in ReadSet
    BY DEF Runs, ConnSet
  <2>3. PICK t : t = <<Junk, Newline>>
    OBVIOUS
  <2>4. t \in Seq(Int)
    BY <2>3 DEF Junk, Newline
  <2>5. PICK h : h = [conn[p].read EXCEPT !.string = t]
    OBVIOUS
  <2>6. h \in ReadSet
    BY <2>2, <2>4, <2>5 DEF ReadSet
  <2>7. PICK r : r = [conn[p] EXCEPT !.state = "line", !.read = h]
    OBVIOUS
  <2>8. /\ r \in ConnSet /\ r.state = "line" /\ r.open = conn[p].open
        /\ r.asked = conn[p].asked /\ r.sent = conn[p].sent /\ r.taken = conn[p].taken
    BY <2>2, <2>6, <2>7 DEF ConnSet
  <2>9. conn' = [conn EXCEPT ![p] = r]
    BY <2>1, <2>2, <2>3, <2>5, <2>7 DEF Runs
  <2>10. /\ conn' \in [Proc -> ConnSet] /\ conn'[p] = r
         /\ \A q \in Proc : q # p => conn'[q] = conn[q]
    BY <2>8, <2>9, ConnChange
  <2>11. QED
    BY <1>1, <2>1, <2>8, <2>10 DEF Runs, OthersKeep
<1>4. QED
  BY <1>2, <1>3

LEMMA OutcomeFacts ==
  ASSUME NEW command, NEW d, NEW o \in Outcomes(command, d)
  PROVE  /\ o.code \in Codes
         /\ command = "d" => ~o.stays
         /\ o.stays => d \in registered \/ o.code \in {"200", "201", "202"}
<1>1. CASE command = "d"
  <2>1. PICK code : code = IF d \in registered THEN "200" ELSE "400"
    OBVIOUS
  <2>2. o = [code |-> code, stays |-> FALSE]
    BY <1>1, <2>1 DEF Outcomes
  <2>3. code \in Codes
    BY <2>1 DEF Codes
  <2>4. QED
    BY <1>1, <2>2, <2>3
<1>2. CASE command # "d"
  <2>1. PICK here : here = (d \in registered)
    OBVIOUS
  <2> DEFINE C1 == {IF command \in {"r", "R"} THEN "400" ELSE "403"}
             C2 == IF here /\ command \in {"r", "a"} THEN {"201", "202"} ELSE {"200"}
  <2>2. \/ o \in [code : {"400", "403"}, stays : {here}]
        \/ o \in [code : {"200", "201", "202"}, stays : {TRUE}]
    <3>1. Outcomes(command, d) = [code : C1, stays : {here}] \cup [code : C2, stays : {TRUE}]
      BY <1>2, <2>1 DEF Outcomes
    <3>2. C1 \subseteq {"400", "403"} /\ C2 \subseteq {"200", "201", "202"}
      OBVIOUS
    <3> HIDE DEF C1, C2
    <3>3. QED
      BY <3>1, <3>2
  <2>3. o.code \in Codes
    BY <2>2 DEF Codes
  <2>4. o.stays => d \in registered \/ o.code \in {"200", "201", "202"}
    BY <2>1, <2>2
  <2>5. QED
    BY <1>2, <2>3, <2>4
<1>3. QED
  BY <1>1, <1>2

LEMMA RequestsFacts ==
  ASSUME Runs, NEW p \in Proc, NEW request \in Requests(p)
  PROVE  /\ request \in Dids /\ request[2] \in Dirs \cup {Elsewhere}
         /\ Understood(p) => request = conn[p].asked
<1>1. CASE Understood(p)
  <2>1. request = conn[p].asked
    BY <1>1 DEF Requests
  <2>2. request \in Asked /\ request # <<>>
    BY <1>1, <2>1 DEF Runs, ConnSet, Understood
  <2>3. QED
    BY <2>1, <2>2 DEF Asked, Dids
<1>2. CASE ~Understood(p)
  <2>1. request \in {"r", "d"} \X (Dirs \cup {Elsewhere})
    BY <1>2 DEF Requests
  <2>2. QED
    BY <1>2, <2>1 DEF Dids
<1>3. QED
  BY <1>1, <1>2

LEMMA AnswerFacts ==
  ASSUME Runs, NEW p \in Proc, Answer(p)
  PROVE  /\ Runs' /\ OthersKeep(p) /\ client' = client
         /\ conn[p].state = "line" /\ conn'[p].state = "answered"
         /\ conn'[p].open = conn[p].open /\ conn'[p].asked = conn[p].asked
         /\ conn'[p].sent = conn[p].sent /\ conn'[p].taken = conn[p].taken
         /\ conn'[p].code \in Codes
         /\ conn'[p].did \in Requests(p) /\ conn'[p].did[2] \in Dirs \cup {Elsewhere}
         /\ Understood(p) => conn'[p].did = conn[p].asked
         /\ registered \ {conn'[p].did[2]} = registered' \ {conn'[p].did[2]}
         /\ conn'[p].did[1] = "d" => conn'[p].did[2] \notin registered'
         /\ conn'[p].did[2] \in registered' =>
              conn'[p].did[2] \in registered \/ conn'[p].code \in {"200", "201", "202"}
<1> DEFINE Does(request, o) ==
             /\ conn' = [conn EXCEPT ![p].state = "answered", ![p].code = o.code,
                           ![p].did = request, ![p].read = NothingRead]
             /\ registered' = IF o.stays THEN registered \cup {request[2]}
                              ELSE registered \ {request[2]}
<1>1. PICK request \in Requests(p) : \E o \in Outcomes(request[1], request[2]) : Does(request, o)
  BY Zenon DEF Answer
<1>2. PICK o \in Outcomes(request[1], request[2]) : Does(request, o)
  BY <1>1
<1>3. /\ request \in Dids /\ request[2] \in Dirs \cup {Elsewhere}
      /\ Understood(p) => request = conn[p].asked
  BY RequestsFacts
<1>4. /\ o.code \in Codes
      /\ request[1] = "d" => ~o.stays
      /\ o.stays => request[2] \in registered \/ o.code \in {"200", "201", "202"}
  BY OutcomeFacts
<1>5. conn[p] \in ConnSet
  BY DEF Runs
<1>6. PICK r : r = [conn[p] EXCEPT !.state = "answered", !.code = o.code,
                      !.did = request, !.read = NothingRead]
  OBVIOUS
<1>7. /\ r \in ConnSet /\ r.state = "answered" /\ r.open = conn[p].open
      /\ r.asked = conn[p].asked /\ r.sent = conn[p].sent /\ r.taken = conn[p].taken
      /\ r.code = o.code /\ r.did = request
  BY <1>3, <1>4, <1>5, <1>6, NothingReadFacts DEF ConnSet
<1>8. conn' = [conn EXCEPT ![p] = r]
  BY <1>2, <1>6 DEF Runs
<1>9. /\ conn' \in [Proc -> ConnSet] /\ conn'[p] = r
      /\ \A q \in Proc : q # p => conn'[q] = conn[q]
  BY <1>7, <1>8, ConnChange
<1>10. client' = client /\ conn[p].state = "line"
  BY DEF Answer, clientVars
<1>11. Runs' /\ OthersKeep(p)
  BY <1>9, <1>10 DEF Runs, OthersKeep
<1>12. /\ registered \ {request[2]} = registered' \ {request[2]}
       /\ request[1] = "d" => request[2] \notin registered'
       /\ request[2] \in registered' =>
            request[2] \in registered \/ o.code \in {"200", "201", "202"}
  BY <1>2, <1>4
<1>13. /\ conn'[p].state = "answered" /\ conn'[p].open = conn[p].open
       /\ conn'[p].asked = conn[p].asked /\ conn'[p].sent = conn[p].sent
       /\ conn'[p].taken = conn[p].taken /\ conn'[p].code = o.code /\ conn'[p].did = request
  BY <1>7, <1>9
<1>14. QED
  BY <1>2, <1>3, <1>4, <1>10, <1>11, <1>12, <1>13

LEMMA RefuseFacts ==
  ASSUME Runs, NEW p \in Proc, Refuse(p)
  PROVE  /\ Runs' /\ OthersKeep(p) /\ client' = client
         /\ conn[p].state = "line" /\ conn'[p].state = "answered"
         /\ conn'[p].open = conn[p].open /\ conn'[p].asked = conn[p].asked
         /\ conn'[p].sent = conn[p].sent /\ conn'[p].taken = conn[p].taken
         /\ conn'[p].code \in {"403", "404"}
         /\ Understood(p) => conn'[p].did = conn[p].asked
<1>1. PICK request \in Requests(p), code \in {"403", "404"} :
        conn' = [conn EXCEPT ![p].state = "answered", ![p].code = code,
                   ![p].did = request, ![p].read = NothingRead]
  BY DEF Refuse
<1>2. conn[p] \in ConnSet
  BY DEF Runs
<1>3. request \in Dids /\ (Understood(p) => request = conn[p].asked)
  BY RequestsFacts
<1>4. PICK r : r = [conn[p] EXCEPT !.state = "answered", !.code = code,
                      !.did = request, !.read = NothingRead]
  OBVIOUS
<1>5. /\ r \in ConnSet /\ r.state = "answered" /\ r.open = conn[p].open
      /\ r.asked = conn[p].asked /\ r.sent = conn[p].sent /\ r.taken = conn[p].taken
      /\ r.code = code /\ r.did = request
  BY <1>2, <1>3, <1>4, NothingReadFacts DEF ConnSet, Codes
<1>6. conn' = [conn EXCEPT ![p] = r]
  BY <1>1, <1>4 DEF Runs
<1>7. /\ conn' \in [Proc -> ConnSet] /\ conn'[p] = r
      /\ \A q \in Proc : q # p => conn'[q] = conn[q]
  BY <1>5, <1>6, ConnChange
<1>8. client' = client /\ conn[p].state = "line"
  BY DEF Refuse, clientVars
<1>9. Runs' /\ OthersKeep(p)
  BY <1>7, <1>8 DEF Runs, OthersKeep
<1>10. QED
  BY <1>3, <1>5, <1>7, <1>8, <1>9

LEMMA AnswerUnknownFacts ==
  ASSUME Runs, NEW p \in Proc, AnswerUnknown(p)
  PROVE  /\ Runs' /\ OthersKeep(p) /\ client' = client
         /\ conn[p].state = "line" /\ conn'[p].state = "answered" /\ ~Understood(p)
         /\ conn'[p].open = conn[p].open /\ conn'[p].asked = conn[p].asked
         /\ conn'[p].sent = conn[p].sent /\ conn'[p].taken = conn[p].taken
<1>1. PICK code \in {"300", "none"} :
        conn' = [conn EXCEPT ![p].state = "answered", ![p].code = code,
                   ![p].read = NothingRead]
  BY DEF AnswerUnknown
<1>2. conn[p] \in ConnSet
  BY DEF Runs
<1>3. PICK r : r = [conn[p] EXCEPT !.state = "answered", !.code = code, !.read = NothingRead]
  OBVIOUS
<1>4. /\ r \in ConnSet /\ r.state = "answered" /\ r.open = conn[p].open
      /\ r.asked = conn[p].asked /\ r.sent = conn[p].sent /\ r.taken = conn[p].taken
  BY <1>2, <1>3, NothingReadFacts DEF ConnSet, Codes
<1>5. conn' = [conn EXCEPT ![p] = r]
  BY <1>1, <1>3 DEF Runs
<1>6. /\ conn' \in [Proc -> ConnSet] /\ conn'[p] = r
      /\ \A q \in Proc : q # p => conn'[q] = conn[q]
  BY <1>4, <1>5, ConnChange
<1>7. client' = client /\ conn[p].state = "line" /\ ~Understood(p)
  BY DEF AnswerUnknown, clientVars
<1>8. Runs' /\ OthersKeep(p)
  BY <1>6, <1>7 DEF Runs, OthersKeep
<1>9. QED
  BY <1>4, <1>6, <1>7, <1>8

LEMMA HandlerOverFacts ==
  ASSUME Runs, NEW p \in Proc, HandlerOver(p)
  PROVE  /\ Runs' /\ OthersKeep(p) /\ client' = client
         /\ conn[p].state = "answered" /\ ~conn[p].open /\ conn'[p] = NoConnection
<1>1. /\ conn[p].state = "answered" /\ ~conn[p].open /\ client' = client
      /\ conn' = [conn EXCEPT ![p] = NoConnection]
  BY DEF HandlerOver, clientVars
<1>2. /\ conn' \in [Proc -> ConnSet] /\ conn'[p] = NoConnection
      /\ \A q \in Proc : q # p => conn'[q] = conn[q]
  BY <1>1, OffFacts, ConnChange
<1>3. QED
  BY <1>1, <1>2 DEF Runs, OthersKeep

LEMMA InterruptFacts ==
  ASSUME Runs, NEW p \in Proc, Interrupt(p)
  PROVE  /\ Runs' /\ OthersKeep(p) /\ Over(p) /\ client'[p] = Off /\ May("rude")
         /\ client[p].pc \in {"sending", "receiving", "spinning"}
         /\ conn'[p].state = conn[p].state /\ conn'[p].open = FALSE
         /\ conn'[p].asked = conn[p].asked /\ conn'[p].taken = conn[p].taken
         /\ conn'[p].sent = conn[p].sent /\ conn'[p].read = conn[p].read
         /\ conn'[p].did = conn[p].did /\ conn'[p].code = conn[p].code
<1>1. conn[p] \in ConnSet
  BY DEF Runs
<1>2. PICK r : r = [conn[p] EXCEPT !.open = FALSE]
  OBVIOUS
<1>3. /\ r \in ConnSet /\ r.state = conn[p].state /\ r.open = FALSE
      /\ r.asked = conn[p].asked /\ r.taken = conn[p].taken /\ r.sent = conn[p].sent
      /\ r.read = conn[p].read /\ r.did = conn[p].did /\ r.code = conn[p].code
  BY <1>1, <1>2 DEF ConnSet
<1>4. /\ Over(p) /\ May("rude") /\ client[p].pc \in {"sending", "receiving", "spinning"}
      /\ conn' = [conn EXCEPT ![p].open = FALSE]
  BY DEF Interrupt
<1>5. conn' = [conn EXCEPT ![p] = r]
  BY <1>2, <1>4
<1>6. /\ conn' \in [Proc -> ConnSet] /\ conn'[p] = r
      /\ \A q \in Proc : q # p => conn'[q] = conn[q]
  BY <1>3, <1>5, ConnChange
<1>7. Runs' /\ OthersKeep(p) /\ client'[p] = Off
  BY <1>4, <1>6, OverFacts DEF Runs, OthersKeep
<1>8. QED
  BY <1>3, <1>4, <1>6, <1>7

-----------------------------------------------------------------------------
(* What a run and its connection keep.                                     *)

Commanding == {"sending", "receiving", "spinning"}

\* Where the run is and what its connection is go together.
Connected(p) ==
  /\ client[p].pc \notin {"off", "options"} => client[p].choice # Exit
  /\ client[p].pc \in Commanding =>
       /\ conn[p].state # "none" /\ conn[p].open /\ client[p].choice.value \in Dirs
       /\ conn[p].asked = Wanted(p)
  /\ client[p].pc \in {"options", "settings", "ready", "waiting"} => conn[p].state = "none"
  /\ conn[p].state = "none" => conn[p] = NoConnection
  /\ conn[p].asked = <<>> => conn[p].sent = 0 /\ conn[p].taken = 0
  /\ conn[p].asked # <<>> => conn[p].taken <= conn[p].sent /\ conn[p].sent <= Length(p)

\* The handler of a request that came in one piece has read nothing of it, or all,
\* and what it was asked is what it does.
InOnePiece(p) ==
  ~May("pieces") /\ conn[p].asked # <<>> =>
    /\ conn[p].sent \in {0, Length(p)}
    /\ client[p].pc = "sending" => conn[p].sent = 0
    /\ client[p].pc \in {"receiving", "spinning"} => conn[p].sent = Length(p)
    /\ Length(p) <= BuffSize =>
       /\ client[p].pc = "sending" =>
            conn[p].state = "reading" /\ conn[p].taken = 0 /\ conn[p].read = NothingRead
       /\ conn[p].sent = Length(p) =>
          /\ conn[p].state = "reading" => conn[p].taken = 0 /\ conn[p].read = NothingRead
          /\ conn[p].state = "line" => Understood(p) /\ conn[p].taken = Length(p)
          /\ conn[p].state = "answered" =>
               conn[p].did = conn[p].asked /\ conn[p].taken = Length(p)

RunInv(p) == Connected(p) /\ InOnePiece(p)

LEMMA OthersInv ==
  ASSUME NEW p \in Proc, NEW q \in Proc, q # p, OthersKeep(p), UNCHANGED world, RunInv(q)
  PROVE  RunInv(q)'
<1>1. client'[q] = client[q] /\ conn'[q] = conn[q]
  BY DEF OthersKeep
<1>2. Length(q)' = Length(q) /\ Understood(q)' = Understood(q) /\ Wanted(q)' = Wanted(q)
  BY <1>1 DEF Length, Understood, Wanted
<1>3. Connected(q)'
  BY <1>1, <1>2 DEF RunInv, Connected
<1>4. InOnePiece(q)'
  BY <1>1, <1>2 DEF RunInv, InOnePiece, May
<1>5. QED
  BY <1>3, <1>4 DEF RunInv

\* A run that is over and has no connection.
LEMMA OffInv ==
  ASSUME NEW p \in Proc, client'[p] = Off, conn'[p] = NoConnection
  PROVE  RunInv(p)'
<1>1. /\ client'[p].pc = "off" /\ conn'[p].asked = <<>> /\ conn'[p].sent = 0
      /\ conn'[p].taken = 0
  BY OffFacts
<1>2. Connected(p)'
  BY <1>1 DEF Connected, Commanding
<1>3. InOnePiece(p)'
  BY <1>1 DEF InOnePiece
<1>4. QED
  BY <1>2, <1>3 DEF RunInv

LEMMA StartInv ==
  ASSUME Runs, NEW p \in Proc, RunInv(p), Start(p), UNCHANGED world
  PROVE  Runs' /\ OthersKeep(p) /\ RunInv(p)'
<1>1. /\ Runs' /\ OthersKeep(p) /\ conn' = conn
      /\ conn[p].state = "none" /\ client'[p].pc = "options"
  BY StartFacts
<1>2. conn'[p] = NoConnection
  BY <1>1 DEF RunInv, Connected
<1>3. conn'[p].asked = <<>> /\ conn'[p].sent = 0 /\ conn'[p].taken = 0
  BY <1>2, OffFacts
<1>4. Connected(p)'
  BY <1>1, <1>2, <1>3 DEF Connected, Commanding
<1>5. InOnePiece(p)'
  BY <1>3 DEF InOnePiece
<1>6. QED
  BY <1>1, <1>4, <1>5 DEF RunInv

LEMMA ExitOnOptionsInv ==
  ASSUME Runs, NEW p \in Proc, RunInv(p), ExitOnOptions(p), UNCHANGED world
  PROVE  Runs' /\ OthersKeep(p) /\ RunInv(p)'
<1>1. Over(p) /\ conn' = conn /\ client[p].pc = "options"
  BY DEF ExitOnOptions
<1>2. Runs' /\ OthersKeep(p) /\ client'[p] = Off
  BY <1>1, OverAlone
<1>3. conn'[p] = NoConnection
  BY <1>1 DEF RunInv, Connected
<1>4. QED
  BY <1>2, <1>3, OffInv

LEMMA ExitOnSettingsInv ==
  ASSUME Runs, NEW p \in Proc, RunInv(p), ExitOnSettings(p), UNCHANGED world
  PROVE  Runs' /\ OthersKeep(p) /\ RunInv(p)'
<1>1. Over(p) /\ conn' = conn /\ client[p].pc = "settings"
  BY DEF ExitOnSettings
<1>2. Runs' /\ OthersKeep(p) /\ client'[p] = Off
  BY <1>1, OverAlone
<1>3. conn'[p] = NoConnection
  BY <1>1 DEF RunInv, Connected
<1>4. QED
  BY <1>2, <1>3, OffInv

LEMMA KeyInv ==
  ASSUME Runs, NEW p \in Proc, RunInv(p), Key(p), UNCHANGED world
  PROVE  Runs' /\ OthersKeep(p) /\ RunInv(p)'
<1>1. Over(p) /\ conn' = conn /\ client[p].pc = "waiting"
  BY DEF Key
<1>2. Runs' /\ OthersKeep(p) /\ client'[p] = Off
  BY <1>1, OverAlone
<1>3. conn'[p] = NoConnection
  BY <1>1 DEF RunInv, Connected
<1>4. QED
  BY <1>2, <1>3, OffInv

LEMMA LoadInv ==
  ASSUME Runs, NEW p \in Proc, RunInv(p), LoadSettings(p), UNCHANGED world
  PROVE  Runs' /\ OthersKeep(p) /\ RunInv(p)'
<1>1. Runs' /\ OthersKeep(p) /\ conn' = conn /\ client[p].pc = "options"
  BY LoadFacts
<1>2. conn'[p] = NoConnection
  BY <1>1 DEF RunInv, Connected
<1>3. GoesTo(p, "settings") /\ client[p].choice # Exit
  BY LoadFacts
<1>4. QED
  <2>1. conn'[p].asked = <<>> /\ conn'[p].sent = 0 /\ conn'[p].taken = 0
        /\ conn'[p].state = "none"
    BY <1>2, OffFacts
  <2>2. client'[p].pc = "settings" /\ client'[p].choice # Exit
    BY <1>1, <1>3 DEF GoesTo, RunInv, Connected
  <2>3. Connected(p)'
    BY <1>2, <2>1, <2>2 DEF Connected, Commanding
  <2>4. InOnePiece(p)'
    BY <2>1 DEF InOnePiece
  <2>5. QED
    BY <1>1, <2>3, <2>4 DEF RunInv

LEMMA OpenInv ==
  ASSUME Runs, NEW p \in Proc, RunInv(p), OpenPort(p), UNCHANGED world
  PROVE  Runs' /\ OthersKeep(p) /\ RunInv(p)'
<1>1. Runs' /\ OthersKeep(p) /\ conn' = conn /\ client[p].pc = "settings"
  BY OpenFacts
<1>2. conn'[p] = NoConnection
  BY <1>1 DEF RunInv, Connected
<1>3. CASE client'[p] = Off
  BY <1>1, <1>2, <1>3, OffInv
<1>4. CASE GoesTo(p, "ready")
  <2>1. conn'[p].asked = <<>> /\ conn'[p].sent = 0 /\ conn'[p].taken = 0
        /\ conn'[p].state = "none"
    BY <1>2, OffFacts
  <2>2. client'[p].pc = "ready" /\ client'[p].choice # Exit
    BY <1>1, <1>4 DEF GoesTo, RunInv, Connected
  <2>3. Connected(p)'
    BY <1>2, <2>1, <2>2 DEF Connected, Commanding
  <2>4. InOnePiece(p)'
    BY <2>1 DEF InOnePiece
  <2>5. QED
    BY <1>1, <2>3, <2>4 DEF RunInv
<1>5. QED
  BY <1>3, <1>4, OpenFacts

LEMMA NothingInv ==
  ASSUME Runs, NEW p \in Proc, RunInv(p), NothingToDo(p), UNCHANGED world
  PROVE  Runs' /\ OthersKeep(p) /\ RunInv(p)'
<1>1. Runs' /\ OthersKeep(p) /\ conn' = conn /\ client[p].pc = "ready"
  BY NothingFacts
<1>2. conn'[p] = NoConnection
  BY <1>1 DEF RunInv, Connected
<1>3. CASE client'[p] = Off
  BY <1>1, <1>2, <1>3, OffInv
<1>4. CASE GoesTo(p, "waiting")
  <2>1. conn'[p].asked = <<>> /\ conn'[p].sent = 0 /\ conn'[p].taken = 0
        /\ conn'[p].state = "none"
    BY <1>2, OffFacts
  <2>2. client'[p].pc = "waiting" /\ client'[p].choice # Exit
    BY <1>1, <1>4 DEF GoesTo, RunInv, Connected
  <2>3. Connected(p)'
    BY <1>2, <2>1, <2>2 DEF Connected, Commanding
  <2>4. InOnePiece(p)'
    BY <2>1 DEF InOnePiece
  <2>5. QED
    BY <1>1, <2>3, <2>4 DEF RunInv
<1>5. QED
  BY <1>3, <1>4, NothingFacts

LEMMA ConnectInv ==
  ASSUME Runs, NEW p \in Proc, RunInv(p), Connect(p), UNCHANGED world
  PROVE  Runs' /\ OthersKeep(p) /\ RunInv(p)'
<1>1. client[p].choice # Exit /\ conn[p] = NoConnection
  BY DEF RunInv, Connected, Connect
<1>2. Runs' /\ OthersKeep(p)
  BY <1>1, ConnectFacts
<1>3. CASE client'[p] = Off /\ conn' = conn
  <2>1. conn'[p] = NoConnection
    BY <1>1, <1>3
  <2>2. QED
    BY <1>2, <1>3, <2>1, OffInv
<1>4. CASE client'[p] = Off /\ conn'[p] = NewConnection(<<>>)
  <2>1. <<>> \in Asked
    BY DEF Asked
  <2>2. /\ conn'[p].state = "reading" /\ conn'[p].asked = <<>> /\ conn'[p].sent = 0
        /\ conn'[p].taken = 0
    BY <1>4, <2>1, NewFacts
  <2>3. client'[p].pc = "off"
    BY <1>4, OffFacts
  <2>4. Connected(p)'
    BY <2>2, <2>3 DEF Connected, Commanding
  <2>5. InOnePiece(p)'
    BY <2>2 DEF InOnePiece
  <2>6. QED
    BY <1>2, <2>4, <2>5 DEF RunInv
<1>5. CASE /\ GoesTo(p, "sending") /\ conn'[p] = NewConnection(Wanted(p))
           /\ Wanted(p) \in Asked /\ Wanted(p) # <<>> /\ client[p].choice.value \in Dirs
  <2>1. /\ conn'[p].state = "reading" /\ conn'[p].asked = Wanted(p) /\ conn'[p].sent = 0
        /\ conn'[p].taken = 0 /\ conn'[p].read = NothingRead /\ conn'[p].open
    <3>1. PICK r : r = Wanted(p) /\ r \in Asked /\ r # <<>> /\ conn'[p] = NewConnection(r)
      BY <1>5
    <3>2. PICK c : c = NewConnection(r)
      OBVIOUS
    <3>3. /\ c.state = "reading" /\ c.asked = r /\ c.sent = 0 /\ c.taken = 0
          /\ c.read = NothingRead /\ c.open = (r # <<>>)
      BY <3>1, <3>2, NewFacts, Zenon
    <3>4. QED
      BY <3>1, <3>2, <3>3
  <2>2. client'[p].pc = "sending" /\ client'[p].choice = client[p].choice
    BY <1>5 DEF GoesTo
  <2>3. Wanted(p)' = Wanted(p)
    BY <2>2 DEF Wanted
  <2>4. conn'[p].asked # <<>>
    BY <1>5, <2>1
  <2>5. Length(p)' \in Nat /\ Length(p)' >= 3
    <3>1. conn'[p].asked[2] \in Dirs
      BY <1>5, <2>1 DEF Asked
    <3>2. TextLen[conn'[p].asked[2]] \in Nat \ {0}
      BY <3>1, RequestsHaveText
    <3>3. PICK t \in Nat \ {0} : t = TextLen[conn'[p].asked[2]]
      BY <3>2
    <3>4. Length(p)' = t + 2
      BY <3>3 DEF Length
    <3>5. QED
      BY <3>4
  <2>6. Connected(p)'
    <3>1. conn'[p].taken <= conn'[p].sent /\ conn'[p].sent <= Length(p)'
      BY <2>1, <2>5
    <3>2. QED
      BY <1>1, <1>5, <2>1, <2>2, <2>3, <2>4, <3>1 DEF Connected, Commanding
  <2>7. InOnePiece(p)'
    <3>1. conn'[p].sent # Length(p)'
      BY <2>1, <2>5
    <3>2. QED
      BY <2>1, <2>2, <3>1 DEF InOnePiece
  <2>8. QED
    BY <1>2, <2>6, <2>7 DEF RunInv
<1>6. QED
  BY <1>1, <1>3, <1>4, <1>5, ConnectFacts

LEMMA SendInv ==
  ASSUME Runs, NEW p \in Proc, RunInv(p), Send(p), UNCHANGED world
  PROVE  Runs' /\ OthersKeep(p) /\ RunInv(p)'
<1>1. /\ conn[p].asked = Wanted(p) /\ conn[p].open /\ client[p].choice.value \in Dirs
      /\ conn[p].state # "none" /\ client[p].choice # Exit /\ client[p].pc = "sending"
  BY DEF RunInv, Connected, Commanding, Send
<1>2. conn[p].asked # <<>>
  BY <1>1 DEF Wanted
<1>3. /\ Runs' /\ OthersKeep(p)
      /\ GoesTo(p, "sending") \/ GoesTo(p, "receiving")
      /\ client'[p].pc = "receiving" <=> conn'[p].sent = Length(p)
      /\ conn'[p].sent \in (conn[p].sent + 1)..Length(p)
      /\ ~May("pieces") => conn'[p].sent = Length(p)
  BY <1>2, SendFacts
<1>4. /\ conn'[p].state = conn[p].state /\ conn'[p].open = conn[p].open
      /\ conn'[p].asked = conn[p].asked /\ conn'[p].taken = conn[p].taken
      /\ conn'[p].read = conn[p].read
  BY <1>2, SendFacts
<1>5. client'[p].choice = client[p].choice /\ client'[p].pc \in {"sending", "receiving"}
  BY <1>3 DEF GoesTo
<1>6. Length(p)' = Length(p) /\ Wanted(p)' = Wanted(p)
  BY <1>4, <1>5 DEF Length, Wanted
<1>7. Connected(p)'
  <2>1. conn[p].taken <= conn[p].sent
    BY <1>2 DEF RunInv, Connected
  <2>2. conn[p].taken \in Nat /\ conn[p].sent \in Nat /\ Length(p) \in Nat
    BY <1>2, LengthFacts DEF Runs, ConnSet
  <2>3. conn'[p].taken <= conn'[p].sent /\ conn'[p].sent <= Length(p)'
    BY <1>3, <1>4, <1>6, <2>1, <2>2
  <2>4. QED
    BY <1>1, <1>2, <1>4, <1>5, <1>6, <2>3 DEF Connected, Commanding
<1>8. InOnePiece(p)'
  <2>1. SUFFICES ASSUME ~May("pieces") PROVE InOnePiece(p)'
    BY DEF InOnePiece, May
  <2>2. client'[p].pc = "receiving" /\ conn'[p].sent = Length(p)
    BY <1>3, <2>1
  <2>3. Length(p) <= BuffSize =>
          conn'[p].state = "reading" /\ conn'[p].taken = 0 /\ conn'[p].read = NothingRead
    BY <1>1, <1>2, <1>4, <2>1 DEF RunInv, InOnePiece
  <2>4. QED
    BY <1>6, <2>2, <2>3 DEF InOnePiece
<1>9. QED
  BY <1>3, <1>7, <1>8 DEF RunInv

LEMMA ReceiveAnswerInv ==
  ASSUME Runs, NEW p \in Proc, RunInv(p), ReceiveAnswer(p), UNCHANGED world
  PROVE  Runs' /\ OthersKeep(p) /\ RunInv(p)'
<1>1. /\ Runs' /\ OthersKeep(p) /\ client' = client /\ client[p].pc = "receiving"
      /\ conn[p].state = "answered" /\ conn'[p].state = conn[p].state
      /\ conn'[p].open = conn[p].open /\ conn'[p].asked = conn[p].asked
      /\ conn'[p].taken = conn[p].taken /\ conn'[p].sent = conn[p].sent
      /\ conn'[p].did = conn[p].did
  BY ReceiveAnswerFacts
<1>2. Length(p)' = Length(p) /\ Wanted(p)' = Wanted(p)
  BY <1>1 DEF Length, Wanted
<1>3. Connected(p)'
  BY <1>1, <1>2 DEF RunInv, Connected
<1>4. InOnePiece(p)'
  BY <1>1, <1>2 DEF RunInv, InOnePiece, May
<1>5. QED
  BY <1>1, <1>3, <1>4 DEF RunInv

LEMMA ResetInv ==
  ASSUME Runs, NEW p \in Proc, RunInv(p), Reset(p), UNCHANGED world
  PROVE  Runs' /\ OthersKeep(p) /\ RunInv(p)'
BY ResetFacts, OffInv

LEMMA SpinInv ==
  ASSUME Runs, NEW p \in Proc, RunInv(p), Spin(p), UNCHANGED world
  PROVE  Runs' /\ OthersKeep(p) /\ RunInv(p)'
<1>1. /\ Runs' /\ OthersKeep(p) /\ GoesTo(p, "spinning") /\ conn' = conn
      /\ client[p].pc = "receiving"
  BY SpinFacts
<1>2. client'[p].pc = "spinning" /\ client'[p].choice = client[p].choice
  BY <1>1 DEF GoesTo
<1>3. Length(p)' = Length(p) /\ Wanted(p)' = Wanted(p) /\ Understood(p)' = Understood(p)
  BY <1>1, <1>2 DEF Length, Wanted, Understood
<1>4. Connected(p)'
  BY <1>1, <1>2, <1>3 DEF RunInv, Connected, Commanding
<1>5. InOnePiece(p)'
  BY <1>1, <1>2, <1>3 DEF RunInv, InOnePiece, May
<1>6. QED
  BY <1>1, <1>4, <1>5 DEF RunInv

LEMMA FinishInv ==
  ASSUME Runs, NEW p \in Proc, RunInv(p), Finish(p), UNCHANGED world
  PROVE  Runs' /\ OthersKeep(p) /\ RunInv(p)'
<1>1. Runs' /\ OthersKeep(p) /\ conn'[p] = NoConnection /\ client[p].pc = "receiving"
  BY FinishFacts
<1>2. CASE client'[p] = Off
  BY <1>1, <1>2, OffInv
<1>3. CASE GoesTo(p, "waiting")
  <2>1. conn'[p].asked = <<>> /\ conn'[p].sent = 0 /\ conn'[p].taken = 0
        /\ conn'[p].state = "none"
    BY <1>1, OffFacts
  <2>2. client'[p].pc = "waiting" /\ client'[p].choice # Exit
    BY <1>1, <1>3 DEF GoesTo, RunInv, Connected
  <2>3. Connected(p)'
    BY <1>1, <2>1, <2>2 DEF Connected, Commanding
  <2>4. InOnePiece(p)'
    BY <2>1 DEF InOnePiece
  <2>5. QED
    BY <1>1, <2>3, <2>4 DEF RunInv
<1>4. QED
  BY <1>2, <1>3, FinishFacts

LEMMA ReceiveInv ==
  ASSUME Runs, NEW p \in Proc, RunInv(p), Receive(p), UNCHANGED world
  PROVE  Runs' /\ OthersKeep(p) /\ RunInv(p)'
<1>1. conn[p].asked # <<>> /\ conn[p].taken <= conn[p].sent /\ conn[p].sent <= Length(p)
  <2>1. ~(conn[p].sent = 0 /\ conn[p].taken = 0)
    BY DEF Receive
  <2>2. QED
    BY <2>1 DEF RunInv, Connected
<1>2. /\ Runs' /\ OthersKeep(p) /\ client' = client
      /\ conn[p].state = "reading" /\ conn'[p].state \in {"reading", "line"}
      /\ conn'[p].open = conn[p].open /\ conn'[p].asked = conn[p].asked
      /\ conn'[p].sent = conn[p].sent /\ conn'[p].taken <= conn[p].sent
  BY <1>1, ReceiveFacts
<1>3. /\ ~May("pieces") /\ Length(p) <= BuffSize /\ conn[p].sent = Length(p)
      /\ conn[p].taken = 0 /\ conn[p].read = NothingRead
      => /\ conn'[p].state = "line" /\ conn'[p].taken = Length(p)
         /\ conn'[p].read.string = Line(TextLen[conn[p].asked[2]])
  BY <1>1, ReceiveFacts
<1>4. Length(p)' = Length(p) /\ Wanted(p)' = Wanted(p)
  BY <1>2 DEF Length, Wanted
<1>5. Connected(p)'
  BY <1>1, <1>2, <1>4 DEF RunInv, Connected
<1>6. InOnePiece(p)'
  <2>1. SUFFICES ASSUME ~May("pieces") PROVE InOnePiece(p)'
    BY DEF InOnePiece, May
  <2>2. conn[p].sent # 0
    <3>1. conn[p].taken < conn[p].sent /\ conn[p].taken \in Nat /\ conn[p].sent \in Nat
      BY DEF Receive, Runs, ConnSet
    <3>2. QED
      BY <3>1
  <2>3. conn[p].sent = Length(p) /\ client[p].pc # "sending"
    BY <1>1, <2>1, <2>2 DEF RunInv, InOnePiece
  <2>4. Length(p) <= BuffSize => conn[p].taken = 0 /\ conn[p].read = NothingRead
    BY <1>1, <1>2, <2>1, <2>3 DEF RunInv, InOnePiece
  <2>5. Length(p) <= BuffSize =>
          /\ conn'[p].state = "line" /\ conn'[p].taken = Length(p)
          /\ conn'[p].read.string = Line(TextLen[conn[p].asked[2]])
    BY <1>3, <2>1, <2>3, <2>4
  <2>6. Length(p) <= BuffSize => Understood(p)'
    BY <1>1, <1>2, <2>5 DEF Understood
  <2>7. QED
    BY <1>2, <1>4, <2>3, <2>5, <2>6 DEF InOnePiece
<1>7. QED
  BY <1>2, <1>5, <1>6 DEF RunInv

LEMMA ReceiveNothingInv ==
  ASSUME Runs, NEW p \in Proc, RunInv(p), ReceiveNothing(p), UNCHANGED world
  PROVE  Runs' /\ OthersKeep(p) /\ RunInv(p)'
<1>1. /\ Runs' /\ OthersKeep(p) /\ client' = client
      /\ conn[p].state = "reading" /\ ~conn[p].open /\ conn[p].taken = conn[p].sent
  BY ReceiveNothingFacts
<1>2. CASE conn' = conn
  <2>1. Length(p)' = Length(p) /\ Wanted(p)' = Wanted(p) /\ Understood(p)' = Understood(p)
    BY <1>1, <1>2 DEF Length, Wanted, Understood
  <2>2. Connected(p)'
    BY <1>1, <1>2, <2>1 DEF RunInv, Connected
  <2>3. InOnePiece(p)'
    BY <1>1, <1>2, <2>1 DEF RunInv, InOnePiece, May
  <2>4. QED
    BY <1>1, <2>2, <2>3 DEF RunInv
<1>3. CASE /\ conn'[p].state = "line" /\ conn'[p].open = conn[p].open
           /\ conn'[p].asked = conn[p].asked /\ conn'[p].sent = conn[p].sent
           /\ conn'[p].taken = conn[p].taken
  <2>1. Length(p)' = Length(p) /\ Wanted(p)' = Wanted(p)
    BY <1>1, <1>3 DEF Length, Wanted
  <2>2. client[p].pc \notin Commanding \cup {"options", "settings", "ready", "waiting"}
    BY <1>1 DEF RunInv, Connected
  <2>3. Connected(p)'
    BY <1>1, <1>3, <2>1, <2>2 DEF RunInv, Connected
  <2>4. InOnePiece(p)'
    <3>1. SUFFICES ASSUME ~May("pieces"), conn[p].asked # <<>> PROVE InOnePiece(p)'
      BY <1>3 DEF InOnePiece, May
    <3>2. Length(p) # 0
      <4>1. Length(p) \in Nat /\ Length(p) >= 3
        BY <3>1, LengthFacts
      <4>2. QED
        BY <4>1
    <3>3. conn[p].sent = Length(p) /\ Length(p) <= BuffSize => FALSE
      BY <1>1, <3>1, <3>2 DEF RunInv, InOnePiece
    <3>4. conn[p].sent \in {0, Length(p)}
      BY <3>1 DEF RunInv, InOnePiece
    <3>5. QED
      BY <1>1, <1>3, <2>1, <2>2, <3>3, <3>4 DEF InOnePiece, Commanding
  <2>5. QED
    BY <1>1, <2>3, <2>4 DEF RunInv
<1>4. QED
  BY <1>2, <1>3, ReceiveNothingFacts

LEMMA AnswerInv ==
  ASSUME Runs, NEW p \in Proc, RunInv(p), Answer(p), UNCHANGED world
  PROVE  Runs' /\ OthersKeep(p) /\ RunInv(p)'
<1>1. /\ Runs' /\ OthersKeep(p) /\ client' = client
      /\ conn[p].state = "line" /\ conn'[p].state = "answered"
      /\ conn'[p].open = conn[p].open /\ conn'[p].asked = conn[p].asked
      /\ conn'[p].sent = conn[p].sent /\ conn'[p].taken = conn[p].taken
  BY AnswerFacts
<1>2. Understood(p) => conn'[p].did = conn[p].asked
  BY AnswerFacts
<1>3. Length(p)' = Length(p) /\ Wanted(p)' = Wanted(p)
  BY <1>1 DEF Length, Wanted
<1>4. Connected(p)'
  BY <1>1, <1>3 DEF RunInv, Connected
<1>5. InOnePiece(p)'
  BY <1>1, <1>2, <1>3 DEF RunInv, InOnePiece, May
<1>6. QED
  BY <1>1, <1>4, <1>5 DEF RunInv

LEMMA RefuseInv ==
  ASSUME Runs, NEW p \in Proc, RunInv(p), Refuse(p), UNCHANGED world
  PROVE  Runs' /\ OthersKeep(p) /\ RunInv(p)'
<1>1. /\ Runs' /\ OthersKeep(p) /\ client' = client
      /\ conn[p].state = "line" /\ conn'[p].state = "answered"
      /\ conn'[p].open = conn[p].open /\ conn'[p].asked = conn[p].asked
      /\ conn'[p].sent = conn[p].sent /\ conn'[p].taken = conn[p].taken
  BY RefuseFacts
<1>2. Understood(p) => conn'[p].did = conn[p].asked
  BY RefuseFacts
<1>3. Length(p)' = Length(p) /\ Wanted(p)' = Wanted(p)
  BY <1>1 DEF Length, Wanted
<1>4. Connected(p)'
  BY <1>1, <1>3 DEF RunInv, Connected
<1>5. InOnePiece(p)'
  BY <1>1, <1>2, <1>3 DEF RunInv, InOnePiece, May
<1>6. QED
  BY <1>1, <1>4, <1>5 DEF RunInv

LEMMA AnswerUnknownInv ==
  ASSUME Runs, NEW p \in Proc, RunInv(p), AnswerUnknown(p), UNCHANGED world
  PROVE  Runs' /\ OthersKeep(p) /\ RunInv(p)'
<1>1. /\ Runs' /\ OthersKeep(p) /\ client' = client
      /\ conn[p].state = "line" /\ conn'[p].state = "answered"
      /\ conn'[p].open = conn[p].open /\ conn'[p].asked = conn[p].asked
      /\ conn'[p].sent = conn[p].sent /\ conn'[p].taken = conn[p].taken
  BY AnswerUnknownFacts
<1>2. ~Understood(p)
  BY AnswerUnknownFacts
<1>3. Length(p)' = Length(p) /\ Wanted(p)' = Wanted(p)
  BY <1>1 DEF Length, Wanted
<1>4. Connected(p)'
  BY <1>1, <1>3 DEF RunInv, Connected
<1>5. InOnePiece(p)'
  BY <1>1, <1>2, <1>3 DEF RunInv, InOnePiece, May
<1>6. QED
  BY <1>1, <1>4, <1>5 DEF RunInv

LEMMA HandlerOverInv ==
  ASSUME Runs, NEW p \in Proc, RunInv(p), HandlerOver(p), UNCHANGED world
  PROVE  Runs' /\ OthersKeep(p) /\ RunInv(p)'
<1>1. /\ Runs' /\ OthersKeep(p) /\ client' = client
      /\ conn[p].state = "answered" /\ ~conn[p].open /\ conn'[p] = NoConnection
  BY HandlerOverFacts
<1>2. client'[p].pc \notin Commanding \cup {"options", "settings", "ready", "waiting"}
  BY <1>1 DEF RunInv, Connected
<1>3. conn'[p].asked = <<>> /\ conn'[p].sent = 0 /\ conn'[p].taken = 0
  BY <1>1, OffFacts
<1>4. Connected(p)'
  BY <1>1, <1>2, <1>3 DEF RunInv, Connected
<1>5. InOnePiece(p)'
  BY <1>3 DEF InOnePiece
<1>6. QED
  BY <1>1, <1>4, <1>5 DEF RunInv

LEMMA InterruptInv ==
  ASSUME Runs, NEW p \in Proc, RunInv(p), Interrupt(p), UNCHANGED world
  PROVE  Runs' /\ OthersKeep(p) /\ RunInv(p)'
<1>1. /\ Runs' /\ OthersKeep(p) /\ client'[p] = Off
      /\ client[p].pc \in Commanding
      /\ conn'[p].state = conn[p].state /\ conn'[p].open = FALSE
      /\ conn'[p].asked = conn[p].asked /\ conn'[p].taken = conn[p].taken
      /\ conn'[p].sent = conn[p].sent /\ conn'[p].read = conn[p].read
      /\ conn'[p].did = conn[p].did
  BY InterruptFacts DEF Commanding
<1>2. client'[p].pc = "off" /\ conn[p].state # "none"
  BY <1>1, OffFacts DEF RunInv, Connected
<1>3. Length(p)' = Length(p) /\ Understood(p)' = Understood(p)
  BY <1>1 DEF Length, Understood
<1>4. Connected(p)'
  BY <1>1, <1>2, <1>3 DEF RunInv, Connected, Commanding
<1>5. InOnePiece(p)'
  BY <1>1, <1>2, <1>3 DEF RunInv, InOnePiece, May
<1>6. QED
  BY <1>1, <1>4, <1>5 DEF RunInv

-----------------------------------------------------------------------------
(* The rest: the server, and the updates on their way.                     *)

Rest ==
  /\ world \in Worlds
  /\ port \in Proc \cup {None}
  /\ mine \subseteq Dirs /\ registered \subseteq Dirs \cup {Elsewhere}
  /\ refused \in BOOLEAN /\ ended \in {"no", "own", "refused"}
  /\ left \in [runs : 0..world.runs, notes : 0..world.notes, faults : 0..1]

\* What the thread has not printed is part of a text that is too long.
Heard ==
  /\ hearing \in [text : Seq(Chars), state : 0..4] /\ Unfinished(hearing)
  /\ updates \in Seq(AllBodies) /\ net \in Seq(Texts)
  /\ hearing # EmptyUpdate => May("long")
  /\ ~May("long") =>
       /\ updates \in Seq(ShortBodies) /\ net \in Seq({Text(b) : b \in ShortBodies})
       /\ shown \in {<<>>} \cup {Text(b) : b \in ShortBodies}

LEMMA ShortFacts ==
  ASSUME NEW b \in ShortBodies
  PROVE  b \in AllBodies /\ Len(Text(b)) <= UdpSize
<1>1. b \in AllBodies
  BY DEF AllBodies
<1>2. CASE b \in Bodies
  BY <1>1, <1>2, BodiesFit
<1>3. CASE \E d \in Dirs \cup {Elsewhere} : b = GoneBody(d)
  <2>1. PICK d \in Dirs \cup {Elsewhere} : b = GoneBody(d)
    BY <1>3
  <2>2. Len(Text(GoneBody(d))) = 7 /\ 7 <= UdpSize
    BY GoneFacts
  <2>3. QED
    BY <1>1, <2>1, <2>2
<1>4. QED
  BY <1>2, <1>3 DEF ShortBodies

\* Nothing is on its way, or heard, where nothing is.
LEMMA EmptyFacts ==
  /\ EmptyUpdate \in [text : Seq(Chars), state : 0..4] /\ Unfinished(EmptyUpdate)
  /\ \A S : <<>> \in Seq(S)
BY DEF EmptyUpdate, Unfinished

LEMMA SeqSubset ==
  ASSUME NEW S, NEW T, S \subseteq T, NEW s \in Seq(S)
  PROVE  s \in Seq(T)
OBVIOUS

LEMMA RemoveAtFacts ==
  ASSUME NEW S, NEW s \in Seq(S), NEW i \in DOMAIN s
  PROVE  RemoveAt(s, i) \in Seq(S) /\ s[i] \in S
<1>1. PICK n \in Nat : n = Len(s) /\ DOMAIN s = 1..n
  OBVIOUS
<1>2. i \in 1..n /\ i \in Nat
  BY <1>1
<1>3. PICK a : a = SubSeq(s, 1, i - 1)
  OBVIOUS
<1>4. PICK b : b = SubSeq(s, i + 1, n)
  OBVIOUS
<1>5. a \in Seq(S)
  <2>1. \A k \in 1..(i - 1) : k \in 1..n
    BY <1>2
  <2>2. \A k \in 1..n : s[k] \in S
    BY <1>1
  <2>3. i - 1 \in Nat /\ a = [k \in 1..(i - 1) |-> s[k]]
    BY <1>1, <1>2, <1>3
  <2>4. a \in [1..(i - 1) -> S]
    BY <2>1, <2>2, <2>3
  <2>5. QED
    BY <2>3, <2>4
<1>6. b \in Seq(S)
  <2>1. n - i \in Nat /\ \A k \in 1..(n - i) : i + k \in 1..n
    BY <1>2
  <2>2. \A k \in 1..n : s[k] \in S
    BY <1>1
  <2>3. b = [k \in 1..(n - i) |-> s[i + k]]
    BY <1>1, <1>2, <1>4
  <2>4. b \in [1..(n - i) -> S]
    BY <2>1, <2>2, <2>3
  <2>5. PICK k \in Nat : k = n - i
    BY <2>1
  <2>6. b \in [1..k -> S]
    BY <2>4, <2>5
  <2>7. QED
    BY <2>6
<1>7. RemoveAt(s, i) = a \o b
  BY <1>1, <1>3, <1>4 DEF RemoveAt
<1>8. a \o b \in Seq(S)
  BY <1>5, <1>6
<1>9. QED
  BY <1>1, <1>2, <1>7, <1>8

LEMMA OverHeard ==
  ASSUME Heard, NEW p \in Proc, Over(p), UNCHANGED <<world, shown, updates>>
  PROVE  Heard'
<1>1. hearing' = EmptyUpdate \/ hearing' = hearing
  BY DEF Over
<1>2. net' = <<>> \/ net' = net
  BY DEF Over
<1>3. /\ hearing' \in [text : Seq(Chars), state : 0..4] /\ Unfinished(hearing')
      /\ hearing' # EmptyUpdate => May("long")
  BY <1>1, EmptyFacts DEF Heard
<1>4. /\ net' \in Seq(Texts)
      /\ ~May("long") => net' \in Seq({Text(b) : b \in ShortBodies})
  <2>1. CASE net' = <<>>
    BY <2>1, EmptyFacts
  <2>2. CASE net' = net
    BY <2>2 DEF Heard
  <2>3. QED
    BY <1>2, <2>1, <2>2
<1>5. QED
  BY <1>3, <1>4 DEF Heard, May

LEMMA OverRest ==
  ASSUME Rest, NEW p \in Proc, Over(p), UNCHANGED <<world, mine, serverVars, left>>
  PROVE  Rest'
BY DEF Rest, Over, serverVars

LEMMA HeardKept ==
  ASSUME Heard, UNCHANGED <<world, hearing, shown, updates, net>>
  PROVE  Heard'
BY DEF Heard, May

LEMMA RestKept ==
  ASSUME Rest, UNCHANGED <<world, port, mine, serverVars, left>>
  PROVE  Rest'
BY DEF Rest, serverVars

LEMMA StartRest ==
  ASSUME Rest, NEW p \in Proc, Start(p)
  PROVE  Rest'
<1>1. /\ left' = [left EXCEPT !.runs = @ - 1] /\ left.runs > 0
      /\ UNCHANGED <<world, port, mine, serverVars>>
  BY DEF Start
<1>2. world.runs \in Nat
  BY SomeBounds DEF Rest
<1>3. left' \in [runs : 0..world.runs, notes : 0..world.notes, faults : 0..1]
  BY <1>1, <1>2 DEF Rest
<1>4. QED
  BY <1>1, <1>3 DEF Rest, serverVars

\* What the monitor puts in the queue: short texts, or long ones too; at the end
\* perhaps that a directory was deleted.
LEMMA QueueFacts ==
  ASSUME Rest, Queue
  PROVE  \E n \in 1..2, d \in registered \cup {None} :
           /\ n <= left.notes /\ left' = [left EXCEPT !.notes = @ - n]
           /\ registered' = registered \ {d}
           /\ \E bodies \in [1..n -> Bodies \cup IF May("long") THEN LongBodies ELSE {}] :
                updates' = IF d = None THEN bodies
                           ELSE Append(Front(bodies), GoneBody(d))
BY DEF Queue

LEMMA QueuedFacts ==
  ASSUME NEW n \in 1..2, NEW B, NEW bodies \in [1..n -> B], NEW d
  PROVE  /\ bodies \in Seq(B) /\ bodies # <<>>
         /\ Front(bodies) \in Seq(B)
         /\ Append(Front(bodies), GoneBody(d)) \in Seq(B \cup {GoneBody(d)})
         /\ Append(Front(bodies), GoneBody(d)) # <<>>
<1>1. bodies \in Seq(B) /\ Len(bodies) = n
  OBVIOUS
<1>2. bodies # <<>>
  BY <1>1
<1>3. PICK f : f = Front(bodies)
  OBVIOUS
<1>4. f \in Seq(B)
  BY <1>1, <1>2, <1>3, FrontIsPrefix
<1>5. PICK g : g = GoneBody(d)
  OBVIOUS
<1>6. f \in Seq(B \cup {g})
  BY <1>4
<1>7. Append(f, g) \in Seq(B \cup {g}) /\ Append(f, g) # <<>>
  <2>1. g \in B \cup {g}
    OBVIOUS
  <2>2. PICK T : T = B \cup {g}
    OBVIOUS
  <2>3. f \in Seq(T) /\ g \in T
    BY <1>6, <2>1, <2>2
  <2>4. Append(f, g) \in Seq(T) /\ Len(Append(f, g)) = Len(f) + 1 /\ Len(f) \in Nat
    BY <2>3
  <2>5. QED
    BY <2>2, <2>4
<1>8. QED
  BY <1>1, <1>2, <1>3, <1>4, <1>5, <1>7

LEMMA QueueData ==
  ASSUME Rest, Heard, Queue
  PROVE  Rest' /\ Heard'
<1>1. UNCHANGED <<world, client, port, hearing, shown, mine, conn, ended, net>> /\ refused' = FALSE
  BY DEF Queue, clientVars
<1> DEFINE B == Bodies \cup IF May("long") THEN LongBodies ELSE {}
<1>2. PICK n \in 1..2, d \in registered \cup {None} :
        /\ n <= left.notes /\ left' = [left EXCEPT !.notes = @ - n]
        /\ registered' = registered \ {d}
        /\ \E bodies \in [1..n -> B] :
             updates' = IF d = None THEN bodies ELSE Append(Front(bodies), GoneBody(d))
  BY QueueFacts
<1>3. PICK bodies \in [1..n -> B] :
        updates' = IF d = None THEN bodies ELSE Append(Front(bodies), GoneBody(d))
  BY <1>2
<1>4. Rest'
  <2>1. world.notes \in Nat /\ n \in Nat
    BY SomeBounds DEF Rest
  <2>2. left' \in [runs : 0..world.runs, notes : 0..world.notes, faults : 0..1]
    <3>1. left \in [runs : 0..world.runs, notes : 0..world.notes, faults : 0..1]
      BY DEF Rest
    <3>2. left.notes - n \in 0..world.notes
      BY <1>2, <2>1, <3>1
    <3>3. left' = [left EXCEPT !.notes = left.notes - n]
      BY <1>2
    <3>4. QED
      BY <3>1, <3>2, <3>3
  <2>3. QED
    BY <1>1, <1>2, <2>2 DEF Rest
<1>5. /\ B \subseteq AllBodies
      /\ ~May("long") => B \subseteq ShortBodies
  BY DEF AllBodies, ShortBodies
<1> HIDE DEF B
<1>6. updates' \in Seq(AllBodies) /\ (~May("long") => updates' \in Seq(ShortBodies))
  <2>1. CASE d = None
    <3>1. updates' \in Seq(B)
      BY <1>3, <2>1, QueuedFacts
    <3>2. QED
      BY <1>5, <3>1, SeqSubset
  <2>2. CASE d # None
    <3>1. d \in Dirs \cup {Elsewhere}
      BY <2>2 DEF Rest
    <3>2. GoneBody(d) \in ShortBodies /\ GoneBody(d) \in AllBodies
      BY <3>1 DEF AllBodies, ShortBodies
    <3>3. updates' = Append(Front(bodies), GoneBody(d))
      BY <1>3, <2>2
    <3>4. updates' \in Seq(B \cup {GoneBody(d)})
      BY <3>3, QueuedFacts
    <3>5. QED
      <4>1. /\ B \cup {GoneBody(d)} \subseteq AllBodies
            /\ ~May("long") => B \cup {GoneBody(d)} \subseteq ShortBodies
        BY <1>5, <3>2
      <4>2. QED
        BY <3>4, <4>1, SeqSubset
  <2>3. QED
    BY <2>1, <2>2
<1>7. Heard'
  BY <1>1, <1>6 DEF Heard, May
<1>8. QED
  BY <1>4, <1>7

LEMMA SendUpdateData ==
  ASSUME Rest, Heard, SendUpdate
  PROVE  Rest' /\ Heard'
<1>1. UNCHANGED <<world, port, hearing, shown, mine, registered>> /\ updates # <<>>
  BY DEF SendUpdate, clientVars
<1>2. CASE refused
  <2>1. UNCHANGED <<updates, refused, net, left>> /\ ended' = "refused"
    BY <1>2 DEF SendUpdate
  <2>2. QED
    BY <1>1, <2>1, HeardKept DEF Rest
<1>3. CASE ~refused
  <2>1. updates' = Tail(updates) /\ ended' = ended
    BY <1>3 DEF SendUpdate
  <2>2. /\ \/ net' = net
           \/ net' = Append(net, Text(Head(updates)))
        /\ left' = left \/ (left' = [left EXCEPT !.faults = @ - 1] /\ left.faults > 0)
        /\ refused' \in BOOLEAN
    BY <1>3 DEF SendUpdate, Rest
  <2>3. Rest'
    <3>1. left' \in [runs : 0..world.runs, notes : 0..world.notes, faults : 0..1]
      BY <2>2 DEF Rest
    <3>2. QED
      BY <1>1, <2>1, <2>2, <3>1 DEF Rest
  <2>4. /\ updates' \in Seq(AllBodies) /\ Head(updates) \in AllBodies
        /\ ~May("long") => updates' \in Seq(ShortBodies) /\ Head(updates) \in ShortBodies
    BY <1>1, <2>1 DEF Heard
  <2>5. PICK t : t = Text(Head(updates))
    OBVIOUS
  <2>6. t \in Texts /\ (~May("long") => t \in {Text(b) : b \in ShortBodies})
    BY <2>4, <2>5 DEF Texts
  <2>7. net \in Seq(Texts) /\ (~May("long") => net \in Seq({Text(b) : b \in ShortBodies}))
    BY DEF Heard
  <2>8. net' \in Seq(Texts) /\ (~May("long") => net' \in Seq({Text(b) : b \in ShortBodies}))
    <3>1. CASE net' = net
      BY <2>7, <3>1
    <3>2. CASE net' = Append(net, t)
      <4>1. net' \in Seq(Texts)
        BY <2>6, <2>7, <3>2
      <4>2. ASSUME ~May("long") PROVE net' \in Seq({Text(b) : b \in ShortBodies})
        BY <2>6, <2>7, <3>2, <4>2
      <4>3. QED
        BY <4>1, <4>2
    <3>3. QED
      BY <2>2, <2>5, <3>1, <3>2
  <2>9. Heard'
    BY <1>1, <2>4, <2>8 DEF Heard, May
  <2>10. QED
    BY <2>3, <2>9
<1>4. QED
  BY <1>2, <1>3

\* What the thread makes of the datagram: it forgets what the text is about, and
\* nothing of a text is left unless it is too long.
LEMMA HearFacts ==
  ASSUME Heard, NEW b \in AllBodies, Hear(Text(b)), UNCHANGED world,
         ~May("long") => b \in ShortBodies
  PROVE  /\ hearing' \in [text : Seq(Chars), state : 0..4] /\ Unfinished(hearing')
         /\ hearing' # EmptyUpdate => May("long")
         /\ ~May("long") => shown' \in {<<>>} \cup {Text(c) : c \in ShortBodies}
         /\ mine' \subseteq mine
         /\ \A d \in mine \ mine' : d \in Dirs => b = GoneBody(d)
<1> DEFINE u == Fed(hearing, Text(b))
<1>1. hearing \in [text : Seq(Chars), state : 0..4] /\ Unfinished(hearing)
  BY DEF Heard
<1>2. /\ u \in [text : Seq(Chars), state : 0..5]
      /\ hearing = EmptyUpdate /\ Len(Text(b)) <= UdpSize => u = [text |-> Text(b), state |-> 5]
      /\ ~Complete(u) => Unfinished(u) /\ (hearing # EmptyUpdate \/ Len(Text(b)) > UdpSize)
      /\ Complete(u) => \A d \in Dirs : u.text = Text(GoneBody(d)) => b = GoneBody(d)
  BY <1>1, HeardFacts
<1>3. ~May("long") => hearing = EmptyUpdate /\ Len(Text(b)) <= UdpSize
  BY ShortFacts DEF Heard
<1>4. IF Complete(u)
      THEN hearing' = EmptyUpdate /\ shown' = u.text /\ mine' = mine \ Forgotten(u.text)
      ELSE hearing' = u /\ UNCHANGED <<shown, mine>>
  BY DEF Hear
<1> HIDE DEF u
<1>5. ~May("long") => u = [text |-> Text(b), state |-> 5]
  BY <1>2, <1>3
<1>6. CASE Complete(u)
  <2>1. ~May("long") => shown' = Text(b) /\ b \in ShortBodies
    BY <1>4, <1>5, <1>6
  <2>2. mine' \subseteq mine /\ \A d \in mine \ mine' : d \in Forgotten(u.text)
    BY <1>4, <1>6
  <2>3. QED
    BY <1>2, <1>4, <1>6, <2>1, <2>2, EmptyFacts DEF Forgotten
<1>7. CASE ~Complete(u)
  <2>1. May("long")
    BY <1>5, <1>7 DEF Complete
  <2>2. u.state \in 0..4
    <3>1. u.state \in 0..5 /\ u.state # 5
      BY <1>2, <1>7 DEF Complete
    <3>2. QED
      BY <3>1
  <2>3. u \in [text : Seq(Chars), state : 0..4]
    BY <1>2, <2>2
  <2>4. QED
    BY <1>2, <1>4, <1>7, <2>1, <2>3
<1>8. QED
  BY <1>6, <1>7

LEMMA ArriveFacts ==
  ASSUME Heard, Arrive
  PROVE  \E i \in DOMAIN net, b \in AllBodies :
           /\ net[i] = Text(b) /\ (~May("long") => b \in ShortBodies)
           /\ \/ net' = RemoveAt(net, i) /\ UNCHANGED left
              \/ /\ May("duplicate") /\ left.faults > 0
                 /\ left' = [left EXCEPT !.faults = @ - 1] /\ UNCHANGED net
           /\ IF port = None THEN UNCHANGED <<hearing, shown, mine>> ELSE Hear(Text(b))
<1> DEFINE Takes(i) ==
             /\ \/ net' = RemoveAt(net, i) /\ UNCHANGED left
                \/ /\ May("duplicate") /\ left.faults > 0
                   /\ left' = [left EXCEPT !.faults = @ - 1] /\ UNCHANGED net
             /\ IF port = None THEN UNCHANGED <<hearing, shown, mine>> ELSE Hear(net[i])
<1>1. PICK i \in DOMAIN net : Takes(i)
  BY DEF Arrive
<1>2. /\ net[i] \in Texts
      /\ ~May("long") => net[i] \in {Text(b) : b \in ShortBodies}
  BY <1>1, RemoveAtFacts DEF Heard
<1>3. PICK b \in AllBodies : net[i] = Text(b) /\ (~May("long") => b \in ShortBodies)
  <2>1. CASE May("long")
    BY <1>2, <2>1 DEF Texts
  <2>2. CASE ~May("long")
    BY <1>2, <2>2 DEF AllBodies
  <2>3. QED
    BY <2>1, <2>2
<1>4. QED
  BY <1>1, <1>3

LEMMA ArriveData ==
  ASSUME Rest, Heard, Arrive
  PROVE  Rest' /\ Heard'
<1>1. UNCHANGED <<world, port, registered, updates, refused, ended>>
  BY DEF Arrive, serverVars
<1>2. PICK i \in DOMAIN net, b \in AllBodies :
        /\ net[i] = Text(b) /\ (~May("long") => b \in ShortBodies)
        /\ \/ net' = RemoveAt(net, i) /\ UNCHANGED left
           \/ /\ May("duplicate") /\ left.faults > 0
              /\ left' = [left EXCEPT !.faults = @ - 1] /\ UNCHANGED net
        /\ IF port = None THEN UNCHANGED <<hearing, shown, mine>> ELSE Hear(Text(b))
  BY ArriveFacts
<1>3. /\ hearing' \in [text : Seq(Chars), state : 0..4] /\ Unfinished(hearing')
      /\ hearing' # EmptyUpdate => May("long")
      /\ ~May("long") => shown' \in {<<>>} \cup {Text(c) : c \in ShortBodies}
      /\ mine' \subseteq mine
  <2>1. CASE port = None
    BY <1>2, <2>1 DEF Heard
  <2>2. CASE port # None
    BY <1>1, <1>2, <2>2, HearFacts
  <2>3. QED
    BY <2>1, <2>2
<1>4. net' \in Seq(Texts) /\ (~May("long") => net' \in Seq({Text(c) : c \in ShortBodies}))
  BY <1>2, RemoveAtFacts DEF Heard
<1>5. left' \in [runs : 0..world.runs, notes : 0..world.notes, faults : 0..1]
  BY <1>2 DEF Rest
<1>6. Rest'
  BY <1>1, <1>3, <1>5 DEF Rest
<1>7. Heard'
  BY <1>1, <1>3, <1>4 DEF Heard, May
<1>8. QED
  BY <1>6, <1>7

-----------------------------------------------------------------------------
(* Every step keeps all of it.                                             *)

Inv == Rest /\ Heard /\ Runs /\ \A p \in Proc : RunInv(p)

Stepped(p) ==
  Rest' /\ Heard' /\ UNCHANGED world /\ Runs' /\ OthersKeep(p) /\ RunInv(p)'

LEMMA SteppedFacts ==
  ASSUME Inv, NEW p \in Proc, Stepped(p)
  PROVE  Inv'
<1>1. ASSUME NEW q \in Proc PROVE RunInv(q)'
  <2>1. CASE q = p
    BY <2>1 DEF Stepped
  <2>2. CASE q # p
    BY <2>2, OthersInv DEF Stepped, Inv
  <2>3. QED
    BY <2>1, <2>2
<1>2. QED
  BY <1>1 DEF Inv, Stepped

LEMMA ClientStepped ==
  ASSUME Inv, NEW p \in Proc, Start(p) \/ ClientStep(p) \/ Interrupt(p) \/ Key(p)
  PROVE  Stepped(p)
<1>1. Rest /\ Heard /\ Runs /\ RunInv(p)
  BY DEF Inv
<1>2. CASE Start(p)
  <2>1. UNCHANGED world
    BY <1>2 DEF Start
  <2>2. Runs' /\ OthersKeep(p) /\ RunInv(p)'
    BY <1>1, <1>2, <2>1, StartInv
  <2>3. Rest'
    BY <1>1, <1>2, StartRest
  <2>4. Heard'
    BY <1>1, <1>2, HeardKept DEF Start, serverVars
  <2>5. QED
    BY <2>1, <2>2, <2>3, <2>4 DEF Stepped
<1>3. CASE ExitOnOptions(p)
  <2>1. UNCHANGED world
    BY <1>3 DEF ExitOnOptions
  <2>2. Runs' /\ OthersKeep(p) /\ RunInv(p)'
    BY <1>1, <1>3, <2>1, ExitOnOptionsInv
  <2>3. Rest'
    BY <1>1, <1>3, OverRest DEF ExitOnOptions
  <2>4. Heard'
    BY <1>1, <1>3, OverHeard DEF ExitOnOptions, serverVars
  <2>5. QED
    BY <2>1, <2>2, <2>3, <2>4 DEF Stepped
<1>4. CASE LoadSettings(p)
  <2>1. UNCHANGED world
    BY <1>4 DEF LoadSettings
  <2>2. Runs' /\ OthersKeep(p) /\ RunInv(p)'
    BY <1>1, <1>4, <2>1, LoadInv
  <2>3. Rest'
    BY <1>1, <1>4, RestKept DEF LoadSettings, clientVars
  <2>4. Heard'
    BY <1>1, <1>4, HeardKept DEF LoadSettings, clientVars, serverVars
  <2>5. QED
    BY <2>1, <2>2, <2>3, <2>4 DEF Stepped
<1>5. CASE ExitOnSettings(p)
  <2>1. UNCHANGED world
    BY <1>5 DEF ExitOnSettings
  <2>2. Runs' /\ OthersKeep(p) /\ RunInv(p)'
    BY <1>1, <1>5, <2>1, ExitOnSettingsInv
  <2>3. Rest'
    BY <1>1, <1>5, OverRest DEF ExitOnSettings
  <2>4. Heard'
    BY <1>1, <1>5, OverHeard DEF ExitOnSettings, serverVars
  <2>5. QED
    BY <2>1, <2>2, <2>3, <2>4 DEF Stepped
<1>6. CASE OpenPort(p)
  <2>1. UNCHANGED world
    BY <1>6 DEF OpenPort
  <2>2. Runs' /\ OthersKeep(p) /\ RunInv(p)'
    BY <1>1, <1>6, <2>1, OpenInv
  <2>3. Rest'
    <3>1. CASE Over(p)
      BY <1>1, <1>6, <3>1, OverRest DEF OpenPort
    <3>2. CASE port' \in {p, port}
      BY <1>1, <1>6, <3>2 DEF OpenPort, Rest, serverVars
    <3>3. QED
      BY <1>1, <1>6, <3>1, <3>2, OpenFacts
  <2>4. Heard'
    <3>1. CASE Over(p)
      BY <1>1, <1>6, <3>1, OverHeard DEF OpenPort, serverVars
    <3>2. CASE UNCHANGED <<hearing, net>>
      BY <1>1, <1>6, <3>2, HeardKept DEF OpenPort, serverVars
    <3>3. QED
      BY <1>1, <1>6, <3>1, <3>2, OpenFacts
  <2>5. QED
    BY <2>1, <2>2, <2>3, <2>4 DEF Stepped
<1>7. CASE NothingToDo(p)
  <2>1. UNCHANGED world
    BY <1>7 DEF NothingToDo
  <2>2. Runs' /\ OthersKeep(p) /\ RunInv(p)'
    BY <1>1, <1>7, <2>1, NothingInv
  <2>3. Rest'
    <3>1. CASE Over(p)
      BY <1>1, <1>7, <3>1, OverRest DEF NothingToDo
    <3>2. CASE UNCHANGED <<port, hearing, net>>
      BY <1>1, <1>7, <3>2, RestKept DEF NothingToDo
    <3>3. QED
      BY <1>1, <1>7, <3>1, <3>2, NothingFacts
  <2>4. Heard'
    <3>1. CASE Over(p)
      BY <1>1, <1>7, <3>1, OverHeard DEF NothingToDo, serverVars
    <3>2. CASE UNCHANGED <<port, hearing, net>>
      BY <1>1, <1>7, <3>2, HeardKept DEF NothingToDo, serverVars
    <3>3. QED
      BY <1>1, <1>7, <3>1, <3>2, NothingFacts
  <2>5. QED
    BY <2>1, <2>2, <2>3, <2>4 DEF Stepped
<1>8. CASE Connect(p)
  <2>1. UNCHANGED world
    BY <1>8 DEF Connect
  <2>2. Runs' /\ OthersKeep(p) /\ RunInv(p)'
    BY <1>1, <1>8, <2>1, ConnectInv
  <2>3. client[p].choice # Exit
    BY <1>1, <1>8 DEF RunInv, Connected, Connect
  <2>4. Rest'
    <3>1. CASE Over(p)
      BY <1>1, <1>8, <3>1, OverRest DEF Connect
    <3>2. CASE UNCHANGED <<port, hearing, net>>
      BY <1>1, <1>8, <3>2, RestKept DEF Connect
    <3>3. QED
      BY <1>1, <1>8, <3>1, <3>2, <2>3, ConnectFacts
  <2>5. Heard'
    <3>1. CASE Over(p)
      BY <1>1, <1>8, <3>1, OverHeard DEF Connect, serverVars
    <3>2. CASE UNCHANGED <<port, hearing, net>>
      BY <1>1, <1>8, <3>2, HeardKept DEF Connect, serverVars
    <3>3. QED
      BY <1>1, <1>8, <3>1, <3>2, <2>3, ConnectFacts
  <2>6. QED
    BY <2>1, <2>2, <2>4, <2>5 DEF Stepped
<1>9. CASE Send(p)
  <2>1. UNCHANGED world
    BY <1>9 DEF Send
  <2>2. Runs' /\ OthersKeep(p) /\ RunInv(p)'
    BY <1>1, <1>9, <2>1, SendInv
  <2>3. Rest'
    BY <1>1, <1>9, RestKept DEF Send, clientVars
  <2>4. Heard'
    BY <1>1, <1>9, HeardKept DEF Send, clientVars, serverVars
  <2>5. QED
    BY <2>1, <2>2, <2>3, <2>4 DEF Stepped
<1>10. CASE ReceiveAnswer(p)
  <2>1. UNCHANGED world
    BY <1>10 DEF ReceiveAnswer
  <2>2. Runs' /\ OthersKeep(p) /\ RunInv(p)'
    BY <1>1, <1>10, <2>1, ReceiveAnswerInv
  <2>3. Rest'
    BY <1>1, <1>10, RestKept DEF ReceiveAnswer, clientVars
  <2>4. Heard'
    BY <1>1, <1>10, HeardKept DEF ReceiveAnswer, clientVars, serverVars
  <2>5. QED
    BY <2>1, <2>2, <2>3, <2>4 DEF Stepped
<1>11. CASE Reset(p)
  <2>1. UNCHANGED world
    BY <1>11 DEF Reset
  <2>2. Runs' /\ OthersKeep(p) /\ RunInv(p)'
    BY <1>1, <1>11, <2>1, ResetInv
  <2>3. Rest'
    BY <1>1, <1>11, OverRest DEF Reset
  <2>4. Heard'
    BY <1>1, <1>11, OverHeard DEF Reset, serverVars
  <2>5. QED
    BY <2>1, <2>2, <2>3, <2>4 DEF Stepped
<1>12. CASE Spin(p)
  <2>1. UNCHANGED world
    BY <1>12 DEF Spin
  <2>2. Runs' /\ OthersKeep(p) /\ RunInv(p)'
    BY <1>1, <1>12, <2>1, SpinInv
  <2>3. Rest'
    BY <1>1, <1>12, RestKept DEF Spin, clientVars
  <2>4. Heard'
    BY <1>1, <1>12, HeardKept DEF Spin, clientVars, serverVars
  <2>5. QED
    BY <2>1, <2>2, <2>3, <2>4 DEF Stepped
<1>13. CASE Finish(p)
  <2>1. UNCHANGED world
    BY <1>13 DEF Finish
  <2>2. Runs' /\ OthersKeep(p) /\ RunInv(p)'
    BY <1>1, <1>13, <2>1, FinishInv
  <2>3. Rest'
    <3>1. client[p].choice.value \in Dirs
      BY <1>1, <1>13 DEF Finish, RunInv, Connected, Commanding
    <3>2. mine' \subseteq Dirs
      BY <1>1, <1>13, <3>1 DEF Finish, Rest
    <3>3. port' = port \/ port' = None
      BY <1>1, <1>13, FinishFacts DEF Over
    <3>4. QED
      BY <1>1, <1>13, <3>2, <3>3 DEF Finish, Rest, serverVars
  <2>4. Heard'
    <3>1. CASE Over(p)
      BY <1>1, <1>13, <3>1, OverHeard DEF Finish, serverVars
    <3>2. CASE UNCHANGED <<port, hearing, net>>
      BY <1>1, <1>13, <3>2, HeardKept DEF Finish, serverVars
    <3>3. QED
      BY <1>1, <1>13, <3>1, <3>2, FinishFacts
  <2>5. QED
    BY <2>1, <2>2, <2>3, <2>4 DEF Stepped
<1>14. CASE Interrupt(p)
  <2>1. UNCHANGED world
    BY <1>14 DEF Interrupt
  <2>2. Runs' /\ OthersKeep(p) /\ RunInv(p)'
    BY <1>1, <1>14, <2>1, InterruptInv
  <2>3. Rest'
    BY <1>1, <1>14, OverRest DEF Interrupt
  <2>4. Heard'
    BY <1>1, <1>14, OverHeard DEF Interrupt, serverVars
  <2>5. QED
    BY <2>1, <2>2, <2>3, <2>4 DEF Stepped
<1>15. CASE Key(p)
  <2>1. UNCHANGED world
    BY <1>15 DEF Key
  <2>2. Runs' /\ OthersKeep(p) /\ RunInv(p)'
    BY <1>1, <1>15, <2>1, KeyInv
  <2>3. Rest'
    BY <1>1, <1>15, OverRest DEF Key
  <2>4. Heard'
    BY <1>1, <1>15, OverHeard DEF Key, serverVars
  <2>5. QED
    BY <2>1, <2>2, <2>3, <2>4 DEF Stepped
<1>16. QED
  BY <1>2, <1>3, <1>4, <1>5, <1>6, <1>7, <1>8, <1>9, <1>10, <1>11,
     <1>12, <1>13, <1>14, <1>15 DEF ClientStep

LEMMA HandlerStepped ==
  ASSUME Inv, NEW p \in Proc, HandlerStep(p)
  PROVE  Stepped(p)
<1>1. Rest /\ Heard /\ Runs /\ RunInv(p)
  BY DEF Inv
<1>2. CASE Receive(p)
  <2>1. UNCHANGED world
    BY <1>2 DEF Receive
  <2>2. Runs' /\ OthersKeep(p) /\ RunInv(p)'
    BY <1>1, <1>2, <2>1, ReceiveInv
  <2>3. Rest'
    BY <1>1, <1>2, RestKept DEF Receive, clientVars
  <2>4. Heard'
    BY <1>1, <1>2, HeardKept DEF Receive, clientVars, serverVars
  <2>5. QED
    BY <2>1, <2>2, <2>3, <2>4 DEF Stepped
<1>3. CASE ReceiveNothing(p)
  <2>1. UNCHANGED world
    BY <1>3 DEF ReceiveNothing
  <2>2. Runs' /\ OthersKeep(p) /\ RunInv(p)'
    BY <1>1, <1>3, <2>1, ReceiveNothingInv
  <2>3. Rest'
    BY <1>1, <1>3 DEF ReceiveNothing, clientVars, Rest
  <2>4. Heard'
    BY <1>1, <1>3, HeardKept DEF ReceiveNothing, clientVars
  <2>5. QED
    BY <2>1, <2>2, <2>3, <2>4 DEF Stepped
<1>4. CASE Answer(p)
  <2>1. UNCHANGED world
    BY <1>4 DEF Answer
  <2>2. Runs' /\ OthersKeep(p) /\ RunInv(p)'
    BY <1>1, <1>4, <2>1, AnswerInv
  <2>3. Rest'
    <3>1. /\ registered \ {conn'[p].did[2]} = registered' \ {conn'[p].did[2]}
          /\ conn'[p].did[2] \in Dirs \cup {Elsewhere}
      BY <1>1, <1>4, AnswerFacts
    <3>2. registered' \subseteq Dirs \cup {Elsewhere}
      BY <1>1, <3>1 DEF Rest
    <3>3. QED
      BY <1>1, <1>4, <3>2 DEF Answer, clientVars, Rest
  <2>4. Heard'
    BY <1>1, <1>4, HeardKept DEF Answer, clientVars
  <2>5. QED
    BY <2>1, <2>2, <2>3, <2>4 DEF Stepped
<1>5. CASE AnswerUnknown(p)
  <2>1. UNCHANGED world
    BY <1>5 DEF AnswerUnknown
  <2>2. Runs' /\ OthersKeep(p) /\ RunInv(p)'
    BY <1>1, <1>5, <2>1, AnswerUnknownInv
  <2>3. Rest'
    BY <1>1, <1>5, RestKept DEF AnswerUnknown, clientVars
  <2>4. Heard'
    BY <1>1, <1>5, HeardKept DEF AnswerUnknown, clientVars, serverVars
  <2>5. QED
    BY <2>1, <2>2, <2>3, <2>4 DEF Stepped
<1>6. CASE HandlerOver(p)
  <2>1. UNCHANGED world
    BY <1>6 DEF HandlerOver
  <2>2. Runs' /\ OthersKeep(p) /\ RunInv(p)'
    BY <1>1, <1>6, <2>1, HandlerOverInv
  <2>3. Rest'
    BY <1>1, <1>6, RestKept DEF HandlerOver, clientVars
  <2>4. Heard'
    BY <1>1, <1>6, HeardKept DEF HandlerOver, clientVars, serverVars
  <2>5. QED
    BY <2>1, <2>2, <2>3, <2>4 DEF Stepped
<1>7. CASE Refuse(p)
  <2>1. UNCHANGED world
    BY <1>7 DEF Refuse
  <2>2. Runs' /\ OthersKeep(p) /\ RunInv(p)'
    BY <1>1, <1>7, <2>1, RefuseInv
  <2>3. Rest'
    BY <1>1, <1>7, RestKept DEF Refuse, clientVars
  <2>4. Heard'
    BY <1>1, <1>7, HeardKept DEF Refuse, clientVars, serverVars
  <2>5. QED
    BY <2>1, <2>2, <2>3, <2>4 DEF Stepped
<1>8. QED
  BY <1>2, <1>3, <1>4, <1>5, <1>6, <1>7 DEF HandlerStep

LEMMA RunsKept ==
  ASSUME Runs, \A p \in Proc : RunInv(p), UNCHANGED <<world, client, conn>>
  PROVE  Runs' /\ \A p \in Proc : RunInv(p)'
<1>1. Runs'
  BY DEF Runs
<1>2. ASSUME NEW p \in Proc PROVE RunInv(p)'
  <2>1. Length(p)' = Length(p) /\ Understood(p)' = Understood(p) /\ Wanted(p)' = Wanted(p)
    BY DEF Length, Understood, Wanted
  <2>2. Connected(p)'
    BY <2>1 DEF RunInv, Connected
  <2>3. InOnePiece(p)'
    BY <2>1 DEF RunInv, InOnePiece, May
  <2>4. QED
    BY <2>2, <2>3 DEF RunInv
<1>3. QED
  BY <1>1, <1>2

LEMMA InvStep ==
  ASSUME Inv, [Next]_vars
  PROVE  Inv'
<1>1. ASSUME NEW p \in Proc, Start(p) \/ ClientStep(p) \/ Interrupt(p) \/ Key(p)
      PROVE  Inv'
  BY <1>1, ClientStepped, SteppedFacts
<1>2. ASSUME NEW p \in Proc, HandlerStep(p) PROVE Inv'
  BY <1>2, HandlerStepped, SteppedFacts
<1>3. ASSUME Rest', Heard', UNCHANGED <<world, client, conn>> PROVE Inv'
  BY <1>3, RunsKept DEF Inv
<1>4. CASE Queue
  BY <1>3, <1>4, QueueData DEF Inv, Queue, clientVars
<1>5. CASE SendUpdate
  BY <1>3, <1>5, SendUpdateData DEF Inv, SendUpdate, clientVars
<1>6. CASE Arrive
  BY <1>3, <1>6, ArriveData DEF Inv, Arrive
<1>7. CASE StopServer
  <2>1. UNCHANGED <<world, client, conn, port, hearing, shown, mine, registered, updates,
                    refused, net, left>> /\ ended' = "own"
    BY <1>7 DEF StopServer, clientVars
  <2>2. Rest'
    BY <2>1 DEF Inv, Rest
  <2>3. Heard'
    BY <2>1, HeardKept DEF Inv
  <2>4. QED
    BY <1>3, <2>1, <2>2, <2>3
<1>8. CASE UNCHANGED vars
  <2>1. UNCHANGED <<world, client, conn, port, hearing, shown, mine, net, left>>
        /\ UNCHANGED serverVars
    BY <1>8 DEF vars, clientVars
  <2>2. Rest'
    BY <2>1, RestKept DEF Inv
  <2>3. Heard'
    BY <2>1, HeardKept DEF Inv, serverVars
  <2>4. QED
    BY <1>3, <2>1, <2>2, <2>3
<1>9. QED
  BY <1>1, <1>2, <1>4, <1>5, <1>6, <1>7, <1>8 DEF Next

LEMMA InvInit ==
  ASSUME Init
  PROVE  Inv
<1>1. /\ world \in Worlds /\ port = None /\ hearing = EmptyUpdate /\ shown = <<>> /\ mine = {}
      /\ registered = {} /\ updates = <<>> /\ refused = FALSE /\ ended = "no" /\ net = <<>>
      /\ left = [runs |-> world.runs, notes |-> world.notes, faults |-> 1]
  BY DEF Init
<1>2. Rest
  <2>1. world.runs \in Nat /\ world.notes \in Nat
    BY <1>1, SomeBounds
  <2>2. left \in [runs : 0..world.runs, notes : 0..world.notes, faults : 0..1]
    BY <1>1, <2>1
  <2>3. QED
    BY <1>1, <2>2 DEF Rest
<1>3. Heard
  BY <1>1, EmptyFacts DEF Heard
<1>4. client = [p \in Proc |-> Off] /\ conn = [p \in Proc |-> NoConnection]
  BY DEF Init
<1>5. Runs
  BY <1>4, OffFacts DEF Runs
<1>6. ASSUME NEW p \in Proc PROVE RunInv(p)
  <2>1. client[p] = Off /\ conn[p] = NoConnection
    BY <1>4
  <2>2. client[p].pc = "off" /\ conn[p].asked = <<>> /\ conn[p].sent = 0 /\ conn[p].taken = 0
    BY <2>1, OffFacts
  <2>3. QED
    BY <2>1, <2>2 DEF RunInv, Connected, InOnePiece, Commanding
<1>7. QED
  BY <1>2, <1>3, <1>5, <1>6 DEF Inv

\* The invariant of every behaviour.
THEOREM ClientProgramInvariant == Spec => []Inv
<1>1. Init => Inv
  BY InvInit
<1>2. Inv /\ [Next]_vars => Inv'
  BY InvStep
<1>3. QED
  BY <1>1, <1>2, PTL DEF Spec

\* TypeOK: every variable has its type; what a handler has read is no longer than what
\* was sent, and that no longer than the request.
THEOREM TypeCorrect == Spec => []TypeOK
<1>1. ASSUME Inv PROVE TypeOK
  <2>1. /\ world \in Worlds /\ port \in Proc \cup {None}
        /\ mine \subseteq Dirs /\ registered \subseteq Dirs \cup {Elsewhere}
        /\ refused \in BOOLEAN /\ ended \in {"no", "own", "refused"}
        /\ left.runs \in 0..world.runs /\ left.notes \in 0..world.notes /\ left.faults \in 0..1
    BY <1>1 DEF Inv, Rest
  <2>2. hearing.state \in 0..4
    BY <1>1 DEF Inv, Heard
  <2>3. ASSUME NEW p \in Proc
        PROVE  /\ client[p].pc \in Pc
               /\ conn[p].state \in {"none", "reading", "line", "answered"}
               /\ conn[p].asked # <<>> =>
                    conn[p].taken <= conn[p].sent /\ conn[p].sent <= Length(p)
               /\ conn[p].back \in 0..CodeLen /\ conn[p].code \in Codes \cup {"none"}
    <3>1. client[p] \in ClientSet /\ conn[p] \in ConnSet
      BY <1>1 DEF Inv, Runs
    <3>2. Connected(p)
      BY <1>1 DEF Inv, RunInv
    <3>3. QED
      BY <3>1, <3>2 DEF ClientSet, ConnSet, Connected
  <2>4. QED
    BY <2>1, <2>2, <2>3 DEF TypeOK
<1>2. QED
  BY <1>1, ClientProgramInvariant, PTL

\* RequestIsDone: a request that comes in one piece is done as it was sent, whatever
\* this run's and other runs' handlers have read before.
THEOREM RequestsAreDone == Spec => []RequestIsDone
<1>1. ASSUME Inv PROVE RequestIsDone
  <2>1. \A p \in Proc : InOnePiece(p)
    BY <1>1 DEF Inv, RunInv
  <2>2. QED
    BY <2>1 DEF RequestIsDone, InOnePiece
<1>2. QED
  BY <1>1, ClientProgramInvariant, PTL

\* UpdatesAreWhole: every update is printed whole, by itself and at once, while it fits
\* into the client's buffer.
THEOREM UpdatesStayWhole == Spec => []UpdatesAreWhole
<1>1. ASSUME Inv PROVE UpdatesAreWhole
  BY <1>1 DEF Inv, Heard, UpdatesAreWhole, ShortBodies
<1>2. QED
  BY <1>1, ClientProgramInvariant, PTL

-----------------------------------------------------------------------------
(* What a run does is what its command line says.                          *)

Chosen(p) ==
  client[p].pc = "options" =>
    /\ client[p].args \in CommandLines \cup UsualLines
    /\ client[p].choice = Choose(client[p].args)

LEMMA StartChosen ==
  ASSUME Inv, NEW p \in Proc, Start(p)
  PROVE  OthersKeep(p) /\ Chosen(p)'
<1>1. PICK args \in CommandLines \cup UsualLines :
        client' = [client EXCEPT ![p] = [Off EXCEPT
          !.pc = "options", !.choice = Choose(args), !.args = args]]
  BY DEF Start
<1>2. PICK r : r = [Off EXCEPT !.pc = "options", !.choice = Choose(args), !.args = args]
  OBVIOUS
<1>3. r.args = args /\ r.choice = Choose(args)
  BY <1>2 DEF Off
<1>4. Runs /\ client' = [client EXCEPT ![p] = r]
  BY <1>1, <1>2 DEF Inv
<1>5. client'[p] = r
  BY <1>4 DEF Runs
<1>6. OthersKeep(p)
  BY <1>4, StartFacts
<1>7. QED
  BY <1>3, <1>5, <1>6 DEF Chosen

\* No other step brings a run to where it has just chosen.
LEMMA OthersChosen ==
  ASSUME Inv, NEW p \in Proc, ClientStep(p) \/ Interrupt(p) \/ Key(p)
  PROVE  OthersKeep(p) /\ (client'[p].pc # "options" \/ client'[p] = client[p])
<1>1. Runs /\ RunInv(p)
  BY DEF Inv
<1>2. Off.pc # "options"
  BY DEF Off
<1>3. \A pc \in Pc : GoesTo(p, pc) /\ pc # "options" => client'[p].pc # "options"
  BY DEF GoesTo
<1>4. "settings" \in Pc /\ "ready" \in Pc /\ "sending" \in Pc /\ "receiving" \in Pc
      /\ "spinning" \in Pc /\ "waiting" \in Pc
  BY DEF Pc
<1>5. CASE ExitOnOptions(p) \/ ExitOnSettings(p) \/ Key(p)
  BY <1>1, <1>2, <1>5, OverAlone DEF ExitOnOptions, ExitOnSettings, Key
<1>6. CASE LoadSettings(p)
  BY <1>1, <1>3, <1>4, <1>6, LoadFacts
<1>7. CASE OpenPort(p)
  BY <1>1, <1>2, <1>3, <1>4, <1>7, OpenFacts
<1>8. CASE NothingToDo(p)
  BY <1>1, <1>2, <1>3, <1>4, <1>8, NothingFacts
<1>9. CASE Connect(p)
  <2>1. client[p].choice # Exit
    BY <1>1, <1>9 DEF RunInv, Connected, Connect
  <2>2. QED
    BY <1>1, <1>2, <1>3, <1>4, <1>9, <2>1, ConnectFacts
<1>10. CASE Send(p)
  <2>1. conn[p].asked # <<>>
    <3>1. conn[p].asked = Wanted(p)
      BY <1>1, <1>10 DEF RunInv, Connected, Commanding, Send
    <3>2. QED
      BY <3>1 DEF Wanted
  <2>2. QED
    BY <1>1, <1>3, <1>4, <1>10, <2>1, SendFacts
<1>11. CASE ReceiveAnswer(p)
  BY <1>1, <1>11, ReceiveAnswerFacts
<1>12. CASE Reset(p)
  BY <1>1, <1>2, <1>12, ResetFacts
<1>13. CASE Spin(p)
  BY <1>1, <1>3, <1>4, <1>13, SpinFacts
<1>14. CASE Finish(p)
  BY <1>1, <1>2, <1>3, <1>4, <1>14, FinishFacts
<1>15. CASE Interrupt(p)
  BY <1>1, <1>2, <1>15, InterruptFacts
<1>16. QED
  BY <1>5, <1>6, <1>7, <1>8, <1>9, <1>10, <1>11, <1>12, <1>13, <1>14, <1>15 DEF ClientStep

LEMMA ChosenStep ==
  ASSUME Inv, \A p \in Proc : Chosen(p), [Next]_vars
  PROVE  \A p \in Proc : Chosen(p)'
<1>1. ASSUME NEW p \in Proc, OthersKeep(p), Chosen(p)' PROVE \A q \in Proc : Chosen(q)'
  BY <1>1 DEF OthersKeep, Chosen
<1>2. CASE \E p \in Proc : Start(p)
  BY <1>1, <1>2, StartChosen
<1>3. CASE \E p \in Proc : ClientStep(p) \/ Interrupt(p) \/ Key(p)
  BY <1>1, <1>3, OthersChosen DEF Chosen
<1>4. CASE client' = client
  BY <1>4 DEF Chosen
<1>5. ASSUME NEW p \in Proc, HandlerStep(p) PROVE client' = client
  BY <1>5 DEF HandlerStep, Receive, ReceiveNothing, Answer, Refuse, AnswerUnknown,
              HandlerOver, clientVars
<1>6. ASSUME Queue \/ SendUpdate \/ Arrive \/ StopServer \/ UNCHANGED vars
      PROVE  client' = client
  BY <1>6 DEF Queue, SendUpdate, Arrive, StopServer, clientVars, vars
<1>7. QED
  BY <1>2, <1>3, <1>4, <1>5, <1>6 DEF Next

\* CommandIsTheUsers: of a command line without "-t" the client goes on with the command,
\* the value and the "-w" the grammar makes of it, with nothing that is outside the
\* grammar, and it refuses nothing that is in it but values that begin with a dash.
THEOREM CommandsAreTheUsers == Spec => []CommandIsTheUsers
<1> DEFINE AllChosen == \A p \in Proc : Chosen(p)
<1>1. Init => AllChosen
  <2>1. Off.pc # "options"
    BY DEF Off
  <2>2. QED
    BY <2>1 DEF Init, Chosen
<1>2. Inv /\ AllChosen /\ [Next]_vars => AllChosen'
  BY ChosenStep
<1>3. AllChosen => CommandIsTheUsers
  <2>1. SUFFICES ASSUME NEW p \in Proc, Chosen(p), client[p].pc = "options",
                        UsesNoT(client[p].args)
                 PROVE  UnderstoodAs(client[p].args, client[p].choice)
    BY DEF CommandIsTheUsers
  <2>2. client[p].args \in Seq(Argument) /\ client[p].choice = Choose(client[p].args)
    BY <2>1, LinesAreArguments DEF Chosen
  <2>3. QED
    BY <2>1, <2>2, CommandLinesAreUnderstood
<1> HIDE DEF AllChosen
<1>4. QED
  BY <1>1, <1>2, <1>3, ClientProgramInvariant, PTL DEF Spec

-----------------------------------------------------------------------------
(* The UDP port of a careful user's host.                                  *)

\* Every request fits into the handler's buffer.
RequestsFit == \A d \in Dirs : TextLen[d] + 2 <= BuffSize

Active(p) == ~Idle(p)
Succeeded(p) == conn[p].state = "answered" /\ conn[p].code \in {"200", "201", "202"}

\* The directories whose deletion the host is still to be told, and all that it may
\* hear of.
Told == {d \in Dirs \cup {Elsewhere} : \E i \in DOMAIN updates : updates[i] = GoneBody(d)}
Counted == registered \cup Told

\* The server has registered the host for d, and the run has not read so yet.
Pending(p, d) ==
  /\ client[p].pc = "receiving" /\ Succeeded(p)
  /\ client[p].choice.command # "d" /\ client[p].choice.value = d

HoldsPort(p) ==
  \/ client[p].pc = "waiting"
  \/ client[p].pc \in {"ready", "sending", "receiving"} /\ client[p].choice.wait

\* A run has the port while it waits, or is to wait; a handler has a client, which it
\* answers; a command is one a careful user gives; and what it ended is not told of.
Sensible(p) ==
  Active(p) /\ client[p].choice # Exit =>
    /\ client[p].choice.command # "t"
    /\ client[p].choice.wait => ~Waits
    /\ client[p].choice.command \notin {"d", NoCommand} => Waits \/ client[p].choice.wait
Dropped(p) ==
  /\ client[p].pc = "receiving" /\ conn[p].state = "answered"
  /\ client[p].choice.command = "d" /\ conn[p].code \in {"200", "400"}
  => client[p].choice.value \notin Counted
Orderly(p) ==
  /\ client[p].pc # "spinning"
  /\ conn[p].state # "none" => client[p].pc \in {"sending", "receiving"}
  /\ conn[p].state = "answered" <=> conn[p].code # "none"
  /\ client[p].pc \in {"sending", "receiving"} => client[p].choice.command # NoCommand
  /\ port = p <=> HoldsPort(p)
  /\ Sensible(p) /\ Dropped(p)

OneActive == \A p, q \in Proc : Active(p) /\ Active(q) => p = q

\* The user knows of every registration, or is about to, and waits; and no deletion is
\* on its way for what is registered again.
Known ==
  /\ registered \subseteq Dirs
  /\ \A d \in Counted : d \in mine \/ \E p \in Proc : Pending(p, d)
  /\ mine # {} => Waits
Unsaid(d) == net \in Seq(Texts \ {Text(GoneBody(d))})
Consistent ==
  /\ \A d \in Counted : Unsaid(d)
  /\ registered \cap Told = {}
  /\ \A i \in DOMAIN updates : \A d \in Dirs \cup {Elsewhere} :
       updates[i] = GoneBody(d) => i = Len(updates)
  /\ updates # <<>> => Counted # {}

Order == OneActive /\ (\A p \in Proc : Orderly(p)) /\ Known /\ Consistent
OrderWhileCareful == Careful /\ RequestsFit /\ ended = "no" => Order

\* Then the port is open while there is anything to hear of.
LEMMA PortIsOpen ==
  ASSUME Inv, Order, Counted # {}
  PROVE  port # None
<1>1. None \notin Proc
  BY NoneIsNothing
<1>2. Waits => port # None
  <2>1. SUFFICES ASSUME NEW p \in Proc, client[p].pc = "waiting" PROVE port # None
    BY DEF Waits
  <2>2. port = p
    BY <2>1 DEF Order, Orderly, HoldsPort
  <2>3. QED
    BY <1>1, <2>2
<1>3. PICK d : d \in Counted
  OBVIOUS
<1>4. CASE d \in mine
  BY <1>2, <1>4 DEF Order, Known
<1>5. CASE d \notin mine
  <2>1. PICK p \in Proc : Pending(p, d)
    BY <1>3, <1>5 DEF Order, Known
  <2>2. client[p].pc = "receiving" /\ client[p].choice.command # "d"
    BY <2>1 DEF Pending
  <2>3. Orderly(p)
    BY DEF Order
  <2>4. client[p].choice.command # NoCommand /\ Active(p) /\ client[p].choice # Exit
    BY <2>2, <2>3 DEF Orderly, Active, Idle, Inv, RunInv, Connected
  <2>5. CASE client[p].choice.wait
    <3>1. port = p
      BY <2>2, <2>3, <2>5 DEF Orderly, HoldsPort
    <3>2. QED
      BY <1>1, <3>1
  <2>6. CASE ~client[p].choice.wait
    <3>1. Waits
      BY <2>2, <2>3, <2>4, <2>6 DEF Orderly, Sensible
    <3>2. QED
      BY <1>2, <3>1
  <2>7. QED
    BY <2>5, <2>6
<1>6. QED
  BY <1>4, <1>5

LEMMA AloneFacts ==
  ASSUME Order, NEW p \in Proc, Active(p), NEW q \in Proc, q # p
  PROVE  ~Active(q)
BY DEF Order, OneActive

LEMMA OverPort ==
  ASSUME NEW p \in Proc, Over(p)
  PROVE  /\ \A q \in Proc : q # p => (port' = q <=> port = q)
         /\ port' # p /\ (net' = net \/ net' = <<>>)
<1>1. None \notin Proc
  BY NoneIsNothing
<1>2. port' = IF port = p THEN None ELSE port
  BY DEF Over
<1>3. net' = net \/ net' = <<>>
  BY DEF Over
<1>4. QED
  BY <1>1, <1>2, <1>3

LEMMA CountedKept ==
  ASSUME UNCHANGED <<registered, updates>>
  PROVE  Counted' = Counted /\ Told' = Told
BY DEF Counted, Told

LEMMA WaitsFacts ==
  ASSUME NEW p \in Proc, OthersKeep(p)
  PROVE  /\ Waits' <=> \/ client'[p].pc = "waiting"
                       \/ \E q \in Proc : q # p /\ client[q].pc = "waiting"
         /\ client[p].pc = "waiting" => (client'[p].pc = "waiting" => (Waits => Waits'))
         /\ client[p].pc # "waiting" => (Waits => Waits')
BY DEF Waits, OthersKeep

LEMMA PendingKept ==
  ASSUME NEW p \in Proc, OthersKeep(p), NEW q \in Proc, q # p, NEW d
  PROVE  Pending(q, d)' <=> Pending(q, d)
<1>1. client'[q] = client[q] /\ conn'[q] = conn[q]
  BY DEF OthersKeep
<1>2. QED
  BY <1>1 DEF Pending, Succeeded

\* A run that is idle stays as it is while another takes a step.
LEMMA IdleOrderly ==
  ASSUME NEW p \in Proc, OthersKeep(p), NEW q \in Proc, q # p, ~Active(q), Orderly(q),
         port' = q <=> port = q
  PROVE  Orderly(q)' /\ ~Active(q)'
<1>1. client'[q] = client[q] /\ conn'[q] = conn[q]
  BY DEF OthersKeep
<1>2. ~Active(q)' /\ client[q].pc \in {"off", "waiting"}
  BY <1>1 DEF Active, Idle
<1>3. HoldsPort(q)' <=> HoldsPort(q)
  BY <1>1 DEF HoldsPort
<1>4. Sensible(q)' /\ Dropped(q)'
  BY <1>1, <1>2 DEF Sensible, Dropped
<1>5. QED
  BY <1>1, <1>2, <1>3, <1>4 DEF Orderly

LEMMA OrderlyStep ==
  ASSUME NEW p \in Proc, OthersKeep(p), \A q \in Proc : q # p => ~Active(q),
         \A q \in Proc : Orderly(q), \A q \in Proc : q # p => (port' = q <=> port = q),
         Orderly(p)'
  PROVE  OneActive' /\ \A q \in Proc : Orderly(q)'
<1>1. ASSUME NEW q \in Proc, q # p PROVE Orderly(q)' /\ ~Active(q)'
  BY <1>1, IdleOrderly
<1>2. OneActive'
  BY <1>1 DEF OneActive
<1>3. QED
  BY <1>1, <1>2

LEMMA KnownKept ==
  ASSUME Known, UNCHANGED <<registered, mine, updates>>, Waits => Waits',
         \A q \in Proc : \A d : Pending(q, d) => Pending(q, d)'
  PROVE  Known'
<1>1. Counted' = Counted
  BY CountedKept
<1>2. QED
  BY <1>1 DEF Known

LEMMA ConsistentKept ==
  ASSUME Consistent, UNCHANGED <<registered, updates>>, net' = net \/ net' = <<>>
  PROVE  Consistent'
<1>1. Counted' = Counted /\ Told' = Told
  BY CountedKept
<1>2. ASSUME NEW d \in Counted' PROVE Unsaid(d)'
  <2>1. Unsaid(d)
    BY <1>1, <1>2 DEF Consistent
  <2>2. CASE net' = net
    BY <2>1, <2>2 DEF Unsaid
  <2>3. CASE net' = <<>>
    BY <2>3, EmptyFacts DEF Unsaid
  <2>4. QED
    BY <2>2, <2>3
<1>3. QED
  BY <1>1, <1>2 DEF Consistent

\* A step of one run that has nothing to do with what is registered.
LEMMA QuietStep ==
  ASSUME Order, NEW p \in Proc, OthersKeep(p), \A q \in Proc : q # p => ~Active(q),
         UNCHANGED <<registered, mine, updates>>, net' = net \/ net' = <<>>,
         \A q \in Proc : q # p => (port' = q <=> port = q),
         client[p].pc # "waiting", \A d : Pending(p, d) => Pending(p, d)',
         Orderly(p)'
  PROVE  Order'
<1>1. OneActive' /\ \A q \in Proc : Orderly(q)'
  BY OrderlyStep DEF Order
<1>2. Waits => Waits'
  BY WaitsFacts
<1>3. ASSUME NEW q \in Proc, NEW d, Pending(q, d) PROVE Pending(q, d)'
  BY <1>3, PendingKept
<1>4. Known'
  BY <1>2, <1>3, KnownKept DEF Order
<1>5. Consistent'
  BY ConsistentKept DEF Order
<1>6. QED
  BY <1>1, <1>4, <1>5 DEF Order

\* Run p is over: it has no port and nothing to wait for.
LEMMA OffOrderly ==
  ASSUME NEW p \in Proc, client'[p] = Off, conn'[p] = NoConnection, port' # p
  PROVE  Orderly(p)'
<1>1. client'[p].pc = "off" /\ conn'[p].state = "none" /\ conn'[p].code = "none"
  BY OffFacts
<1>2. ~HoldsPort(p)' /\ ~Active(p)'
  BY <1>1 DEF HoldsPort, Active, Idle
<1>3. QED
  BY <1>1, <1>2, Zenon DEF Orderly, Sensible, Dropped

LEMMA NoPending ==
  ASSUME NEW p \in Proc, client[p].pc # "receiving" \/ conn[p].state # "answered", NEW d
  PROVE  ~Pending(p, d)
BY DEF Pending, Succeeded

-----------------------------------------------------------------------------
(* The steps of a careful user's runs.                                     *)

Calm == Inv /\ Order /\ Careful /\ RequestsFit /\ ended = "no"

LEMMA CalmFacts ==
  ASSUME Calm, NEW p \in Proc
  PROVE  /\ Rest /\ Heard /\ Runs /\ RunInv(p) /\ Orderly(p) /\ Order
         /\ ~May("rude") /\ ~May("pieces") /\ ~May("delay") /\ ~May("duplicate")
         /\ conn[p].asked # <<>> => Length(p) <= BuffSize
<1>1. Rest /\ Heard /\ Runs /\ RunInv(p) /\ Orderly(p) /\ Order
  BY DEF Calm, Inv, Order
<1>2. ~May("rude") /\ ~May("pieces") /\ ~May("delay") /\ ~May("duplicate")
  BY DEF Calm, Careful, May
<1>3. ASSUME conn[p].asked # <<>> PROVE Length(p) <= BuffSize
  <2>1. conn[p].asked[2] \in Dirs
    BY <1>1, <1>3, LengthFacts
  <2>2. QED
    BY <2>1 DEF Calm, RequestsFit, Length
<1>4. QED
  BY <1>1, <1>2, <1>3

LEMMA StartOrder ==
  ASSUME Calm, NEW p \in Proc, Start(p)
  PROVE  Order'
<1>1. Runs /\ RunInv(p) /\ Order /\ Orderly(p) /\ ~May("rude")
  BY CalmFacts
<1>2. /\ OthersKeep(p) /\ conn' = conn /\ client[p].pc = "off" /\ conn[p].state = "none"
      /\ client'[p].pc = "options" /\ MayStart(client'[p].choice)
  BY <1>1, StartFacts
<1>3. UNCHANGED <<registered, mine, updates, net, port>>
  BY DEF Start, serverVars
<1>4. /\ \A q \in Proc : Idle(q)
      /\ client'[p].choice # Exit =>
           /\ client'[p].choice.command # "t"
           /\ client'[p].choice.wait => ~Waits
           /\ client'[p].choice.command \notin {"d", NoCommand} =>
                Waits \/ client'[p].choice.wait
  BY <1>1, <1>2 DEF MayStart
<1>5. Waits' <=> Waits
  BY <1>2, WaitsFacts DEF Waits
<1>6. Orderly(p)'
  <2>1. port # p
    BY <1>1, <1>2 DEF Orderly, HoldsPort
  <2>2. ~HoldsPort(p)'
    BY <1>2 DEF HoldsPort
  <2>3. Sensible(p)'
    BY <1>4, <1>5, Zenon DEF Sensible
  <2>4. Dropped(p)'
    BY <1>2 DEF Dropped
  <2>5. conn'[p].state = "none" /\ conn'[p].code = "none"
    BY <1>1, <1>2 DEF Orderly
  <2>6. QED
    BY <1>2, <1>3, <2>1, <2>2, <2>3, <2>4, <2>5 DEF Orderly
<1>7. \A d : ~Pending(p, d)
  BY <1>2, NoPending
<1>8. \A q \in Proc : q # p => ~Active(q)
  BY <1>4 DEF Active
<1>9. QED
  BY <1>1, <1>2, <1>3, <1>6, <1>7, <1>8, QuietStep

\* A run that is over without having sent anything, or in vain.
LEMMA OverOrder ==
  ASSUME Calm, NEW p \in Proc, Over(p), OthersKeep(p), Active(p), conn'[p] = NoConnection,
         client'[p] = Off, UNCHANGED <<registered, mine, updates>>,
         \A d : ~Pending(p, d)
  PROVE  Order'
<1>1. Order /\ client[p].pc # "waiting"
  BY CalmFacts DEF Active, Idle
<1>2. \A q \in Proc : q # p => ~Active(q)
  BY <1>1, AloneFacts
<1>3. /\ \A q \in Proc : q # p => (port' = q <=> port = q)
      /\ port' # p /\ (net' = net \/ net' = <<>>)
  BY OverPort
<1>4. Orderly(p)'
  BY <1>3, OffOrderly
<1>5. QED
  BY <1>1, <1>2, <1>3, <1>4, QuietStep

\* The run goes on, and has the port when it is to wait.
LEMMA OnOrder ==
  ASSUME Calm, NEW p \in Proc, OthersKeep(p), Active(p),
         client'[p].choice = client[p].choice,
         client'[p].pc \in {"settings", "ready", "sending", "receiving"},
         client[p].choice # Exit,
         UNCHANGED <<registered, mine, updates, net>>,
         \A q \in Proc : q # p => (port' = q <=> port = q),
         port' = p <=> HoldsPort(p)',
         \A d : Pending(p, d) => Pending(p, d)',
         conn'[p].state # "none" => client'[p].pc \in {"sending", "receiving"},
         conn'[p].state = "answered" <=> conn'[p].code # "none",
         client'[p].pc \in {"sending", "receiving"} => client[p].choice.command # NoCommand,
         Dropped(p)'
  PROVE  Order'
<1>1. Order /\ client[p].pc # "waiting" /\ Orderly(p)
  BY CalmFacts DEF Active, Idle
<1>2. \A q \in Proc : q # p => ~Active(q)
  BY <1>1, AloneFacts
<1>3. Waits' <=> Waits
  BY <1>1, WaitsFacts DEF Waits
<1>4. Sensible(p)'
  BY <1>1, <1>3 DEF Orderly, Sensible
<1>5. Orderly(p)'
  BY <1>4 DEF Orderly
<1>6. QED
  BY <1>1, <1>2, <1>5, QuietStep

LEMMA OptionsOrder ==
  ASSUME Calm, NEW p \in Proc, ExitOnOptions(p) \/ ExitOnSettings(p)
  PROVE  Order'
<1>1. Runs /\ RunInv(p) /\ Order
  BY CalmFacts
<1>2. Over(p) /\ conn' = conn /\ client[p].pc \in {"options", "settings"}
      /\ UNCHANGED <<registered, mine, updates>>
  BY DEF ExitOnOptions, ExitOnSettings, serverVars
<1>3. OthersKeep(p) /\ client'[p] = Off
  BY <1>1, <1>2, OverAlone
<1>4. conn'[p] = NoConnection
  BY <1>1, <1>2 DEF RunInv, Connected
<1>5. Active(p) /\ \A d : ~Pending(p, d)
  BY <1>2, NoPending DEF Active, Idle
<1>6. QED
  BY <1>2, <1>3, <1>4, <1>5, OverOrder

LEMMA LoadOrder ==
  ASSUME Calm, NEW p \in Proc, LoadSettings(p)
  PROVE  Order'
<1>1. Runs /\ RunInv(p) /\ Order /\ Orderly(p)
  BY CalmFacts
<1>2. /\ OthersKeep(p) /\ conn' = conn /\ client[p].pc = "options" /\ client[p].choice # Exit
      /\ GoesTo(p, "settings")
  BY <1>1, LoadFacts
<1>3. UNCHANGED <<registered, mine, updates, net, port>>
  BY DEF LoadSettings, serverVars
<1>4. client'[p].pc = "settings" /\ client'[p].choice = client[p].choice
  BY <1>2 DEF GoesTo
<1>5. /\ Active(p) /\ ~HoldsPort(p) /\ ~HoldsPort(p)'
      /\ conn'[p].state = "none" /\ conn'[p].code = "none"
  <2>1. conn[p].state = "none" /\ conn[p].code = "none"
    BY <1>1, <1>2 DEF RunInv, Connected, Orderly
  <2>2. QED
    BY <1>2, <1>4, <2>1 DEF Active, Idle, HoldsPort
<1>6. (port' = p <=> HoldsPort(p)') /\ Dropped(p)' /\ \A d : ~Pending(p, d)
  BY <1>1, <1>2, <1>3, <1>4, <1>5, NoPending DEF Orderly, Dropped
<1>7. QED
  BY <1>2, <1>3, <1>4, <1>5, <1>6, OnOrder

LEMMA OpenOrder ==
  ASSUME Calm, NEW p \in Proc, OpenPort(p)
  PROVE  Order'
<1>1. Runs /\ RunInv(p) /\ Order /\ Orderly(p)
  BY CalmFacts
<1>2. /\ OthersKeep(p) /\ conn' = conn /\ client[p].pc = "settings"
      /\ UNCHANGED <<registered, mine, updates>>
  BY <1>1, OpenFacts DEF OpenPort, serverVars
<1>3. /\ conn'[p] = NoConnection /\ conn'[p].state = "none" /\ conn'[p].code = "none"
      /\ client[p].choice # Exit
  BY <1>1, <1>2, OffFacts DEF RunInv, Connected
<1>4. Active(p) /\ ~HoldsPort(p) /\ \A d : ~Pending(p, d)
  BY <1>2, NoPending DEF Active, Idle, HoldsPort
<1>5. CASE Over(p) /\ client'[p] = Off
  BY <1>2, <1>3, <1>4, <1>5, OverOrder
<1>6. CASE /\ GoesTo(p, "ready") /\ UNCHANGED <<hearing, net>>
           /\ client[p].choice.wait => port = None /\ port' = p
           /\ ~client[p].choice.wait => port' = port
  <2>1. client'[p].pc = "ready" /\ client'[p].choice = client[p].choice
    BY <1>6 DEF GoesTo
  <2>2. port # p /\ None \notin Proc
    BY <1>1, <1>4, NoneIsNothing DEF Orderly
  <2>3. /\ \A q \in Proc : q # p => (port' = q <=> port = q)
        /\ port' = p <=> client[p].choice.wait
    BY <1>6, <2>2
  <2>4. port' = p <=> HoldsPort(p)'
    BY <2>1, <2>3 DEF HoldsPort
  <2>5. Dropped(p)' /\ net' = net
    BY <1>6, <2>1 DEF Dropped
  <2>6. QED
    BY <1>2, <1>3, <1>4, <2>1, <2>3, <2>4, <2>5, OnOrder
<1>7. QED
  BY <1>1, <1>5, <1>6, OpenFacts

\* A run that goes on to wait has the port.
LEMMA WaitingOrderly ==
  ASSUME NEW p \in Proc, client'[p].pc = "waiting", conn'[p] = NoConnection, port' = p
  PROVE  Orderly(p)'
<1>1. HoldsPort(p)' /\ ~Active(p)'
  BY DEF HoldsPort, Active, Idle
<1>2. conn'[p].state = "none" /\ conn'[p].code = "none"
  BY OffFacts
<1>3. QED
  BY <1>1, <1>2, Zenon DEF Orderly, Sensible, Dropped

LEMMA NothingOrder ==
  ASSUME Calm, NEW p \in Proc, NothingToDo(p)
  PROVE  Order'
<1>1. Runs /\ RunInv(p) /\ Order /\ Orderly(p)
  BY CalmFacts
<1>2. /\ OthersKeep(p) /\ conn' = conn /\ client[p].pc = "ready"
      /\ UNCHANGED <<registered, mine, updates>>
  BY <1>1, NothingFacts DEF NothingToDo, serverVars
<1>3. conn'[p] = NoConnection /\ conn'[p].state = "none"
  BY <1>1, <1>2, OffFacts DEF RunInv, Connected
<1>4. Active(p) /\ \A d : ~Pending(p, d)
  BY <1>2, NoPending DEF Active, Idle
<1>5. CASE Over(p) /\ client'[p] = Off
  BY <1>2, <1>3, <1>4, <1>5, OverOrder
<1>6. CASE GoesTo(p, "waiting") /\ UNCHANGED <<port, hearing, net>> /\ client[p].choice.wait
  <2>1. client'[p].pc = "waiting" /\ port' = port /\ net' = net
    BY <1>6 DEF GoesTo
  <2>2. port = p
    BY <1>1, <1>2, <1>6 DEF Orderly, HoldsPort
  <2>3. Orderly(p)'
    BY <1>3, <2>1, <2>2, WaitingOrderly
  <2>4. \A q \in Proc : q # p => ~Active(q)
    BY <1>1, <1>4, AloneFacts
  <2>5. QED
    BY <1>1, <1>2, <1>4, <2>1, <2>3, <2>4, QuietStep
<1>7. QED
  BY <1>1, <1>5, <1>6, NothingFacts

LEMMA ConnectOrder ==
  ASSUME Calm, NEW p \in Proc, Connect(p)
  PROVE  Order'
<1>1. Runs /\ RunInv(p) /\ Order /\ Orderly(p) /\ ended = "no"
  BY CalmFacts DEF Calm
<1>2. client[p].pc = "ready" /\ client[p].choice # Exit
  BY <1>1 DEF Connect, RunInv, Connected
<1>3. Active(p)
  BY <1>2 DEF Active, Idle
<1>4. client[p].choice.command # "t"
  BY <1>1, <1>2, <1>3 DEF Orderly, Sensible
<1>5. /\ OthersKeep(p) /\ client[p].choice.command # NoCommand
      /\ GoesTo(p, "sending") /\ UNCHANGED <<port, hearing, net>>
      /\ conn'[p] = NewConnection(Wanted(p)) /\ Wanted(p) \in Asked
  BY <1>1, <1>2, <1>4, ConnectFacts
<1>6. UNCHANGED <<registered, mine, updates, net, port>>
  BY <1>5 DEF Connect, serverVars
<1>7. client'[p].pc = "sending" /\ client'[p].choice = client[p].choice
  BY <1>5 DEF GoesTo
<1>8. conn'[p].state = "reading" /\ conn'[p].code = "none"
  BY <1>5, NewFacts, NewCode
<1>9. HoldsPort(p)' <=> HoldsPort(p)
  BY <1>2, <1>7 DEF HoldsPort
<1>10. (port' = p <=> HoldsPort(p)') /\ Dropped(p)' /\ \A d : ~Pending(p, d)
  BY <1>1, <1>2, <1>6, <1>7, <1>9, NoPending DEF Orderly, Dropped
<1>11. QED
  BY <1>2, <1>3, <1>5, <1>6, <1>7, <1>8, <1>10, OnOrder

LEMMA SendOrder ==
  ASSUME Calm, NEW p \in Proc, Send(p)
  PROVE  Order'
<1>1. Runs /\ RunInv(p) /\ Order /\ Orderly(p) /\ ~May("pieces")
  BY CalmFacts
<1>2. /\ client[p].pc = "sending" /\ client[p].choice # Exit
      /\ conn[p].asked = Wanted(p)
  BY <1>1 DEF Send, RunInv, Connected, Commanding
<1>3. conn[p].asked # <<>>
  BY <1>2 DEF Wanted
<1>4. Length(p) <= BuffSize
  BY <1>3, CalmFacts
<1>5. conn[p].state = "reading" /\ conn[p].code = "none"
  BY <1>1, <1>2, <1>3, <1>4 DEF RunInv, InOnePiece, Orderly
<1>6. /\ OthersKeep(p) /\ conn'[p].state = "reading" /\ conn'[p].code = "none"
      /\ GoesTo(p, "sending") \/ GoesTo(p, "receiving")
  BY <1>1, <1>3, <1>5, SendFacts
<1>7. client'[p].pc \in {"sending", "receiving"} /\ client'[p].choice = client[p].choice
  BY <1>6 DEF GoesTo
<1>8. UNCHANGED <<registered, mine, updates, net, port>>
  BY DEF Send, serverVars
<1>9. HoldsPort(p)' <=> HoldsPort(p)
  BY <1>2, <1>7 DEF HoldsPort
<1>10. Dropped(p)' /\ Active(p)
  BY <1>2, <1>6 DEF Dropped, Active, Idle
<1>11. (port' = p <=> HoldsPort(p)') /\ \A d : ~Pending(p, d)
  BY <1>1, <1>2, <1>8, <1>9, NoPending DEF Orderly
<1>12. client[p].choice.command # NoCommand
  BY <1>1, <1>2 DEF Orderly
<1>13. QED
  BY <1>2, <1>6, <1>7, <1>8, <1>10, <1>11, <1>12, OnOrder

LEMMA ReceiveAnswerOrder ==
  ASSUME Calm, NEW p \in Proc, ReceiveAnswer(p)
  PROVE  Order'
<1>1. Runs /\ RunInv(p) /\ Order /\ Orderly(p)
  BY CalmFacts
<1>2. /\ OthersKeep(p) /\ client' = client /\ client[p].pc = "receiving"
      /\ conn'[p].state = conn[p].state /\ conn'[p].code = conn[p].code
  BY <1>1, ReceiveAnswerFacts
<1>3. UNCHANGED <<registered, mine, updates, net, port>>
  BY DEF ReceiveAnswer, serverVars, clientVars
<1>4. client[p].choice # Exit /\ Active(p)
  BY <1>1, <1>2 DEF RunInv, Connected, Active, Idle
<1>5. HoldsPort(p)' <=> HoldsPort(p)
  BY <1>2 DEF HoldsPort
<1>6. Counted' = Counted
  BY <1>3, CountedKept
<1>7. Dropped(p)' /\ (port' = p <=> HoldsPort(p)')
  BY <1>1, <1>2, <1>3, <1>5, <1>6 DEF Orderly, Dropped
<1>8. \A d : Pending(p, d) => Pending(p, d)'
  BY <1>2 DEF Pending, Succeeded
<1>9. QED
  BY <1>1, <1>2, <1>3, <1>4, <1>7, <1>8, OnOrder DEF Orderly

\* What the handler of a careful user's run has read is the whole request.
LEMMA AtHandler ==
  ASSUME Calm, NEW p \in Proc, conn[p].state # "none"
  PROVE  /\ client[p].pc \in {"sending", "receiving"} /\ conn[p].open /\ Active(p)
         /\ client[p].choice # Exit /\ client[p].choice.value \in Dirs
         /\ conn[p].asked = Wanted(p) /\ conn[p].asked # <<>> /\ Length(p) <= BuffSize
         /\ conn[p].state \in {"line", "answered"} =>
              client[p].pc = "receiving" /\ conn[p].taken = Length(p)
         /\ conn[p].state = "line" => Understood(p)
<1>1. Runs /\ RunInv(p) /\ Order /\ Orderly(p) /\ ~May("pieces")
  BY CalmFacts
<1>2. client[p].pc \in {"sending", "receiving"}
  BY <1>1 DEF Orderly
<1>3. /\ conn[p].open /\ conn[p].asked = Wanted(p) /\ client[p].choice # Exit
      /\ client[p].choice.value \in Dirs
  BY <1>1, <1>2 DEF RunInv, Connected, Commanding
<1>4. conn[p].asked # <<>>
  BY <1>3 DEF Wanted
<1>5. Length(p) <= BuffSize
  BY <1>4, CalmFacts
<1>6. ASSUME conn[p].state \in {"line", "answered"}
      PROVE  /\ client[p].pc = "receiving" /\ conn[p].taken = Length(p)
             /\ conn[p].state = "line" => Understood(p)
  <2>1. client[p].pc = "receiving"
    BY <1>1, <1>2, <1>4, <1>5, <1>6 DEF RunInv, InOnePiece
  <2>2. QED
    BY <1>1, <1>4, <1>5, <1>6, <2>1 DEF RunInv, InOnePiece
<1>7. Active(p)
  BY <1>2 DEF Active, Idle
<1>8. QED
  BY <1>2, <1>3, <1>4, <1>5, <1>6, <1>7

\* These never happen to a careful user's run.
LEMMA NeverHappens ==
  ASSUME Calm, NEW p \in Proc
  PROVE  /\ ~Reset(p) /\ ~Spin(p) /\ ~ReceiveNothing(p) /\ ~AnswerUnknown(p)
         /\ ~HandlerOver(p) /\ ~Interrupt(p)
<1>1. Runs /\ RunInv(p) /\ Orderly(p) /\ ~May("rude") /\ ended = "no"
  BY CalmFacts DEF Calm
<1>2. ~Reset(p)
  <2>1. SUFFICES ASSUME Reset(p) PROVE FALSE
    OBVIOUS
  <2>2. conn[p].state = "answered" /\ conn[p].taken < Length(p)
    BY <2>1 DEF Reset
  <2>3. conn[p].asked # <<>> /\ conn[p].taken = Length(p)
    BY <2>2, AtHandler
  <2>4. Length(p) \in Nat
    BY <1>1, <2>3, LengthFacts
  <2>5. QED
    BY <2>2, <2>3, <2>4
<1>3. ~Spin(p)
  BY <1>1 DEF Spin, Orderly
<1>4. ~ReceiveNothing(p)
  BY AtHandler DEF ReceiveNothing
<1>5. ~AnswerUnknown(p)
  BY AtHandler DEF AnswerUnknown
<1>6. ~HandlerOver(p)
  BY AtHandler DEF HandlerOver
<1>7. ~Interrupt(p)
  BY <1>1 DEF Interrupt
<1>8. QED
  BY <1>2, <1>3, <1>4, <1>5, <1>6, <1>7

LEMMA ReceiveOrder ==
  ASSUME Calm, NEW p \in Proc, Receive(p)
  PROVE  Order'
<1>1. Runs /\ RunInv(p) /\ Order /\ Orderly(p)
  BY CalmFacts
<1>2. conn[p].state = "reading" /\ conn[p].code = "none"
  BY <1>1 DEF Receive, Orderly
<1>3. /\ client[p].pc \in {"sending", "receiving"} /\ Active(p) /\ client[p].choice # Exit
      /\ conn[p].asked # <<>>
  BY <1>2, AtHandler
<1>4. conn[p].sent <= Length(p)
  BY <1>1, <1>3 DEF RunInv, Connected
<1>5. /\ OthersKeep(p) /\ client' = client /\ conn'[p].state \in {"reading", "line"}
      /\ conn'[p].code = conn[p].code
  BY <1>1, <1>3, <1>4, ReceiveFacts
<1>6. UNCHANGED <<registered, mine, updates, net, port>>
  BY DEF Receive, serverVars, clientVars
<1>7. HoldsPort(p)' <=> HoldsPort(p)
  BY <1>5 DEF HoldsPort
<1>8. Dropped(p)' /\ \A d : ~Pending(p, d)
  BY <1>2, <1>5, NoPending DEF Dropped
<1>9. port' = p <=> HoldsPort(p)'
  BY <1>1, <1>6, <1>7 DEF Orderly
<1>10. conn'[p].code = "none"
  BY <1>2, <1>5
<1>11. QED
  BY <1>1, <1>3, <1>5, <1>6, <1>8, <1>9, <1>10, OnOrder DEF Orderly

\* A run that has its answer waits, or is over; the user knows of what was registered.
LEMMA FinishOrder ==
  ASSUME Calm, NEW p \in Proc, Finish(p)
  PROVE  Order'
<1>1. Runs /\ RunInv(p) /\ Order /\ Orderly(p)
  BY CalmFacts
<1> DEFINE command == client[p].choice.command
           value == client[p].choice.value
           success == conn[p].code \in {"200", "201", "202"}
<1>2. /\ OthersKeep(p) /\ conn'[p] = NoConnection /\ client[p].pc = "receiving"
      /\ \/ Over(p) /\ client'[p] = Off /\ ~(success /\ client[p].choice.wait)
         \/ /\ GoesTo(p, "waiting") /\ UNCHANGED <<port, hearing, net>>
            /\ success /\ client[p].choice.wait
  BY <1>1, FinishFacts
<1>3. /\ UNCHANGED <<registered, updates>>
      /\ mine' = IF command = "d" /\ conn[p].code \in {"200", "400"} THEN mine \ {value}
                 ELSE IF command # "d" /\ success THEN mine \cup {value}
                 ELSE mine
  BY DEF Finish, serverVars
<1>4. /\ Active(p) /\ client[p].choice # Exit /\ command # NoCommand
      /\ \A q \in Proc : q # p => ~Active(q)
  <2>1. Active(p)
    BY <1>2 DEF Active, Idle
  <2>2. client[p].choice # Exit /\ command # NoCommand
    BY <1>1, <1>2 DEF RunInv, Connected, Orderly
  <2>3. QED
    BY <1>1, <2>1, <2>2, AloneFacts
<1> HIDE DEF command, value, success
<1>5. /\ \A q \in Proc : q # p => (port' = q <=> port = q)
      /\ net' = net \/ net' = <<>>
      /\ Orderly(p)'
      /\ success /\ client[p].choice.wait => client'[p].pc = "waiting"
  <2>1. CASE Over(p) /\ client'[p] = Off /\ ~(success /\ client[p].choice.wait)
    <3>1. /\ \A q \in Proc : q # p => (port' = q <=> port = q)
          /\ port' # p /\ (net' = net \/ net' = <<>>)
      BY <2>1, OverPort
    <3>2. Orderly(p)'
      BY <1>2, <2>1, <3>1, OffOrderly
    <3>3. QED
      BY <2>1, <3>1, <3>2
  <2>2. CASE /\ GoesTo(p, "waiting") /\ UNCHANGED <<port, hearing, net>>
             /\ success /\ client[p].choice.wait
    <3>1. client'[p].pc = "waiting" /\ port' = port /\ net' = net
      BY <2>2 DEF GoesTo
    <3>2. port = p
      BY <1>1, <1>2, <2>2 DEF Orderly, HoldsPort
    <3>3. Orderly(p)'
      BY <1>2, <3>1, <3>2, WaitingOrderly
    <3>4. QED
      BY <3>1, <3>3
  <2>3. QED
    BY <1>2, <2>1, <2>2 DEF success
<1>6. OneActive' /\ \A q \in Proc : Orderly(q)'
  BY <1>1, <1>2, <1>4, <1>5, OrderlyStep DEF Order
<1>7. Consistent'
  BY <1>1, <1>3, <1>5, ConsistentKept DEF Order
<1>8. Known'
  <2>1. Counted' = Counted /\ Known
    BY <1>1, <1>3, CountedKept DEF Order
  <2>2. Waits => Waits'
    BY <1>2, WaitsFacts
  <2>3. ASSUME NEW e \in Counted' PROVE e \in mine'
    <3>1. CASE e \in mine
      <4>1. ASSUME command = "d", conn[p].code \in {"200", "400"} PROVE e # value
        <5>1. conn[p].state = "answered"
          BY <1>1, <4>1 DEF Orderly
        <5>2. value \notin Counted
          BY <1>1, <1>2, <4>1, <5>1 DEF Orderly, Dropped, command, value
        <5>3. QED
          BY <2>1, <2>3, <5>2
      <4>2. QED
        BY <1>3, <3>1, <4>1
    <3>2. CASE e \notin mine
      <4>1. PICK q \in Proc : Pending(q, e)
        BY <2>1, <2>3, <3>2 DEF Known
      <4>2. q = p
        BY <1>4, <4>1 DEF Pending, Active, Idle
      <4>3. success /\ command # "d" /\ value = e
        BY <4>1, <4>2 DEF Pending, Succeeded, success, command, value
      <4>4. QED
        BY <1>3, <4>3
    <3>3. QED
      BY <3>1, <3>2
  <2>4. ASSUME mine' # {} PROVE Waits'
    <3>1. CASE mine # {}
      BY <2>1, <2>2, <3>1 DEF Known
    <3>2. CASE mine = {}
      <4>1. command # "d" /\ success
        BY <1>3, <2>4, <3>2
      <4>2. Waits \/ client[p].choice.wait
        BY <1>1, <1>4, <4>1 DEF Orderly, Sensible, command
      <4>3. CASE Waits
        BY <2>2, <4>3
      <4>4. CASE client[p].choice.wait
        BY <1>5, <4>1, <4>4 DEF Waits
      <4>5. QED
        BY <4>2, <4>3, <4>4
    <3>3. QED
      BY <3>1, <3>2
  <2>5. registered' \subseteq Dirs
    BY <1>3, <2>1 DEF Known
  <2>6. QED
    BY <2>3, <2>4, <2>5 DEF Known
<1>9. QED
  BY <1>6, <1>7, <1>8 DEF Order

\* The user ends the run that waits when there is nothing to hear of.
LEMMA KeyOrder ==
  ASSUME Calm, NEW p \in Proc, Key(p)
  PROVE  Order'
<1>1. Runs /\ RunInv(p) /\ Order /\ Orderly(p) /\ ~May("rude")
  BY CalmFacts
<1>2. /\ client[p].pc = "waiting" /\ Over(p) /\ conn' = conn
      /\ UNCHANGED <<registered, mine, updates>>
  BY DEF Key, serverVars
<1>3. mine = {} /\ \A q \in Proc : Idle(q)
  BY <1>1 DEF Key, MayEnd
<1>4. OthersKeep(p) /\ client'[p] = Off
  BY <1>1, <1>2, OverAlone
<1>5. conn'[p] = NoConnection
  BY <1>1, <1>2 DEF RunInv, Connected
<1>6. /\ \A q \in Proc : q # p => (port' = q <=> port = q)
      /\ port' # p /\ (net' = net \/ net' = <<>>)
  BY <1>2, OverPort
<1>7. Orderly(p)'
  BY <1>4, <1>5, <1>6, OffOrderly
<1>8. \A q \in Proc : q # p => ~Active(q)
  BY <1>3 DEF Active
<1>9. OneActive' /\ \A q \in Proc : Orderly(q)'
  BY <1>1, <1>4, <1>6, <1>7, <1>8, OrderlyStep DEF Order
<1>10. Consistent'
  BY <1>1, <1>2, <1>6, ConsistentKept DEF Order
<1>11. Known'
  <2>1. \A q \in Proc : \A d : ~Pending(q, d)
    BY <1>3 DEF Pending, Idle
  <2>2. Counted = {}
    BY <1>1, <1>3, <2>1 DEF Order, Known
  <2>3. Counted' = {} /\ mine' = {} /\ registered' \subseteq Dirs
    BY <1>1, <1>2, <1>3, <2>2, CountedKept DEF Order, Known
  <2>4. QED
    BY <2>3 DEF Known
<1>12. QED
  BY <1>9, <1>10, <1>11 DEF Order

LEMMA NothingTold ==
  ASSUME updates = <<>>
  PROVE  Told = {} /\ Counted = registered
BY DEF Told, Counted

LEMMA AnswerOrder ==
  ASSUME Calm, NEW p \in Proc, Answer(p)
  PROVE  Order'
<1>1. Runs /\ RunInv(p) /\ Order /\ Orderly(p) /\ ~May("delay")
  BY CalmFacts
<1>2. /\ conn[p].state = "line" /\ updates = <<>> /\ net = <<>>
      /\ UNCHANGED <<client, port, mine, updates, net>>
  BY <1>1 DEF Answer, clientVars
<1> DEFINE command == client[p].choice.command
           value == client[p].choice.value
<1>3. /\ client[p].pc = "receiving" /\ Active(p) /\ Understood(p) /\ value \in Dirs
      /\ conn[p].asked = Wanted(p)
  BY <1>2, AtHandler
<1>4. /\ OthersKeep(p) /\ conn'[p].state = "answered" /\ conn'[p].code \in Codes
      /\ registered \ {value} = registered' \ {value}
      /\ command = "d" => value \notin registered'
      /\ value \in registered' =>
           value \in registered \/ conn'[p].code \in {"200", "201", "202"}
  <2>1. conn'[p].did = Wanted(p)
    BY <1>1, <1>3, AnswerFacts
  <2>2. conn'[p].did[1] = command /\ conn'[p].did[2] = value
    BY <2>1 DEF Wanted
  <2>3. QED
    BY <1>1, <2>2, AnswerFacts
<1> HIDE DEF command, value
<1>5. \A q \in Proc : q # p => ~Active(q)
  BY <1>1, <1>3, AloneFacts
<1>6. Told' = {} /\ Counted' = registered' /\ Told = {} /\ Counted = registered
  BY <1>2, NothingTold DEF Told, Counted
<1>7. Orderly(p)'
  <2>1. conn'[p].code # "none"
    BY <1>4 DEF Codes
  <2>2. HoldsPort(p)' <=> HoldsPort(p)
    BY <1>2 DEF HoldsPort
  <2>3. Sensible(p)'
    BY <1>1, <1>2 DEF Orderly, Sensible, Waits, Active, Idle
  <2>4. Dropped(p)'
    BY <1>2, <1>4, <1>6 DEF Dropped, command, value
  <2>5. QED
    BY <1>1, <1>2, <1>3, <1>4, <2>1, <2>2, <2>3, <2>4 DEF Orderly
<1>8. OneActive' /\ \A q \in Proc : Orderly(q)'
  BY <1>1, <1>2, <1>4, <1>5, <1>7, OrderlyStep DEF Order
<1>9. ASSUME NEW e \in registered PROVE e \in mine
  <2>1. \A q \in Proc : ~Pending(q, e)
    BY <1>2, <1>5 DEF Pending, Succeeded, Active, Idle
  <2>2. QED
    BY <1>1, <1>6, <1>9, <2>1 DEF Order, Known
<1>10. Known'
  <2>1. registered' \subseteq Dirs
    BY <1>1, <1>3, <1>4 DEF Order, Known
  <2>2. ASSUME NEW e \in registered' PROVE e \in mine' \/ \E q \in Proc : Pending(q, e)'
    <3>1. CASE e \in registered
      BY <1>2, <1>9, <3>1
    <3>2. CASE e \notin registered
      <4>1. e = value
        BY <1>4, <2>2, <3>2
      <4>2. command # "d" /\ conn'[p].code \in {"200", "201", "202"}
        BY <1>4, <2>2, <3>2, <4>1
      <4>3. Pending(p, e)'
        BY <1>2, <1>3, <1>4, <4>1, <4>2 DEF Pending, Succeeded, command, value
      <4>4. QED
        BY <4>3
    <3>3. QED
      BY <3>1, <3>2
  <2>3. mine' # {} => Waits'
    BY <1>1, <1>2 DEF Order, Known, Waits
  <2>4. QED
    BY <1>6, <2>1, <2>2, <2>3 DEF Known
<1>11. Consistent'
  <2>1. net' = <<>> /\ updates' = <<>>
    BY <1>2
  <2>2. \A d : Unsaid(d)'
    BY <2>1, EmptyFacts DEF Unsaid
  <2>3. QED
    BY <1>6, <2>1, <2>2 DEF Consistent
<1>12. QED
  BY <1>8, <1>10, <1>11 DEF Order

\* What is refused changes nothing that the server has registered.
LEMMA RefuseOrder ==
  ASSUME Calm, NEW p \in Proc, Refuse(p)
  PROVE  Order'
<1>1. Runs /\ RunInv(p) /\ Order /\ Orderly(p)
  BY CalmFacts
<1>2. /\ OthersKeep(p) /\ client' = client /\ conn[p].state = "line"
      /\ conn'[p].state = "answered" /\ conn'[p].code \in {"403", "404"}
  BY <1>1, RefuseFacts
<1>3. client[p].pc = "receiving" /\ Active(p) /\ client[p].choice # Exit
  BY <1>2, AtHandler
<1>4. UNCHANGED <<registered, mine, updates, net, port>>
  BY DEF Refuse, serverVars, clientVars
<1>5. HoldsPort(p)' <=> HoldsPort(p)
  BY <1>2 DEF HoldsPort
<1>6. Dropped(p)' /\ \A d : ~Pending(p, d)
  BY <1>2 DEF Dropped, Pending, Succeeded
<1>7. port' = p <=> HoldsPort(p)'
  BY <1>1, <1>4, <1>5 DEF Orderly
<1>8. conn'[p].code # "none"
  BY <1>2
<1>9. QED
  BY <1>1, <1>2, <1>3, <1>4, <1>6, <1>7, <1>8, OnOrder DEF Orderly

-----------------------------------------------------------------------------
(* The updates of a careful user's host.                                   *)

\* The server's steps leave the runs alone, and tell of nothing new.
LEMMA OrderKept ==
  ASSUME Order, UNCHANGED <<client, conn, port>>, Counted' \subseteq Counted
  PROVE  OneActive' /\ \A q \in Proc : Orderly(q)'
<1>1. Waits' <=> Waits
  BY DEF Waits
<1>2. OneActive'
  BY DEF Order, OneActive, Active, Idle
<1>3. ASSUME NEW q \in Proc PROVE Orderly(q)'
  <2>1. Orderly(q)
    BY DEF Order
  <2>2. Sensible(q)'
    BY <1>1, <2>1 DEF Orderly, Sensible, Active, Idle
  <2>3. Dropped(q)'
    BY <2>1 DEF Orderly, Dropped
  <2>4. HoldsPort(q)' <=> HoldsPort(q)
    BY DEF HoldsPort
  <2>5. QED
    BY <2>1, <2>2, <2>3, <2>4 DEF Orderly
<1>4. QED
  BY <1>2, <1>3

LEMMA KnownLess ==
  ASSUME Known, UNCHANGED <<client, conn>>, Counted' \subseteq Counted,
         registered' \subseteq Dirs, mine' \subseteq mine, mine \cap Counted' \subseteq mine'
  PROVE  Known'
<1>1. Waits' <=> Waits
  BY DEF Waits
<1>2. ASSUME NEW d \in Counted' PROVE d \in mine' \/ \E q \in Proc : Pending(q, d)'
  <2>1. CASE d \in mine
    BY <1>2, <2>1
  <2>2. CASE d \notin mine
    <3>1. PICK q \in Proc : Pending(q, d)
      BY <1>2, <2>2 DEF Known
    <3>2. Pending(q, d)'
      BY <3>1 DEF Pending, Succeeded
    <3>3. QED
      BY <3>2
  <2>3. QED
    BY <2>1, <2>2
<1>3. mine' # {} => Waits'
  BY <1>1 DEF Known
<1>4. QED
  BY <1>2, <1>3 DEF Known

\* Only the text of a deletion tells of one.
LEMMA OtherBodies ==
  ASSUME NEW b \in Bodies \cup LongBodies, NEW d \in Dirs \cup {Elsewhere}
  PROVE  b # GoneBody(d)
<1>1. "gone" \notin Range(b)
  BY BodiesAreLines
<1>2. "gone" \in Range(GoneBody(d))
  <2>1. 2 \in DOMAIN GoneBody(d) /\ GoneBody(d)[2] = "gone"
    BY DEF GoneBody
  <2>2. QED
    BY <2>1 DEF Range
<1>3. QED
  BY <1>1, <1>2

\* What is told of the deletion of d, behind texts that tell of none, is its own.
LEMMA AppendFacts ==
  ASSUME NEW B, NEW s \in Seq(B), NEW g
  PROVE  /\ DOMAIN Append(s, g) = 1..(Len(s) + 1) /\ Len(Append(s, g)) = Len(s) + 1
         /\ Len(s) \in Nat /\ Append(s, g)[Len(s) + 1] = g
         /\ \A i \in DOMAIN Append(s, g) : i # Len(s) + 1 => Append(s, g)[i] \in B
<1>1. /\ Len(s) \in Nat /\ DOMAIN Append(s, g) = 1..(Len(s) + 1)
      /\ Len(Append(s, g)) = Len(s) + 1 /\ Append(s, g)[Len(s) + 1] = g
  OBVIOUS
<1>2. ASSUME NEW i \in 1..(Len(s) + 1), i # Len(s) + 1 PROVE Append(s, g)[i] \in B
  <2>1. i \in 1..Len(s)
    BY <1>1, <1>2
  <2>2. Append(s, g)[i] = s[i] /\ s[i] \in B
    BY <2>1
  <2>3. QED
    BY <2>2
<1>3. QED
  BY <1>1, <1>2

LEMMA QueueOrder ==
  ASSUME Calm, Queue
  PROVE  Order'
<1>1. Rest /\ Order
  BY DEF Calm, Inv
<1>2. /\ UNCHANGED <<client, conn, port, mine, net>>
      /\ updates = <<>> /\ registered # {}
  BY DEF Queue, clientVars
<1> DEFINE B == Bodies \cup IF May("long") THEN LongBodies ELSE {}
<1>3. PICK n \in 1..2, d \in registered \cup {None} :
        /\ registered' = registered \ {d}
        /\ \E bodies \in [1..n -> B] :
             updates' = IF d = None THEN bodies ELSE Append(Front(bodies), GoneBody(d))
  BY <1>1, QueueFacts
<1>4. PICK bodies \in [1..n -> B] :
        updates' = IF d = None THEN bodies ELSE Append(Front(bodies), GoneBody(d))
  BY <1>3
<1>5. \A b \in B : \A e \in Dirs \cup {Elsewhere} : b # GoneBody(e)
  BY OtherBodies
<1> HIDE DEF B
<1>6. Told = {} /\ Counted = registered
  BY <1>2, NothingTold
<1>7. registered \subseteq Dirs /\ None \notin Dirs \cup {Elsewhere}
  BY <1>1, NoneIsNothing DEF Order, Known
<1>8. /\ Told' = {d} \ {None}
      /\ \A i \in DOMAIN updates' : \A e \in Dirs \cup {Elsewhere} :
           updates'[i] = GoneBody(e) => i = Len(updates')
  <2>1. CASE d = None
    <3>1. bodies \in Seq(B) /\ updates' = bodies
      BY <1>4, <2>1, QueuedFacts
    <3>2. \A i \in DOMAIN updates' : updates'[i] \in B
      BY <3>1
    <3>3. QED
      BY <1>5, <2>1, <3>2 DEF Told
  <2>2. CASE d # None
    <3>1. PICK f : f = Front(bodies)
      OBVIOUS
    <3>2. f \in Seq(B) /\ updates' = Append(f, GoneBody(d))
      BY <1>4, <2>2, <3>1, QueuedFacts
    <3>3. d \in Dirs
      BY <1>7, <2>2
    <3>4. /\ DOMAIN updates' = 1..(Len(f) + 1) /\ Len(updates') = Len(f) + 1
          /\ Len(f) \in Nat /\ updates'[Len(f) + 1] = GoneBody(d)
          /\ \A i \in DOMAIN updates' : i # Len(f) + 1 => updates'[i] \in B
      BY <3>2, AppendFacts
    <3>5. \A i \in DOMAIN updates' : \A e \in Dirs \cup {Elsewhere} :
            updates'[i] = GoneBody(e) => i = Len(f) + 1
      BY <1>5, <3>4
    <3>6. \A e : GoneBody(d) = GoneBody(e) => e = d
      BY DEF GoneBody
    <3>7. Len(f) + 1 \in DOMAIN updates'
      BY <3>4
    <3>8. Told' = {d}
      BY <3>3, <3>4, <3>5, <3>6, <3>7 DEF Told
    <3>9. QED
      BY <2>2, <3>4, <3>5, <3>8
  <2>3. QED
    BY <2>1, <2>2
<1>9. Counted' = Counted /\ registered' \cap Told' = {}
  BY <1>3, <1>6, <1>7, <1>8 DEF Counted
<1>10. OneActive' /\ \A q \in Proc : Orderly(q)'
  BY <1>1, <1>2, <1>9, OrderKept
<1>11. Known'
  <2>1. registered' \subseteq Dirs
    BY <1>3, <1>7
  <2>2. QED
    BY <1>1, <1>2, <1>9, <2>1, KnownLess DEF Order
<1>12. Consistent'
  <2>1. \A e \in Counted' : Unsaid(e)'
    BY <1>1, <1>2, <1>9 DEF Order, Consistent, Unsaid
  <2>2. Counted' # {}
    BY <1>2, <1>6, <1>9
  <2>3. QED
    BY <1>8, <1>9, <2>1, <2>2 DEF Consistent
<1>13. QED
  BY <1>10, <1>11, <1>12 DEF Order

LEMMA TailFacts ==
  ASSUME NEW S, NEW s \in Seq(S), s # <<>>
  PROVE  /\ Head(s) = s[1] /\ Head(s) \in S /\ 1 \in DOMAIN s
         /\ Len(s) \in Nat \ {0} /\ Len(Tail(s)) = Len(s) - 1
         /\ \A i \in DOMAIN Tail(s) : i \in Nat /\ i + 1 \in DOMAIN s /\ Tail(s)[i] = s[i + 1]
         /\ \A i \in DOMAIN s : i # 1 => /\ i \in Nat /\ i - 1 \in DOMAIN Tail(s)
                                         /\ Tail(s)[i - 1] = s[i]
<1>1. /\ Head(s) = s[1] /\ Len(s) \in Nat \ {0} /\ Len(Tail(s)) = Len(s) - 1
      /\ DOMAIN s = 1..Len(s) /\ DOMAIN Tail(s) = 1..(Len(s) - 1)
  OBVIOUS
<1>2. PICK n \in Nat \ {0} : n = Len(s)
  BY <1>1
<1>3. \A i \in 1..(n - 1) : i \in Nat /\ i + 1 \in 1..n
  OBVIOUS
<1>4. \A i \in 1..n : i # 1 => i \in Nat /\ i - 1 \in 1..(n - 1) /\ (i - 1) + 1 = i
  OBVIOUS
<1>5. \A i \in 1..(n - 1) : Tail(s)[i] = s[i + 1]
  BY <1>1, <1>2
<1>6. 1 \in 1..n
  OBVIOUS
<1>7. Head(s) \in S
  BY <1>1, <1>2, <1>6
<1>8. \A i \in 1..n : i # 1 => Tail(s)[i - 1] = s[i]
  BY <1>4, <1>5
<1>9. QED
  BY <1>1, <1>2, <1>3, <1>4, <1>5, <1>6, <1>7, <1>8

\* The last update may tell of a deletion; what it tells of is then over.
LEMMA SendUpdateOrder ==
  ASSUME Calm, SendUpdate, ended' = "no"
  PROVE  Order'
<1>1. Rest /\ Heard /\ Order /\ Consistent /\ Known
  BY DEF Calm, Inv, Order
<1>2. /\ UNCHANGED <<client, conn, port, mine, registered>> /\ updates # <<>>
      /\ updates' = Tail(updates)
      /\ net' = net \/ net' = Append(net, Text(Head(updates)))
  BY DEF SendUpdate, clientVars
<1>3. updates \in Seq(AllBodies)
  BY <1>1 DEF Heard
<1>4. /\ Head(updates) = updates[1] /\ Head(updates) \in AllBodies /\ 1 \in DOMAIN updates
      /\ Len(updates) \in Nat \ {0} /\ Len(updates') = Len(updates) - 1
      /\ \A i \in DOMAIN updates' :
           i \in Nat /\ i + 1 \in DOMAIN updates /\ updates'[i] = updates[i + 1]
      /\ \A i \in DOMAIN updates : i # 1 =>
           i \in Nat /\ i - 1 \in DOMAIN updates' /\ updates'[i - 1] = updates[i]
  BY <1>2, <1>3, TailFacts
<1>5. \A i \in DOMAIN updates : \A e \in Dirs \cup {Elsewhere} :
        updates[i] = GoneBody(e) => i = Len(updates)
  BY <1>1 DEF Consistent
<1>6. Told' \subseteq Told
  BY <1>4 DEF Told
<1>7. Counted' \subseteq Counted
  BY <1>2, <1>6 DEF Counted
<1>8. OneActive' /\ \A q \in Proc : Orderly(q)'
  BY <1>1, <1>2, <1>7, OrderKept
<1>9. Known'
  <2>1. registered' \subseteq Dirs
    BY <1>1, <1>2 DEF Known
  <2>2. QED
    BY <1>1, <1>2, <1>7, <2>1, KnownLess
<1>10. ASSUME NEW e \in Counted' PROVE Unsaid(e)'
  <2> DEFINE S == Texts \ {Text(GoneBody(e))}
             t == Text(Head(updates))
  <2>1. net \in Seq(S)
    BY <1>1, <1>7, <1>10 DEF Consistent, Unsaid
  <2>2. t # Text(GoneBody(e))
    <3>1. SUFFICES ASSUME t = Text(GoneBody(e)) PROVE FALSE
      OBVIOUS
    <3>2. e \in Dirs \cup {Elsewhere}
      BY <1>1, <1>7, <1>10 DEF Rest, Counted, Told
    <3>3. Head(updates) = GoneBody(e)
      BY <1>4, <3>1, <3>2, GoneOnly
    <3>4. updates[1] = GoneBody(e) /\ 1 = Len(updates)
      BY <1>4, <1>5, <3>2, <3>3
    <3>5. e \in Told
      BY <1>4, <3>2, <3>4 DEF Told
    <3>6. e \notin registered'
      BY <1>1, <1>2, <3>5 DEF Consistent
    <3>7. Told' = {}
      <4>1. updates' = <<>>
        BY <1>2, <1>3, <3>4
      <4>2. QED
        BY <4>1 DEF Told
    <3>8. QED
      BY <1>10, <3>6, <3>7 DEF Counted
  <2>3. t \in S
    BY <1>4, <2>2 DEF Texts
  <2> HIDE DEF S, t
  <2>4. net' = net \/ net' = Append(net, t)
    BY <1>2 DEF t
  <2>5. net' \in Seq(S)
    BY <2>1, <2>3, <2>4
  <2>6. QED
    BY <2>5 DEF Unsaid, S
<1>11. \A i \in DOMAIN updates' : \A e \in Dirs \cup {Elsewhere} :
         updates'[i] = GoneBody(e) => i = Len(updates')
  <2>1. SUFFICES ASSUME NEW i \in DOMAIN updates', NEW e \in Dirs \cup {Elsewhere},
                        updates'[i] = GoneBody(e)
                 PROVE  i = Len(updates')
    OBVIOUS
  <2>2. i \in Nat /\ i + 1 = Len(updates)
    BY <1>4, <1>5, <2>1
  <2>3. QED
    BY <1>4, <2>2
<1>12. ASSUME updates' # <<>> PROVE Counted' # {}
  <2>1. PICK e : e \in Counted
    BY <1>1, <1>2 DEF Consistent
  <2>2. CASE e \in registered
    BY <1>2, <2>2 DEF Counted
  <2>3. CASE e \notin registered
    <3>1. PICK i \in DOMAIN updates : updates[i] = GoneBody(e) /\ e \in Dirs \cup {Elsewhere}
      BY <2>1, <2>3 DEF Counted, Told
    <3>2. i = Len(updates)
      BY <1>5, <3>1
    <3>3. Len(updates) # 1
      BY <1>2, <1>3, <1>12
    <3>4. i - 1 \in DOMAIN updates' /\ updates'[i - 1] = GoneBody(e)
      BY <1>4, <3>1, <3>2, <3>3
    <3>5. e \in Told'
      BY <3>1, <3>4 DEF Told
    <3>6. QED
      BY <3>5 DEF Counted
  <2>4. QED
    BY <2>2, <2>3
<1>13. registered' \cap Told' = {}
  BY <1>1, <1>2, <1>6 DEF Consistent
<1>14. Consistent'
  BY <1>10, <1>11, <1>12, <1>13 DEF Consistent
<1>15. QED
  BY <1>8, <1>9, <1>14 DEF Order

\* What is heard is of no deletion that is still counted: the user forgets nothing of it.
LEMMA ArriveOrder ==
  ASSUME Calm, Arrive
  PROVE  Order'
<1>1. Rest /\ Heard /\ Order /\ Consistent /\ Known
  BY DEF Calm, Inv, Order
<1>2. UNCHANGED <<world, client, port, conn, registered, updates>>
  BY DEF Arrive, serverVars
<1>3. Counted' = Counted /\ Told' = Told
  BY <1>2, CountedKept
<1>4. PICK i \in DOMAIN net, b \in AllBodies :
        /\ net[i] = Text(b) /\ (~May("long") => b \in ShortBodies)
        /\ net' = RemoveAt(net, i) \/ net' = net
        /\ IF port = None THEN UNCHANGED <<hearing, shown, mine>> ELSE Hear(Text(b))
  BY <1>1, ArriveFacts
<1>5. mine' \subseteq mine /\ \A d \in mine \ mine' : d \in Dirs => b = GoneBody(d)
  <2>1. CASE port = None
    BY <1>4, <2>1
  <2>2. CASE port # None
    BY <1>1, <1>2, <1>4, <2>2, HearFacts
  <2>3. QED
    BY <2>1, <2>2
<1>6. ASSUME NEW d \in Counted PROVE Unsaid(d)' /\ Text(b) # Text(GoneBody(d))
  <2> DEFINE S == Texts \ {Text(GoneBody(d))}
  <2>1. net \in Seq(S)
    BY <1>1, <1>6 DEF Consistent, Unsaid
  <2> HIDE DEF S
  <2>2. RemoveAt(net, i) \in Seq(S) /\ net[i] \in S
    BY <1>4, <2>1, RemoveAtFacts
  <2>3. net' \in Seq(S)
    BY <1>4, <2>1, <2>2
  <2>4. Text(b) \in S
    BY <1>4, <2>2
  <2>5. QED
    BY <2>3, <2>4 DEF Unsaid, S
<1>7. mine \cap Counted' \subseteq mine'
  BY <1>1, <1>3, <1>5, <1>6 DEF Rest
<1>8. OneActive' /\ \A q \in Proc : Orderly(q)'
  BY <1>1, <1>2, <1>3, OrderKept
<1>9. Known'
  <2>1. registered' \subseteq Dirs
    BY <1>1, <1>2 DEF Known
  <2>2. QED
    BY <1>1, <1>2, <1>3, <1>5, <1>7, <2>1, KnownLess
<1>10. Consistent'
  BY <1>1, <1>2, <1>3, <1>6 DEF Consistent
<1>11. QED
  BY <1>8, <1>9, <1>10 DEF Order

\* A step after which the server has not ended is one of these.
LEMMA OrderStep ==
  ASSUME Calm, Next, ended' = "no"
  PROVE  Order'
<1>1. CASE \E p \in Proc : Start(p) \/ ClientStep(p) \/ HandlerStep(p) \/ Interrupt(p) \/ Key(p)
  <2>1. PICK p \in Proc : Start(p) \/ ClientStep(p) \/ HandlerStep(p) \/ Interrupt(p) \/ Key(p)
    BY <1>1
  <2>2. CASE Start(p)
    BY <2>2, StartOrder
  <2>3. CASE ClientStep(p)
    BY <2>3, OptionsOrder, LoadOrder, OpenOrder, NothingOrder, ConnectOrder, SendOrder,
       ReceiveAnswerOrder, FinishOrder, NeverHappens DEF ClientStep
  <2>4. CASE HandlerStep(p)
    BY <2>4, ReceiveOrder, AnswerOrder, RefuseOrder, NeverHappens DEF HandlerStep
  <2>5. CASE Interrupt(p)
    BY <2>5, NeverHappens
  <2>6. CASE Key(p)
    BY <2>6, KeyOrder
  <2>7. QED
    BY <2>1, <2>2, <2>3, <2>4, <2>5, <2>6
<1>2. CASE Queue
  BY <1>2, QueueOrder
<1>3. CASE SendUpdate
  BY <1>3, SendUpdateOrder
<1>4. CASE Arrive
  BY <1>4, ArriveOrder
<1>5. CASE StopServer
  BY <1>5 DEF StopServer
<1>6. QED
  BY <1>1, <1>2, <1>3, <1>4, <1>5 DEF Next

\* A server that has ended does not come back, and the world stays as it is.
LEMMA EndedStays ==
  ASSUME [Next]_vars
  PROVE  world' = world /\ (ended' = "no" => ended = "no")
<1>1. ASSUME NEW p \in Proc,
             Start(p) \/ ClientStep(p) \/ HandlerStep(p) \/ Interrupt(p) \/ Key(p)
      PROVE  world' = world /\ (ended' = "no" => ended = "no")
  <2>1. CASE Start(p) \/ Interrupt(p) \/ Key(p)
    BY <2>1 DEF Start, Interrupt, Key, serverVars
  <2>2. CASE ClientStep(p)
    BY <2>2 DEF ClientStep, ExitOnOptions, LoadSettings, ExitOnSettings, OpenPort,
       NothingToDo, Connect, Send, ReceiveAnswer, Reset, Spin, Finish, serverVars
  <2>3. CASE HandlerStep(p)
    BY <2>3 DEF HandlerStep, Receive, ReceiveNothing, Answer, Refuse, AnswerUnknown,
       HandlerOver, serverVars
  <2>4. QED
    BY <1>1, <2>1, <2>2, <2>3
<1>2. CASE Queue \/ SendUpdate \/ Arrive \/ StopServer
  BY <1>2 DEF Queue, SendUpdate, Arrive, StopServer, serverVars
<1>3. CASE UNCHANGED vars
  BY <1>3 DEF vars, serverVars
<1>4. QED
  BY <1>1, <1>2, <1>3 DEF Next

LEMMA OrderStays ==
  ASSUME Inv, OrderWhileCareful, [Next]_vars
  PROVE  OrderWhileCareful'
<1>1. SUFFICES ASSUME Careful', RequestsFit, ended' = "no" PROVE Order'
  BY DEF OrderWhileCareful, RequestsFit
<1>2. world' = world /\ ended = "no"
  BY <1>1, EndedStays
<1>3. Careful /\ Calm
  BY <1>1, <1>2 DEF OrderWhileCareful, Careful, Calm
<1>4. CASE Next
  BY <1>1, <1>3, <1>4, OrderStep
<1>5. CASE UNCHANGED vars
  <2>1. UNCHANGED <<client, conn, port, mine, registered, updates, net>>
    BY <1>5 DEF vars, clientVars, serverVars
  <2>2. Counted' = Counted /\ Order /\ registered' \subseteq Dirs
    BY <1>3, <2>1, CountedKept DEF Calm, Order, Known
  <2>3. OneActive' /\ \A q \in Proc : Orderly(q)'
    BY <2>1, <2>2, OrderKept
  <2>4. Known'
    BY <2>1, <2>2, KnownLess DEF Order
  <2>5. Consistent'
    BY <2>1, <2>2, ConsistentKept DEF Order
  <2>6. QED
    BY <2>3, <2>4, <2>5 DEF Order
<1>6. QED
  BY <1>4, <1>5

LEMMA OrderInit ==
  ASSUME Init
  PROVE  Order
<1>1. /\ port = None /\ mine = {} /\ registered = {} /\ updates = <<>> /\ net = <<>>
      /\ client = [p \in Proc |-> Off] /\ conn = [p \in Proc |-> NoConnection]
  BY DEF Init
<1>2. ASSUME NEW p \in Proc PROVE ~Active(p) /\ Orderly(p)
  <2>1. client[p].pc = "off" /\ conn[p].state = "none" /\ conn[p].code = "none" /\ port # p
    BY <1>1, OffFacts, NoneIsNothing
  <2>2. ~Active(p) /\ ~HoldsPort(p)
    BY <2>1 DEF Active, Idle, HoldsPort
  <2>3. Orderly(p)
    BY <2>1, <2>2, Zenon DEF Orderly, Sensible, Dropped
  <2>4. QED
    BY <2>2, <2>3
<1>3. Counted = {}
  BY <1>1, NothingTold
<1>4. Known
  BY <1>1, <1>3 DEF Known
<1>5. Consistent
  BY <1>1, <1>3 DEF Consistent
<1>6. QED
  BY <1>2, <1>4, <1>5 DEF Order, OneActive

\* ClosedPortGetsNothing: the port of a careful user's host is open while the server
\* has the host registered or anything to send it, when every request fits into the
\* handler's buffer.
THEOREM ClosedPortIsSafe == RequestsFit => (Spec => []ClosedPortGetsNothing)
<1> SUFFICES ASSUME RequestsFit PROVE Spec => []ClosedPortGetsNothing
  OBVIOUS
<1>1. Init => OrderWhileCareful
  BY OrderInit DEF OrderWhileCareful
<1>2. Inv /\ OrderWhileCareful /\ [Next]_vars => OrderWhileCareful'
  BY OrderStays
<1>3. ASSUME Inv, OrderWhileCareful PROVE ClosedPortGetsNothing
  <2>1. SUFFICES ASSUME Careful, ended = "no", registered # {} \/ updates # <<>>
                 PROVE  port # None
    BY DEF ClosedPortGetsNothing
  <2>2. Order
    BY <1>3, <2>1 DEF OrderWhileCareful
  <2>3. Counted # {}
    BY <2>1, <2>2 DEF Order, Consistent, Counted
  <2>4. QED
    BY <1>3, <2>2, <2>3, PortIsOpen
<1>4. QED
  BY <1>1, <1>2, <1>3, ClientProgramInvariant, PTL DEF Spec
=============================================================================
